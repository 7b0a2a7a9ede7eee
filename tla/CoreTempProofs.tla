--------------------------- MODULE CoreTempProofs ---------------------------
(***************************************************************************)
(* Proofs about CoreTemp, for every number of frames, pulled cables and    *)
(* restarts, every size of packet and buffer, and every set of requests    *)
(* that may be given up.                                                   *)
(***************************************************************************)
EXTENDS CoreTemp, SequenceTheorems, TLAPS

-----------------------------------------------------------------------------
(* Frames and packets.                                                      *)

\* A frame ends its transfer by itself: its last packet is short, or fills the
\* buffer.  Not so with 12, 28 or 44 cores: see the README.
EndsTransfer ==
  \A n \in CoreCounts : HeaderWords + n >= BufferWords \/ (HeaderWords + n) % PacketWords # 0

LEMMA DivBounds ==
  ASSUME NEW a \in Nat, NEW d \in Nat \ {0}
  PROVE  /\ a \div d \in Nat /\ (a \div d) * d <= a /\ a < (a \div d + 1) * d
         /\ a % d = a - (a \div d) * d
<1> DEFINE q == a \div d
           r == a % d
<1>1. q \in Int /\ r \in 0 .. d - 1 /\ a = d * q + r
  OBVIOUS
<1>2. q \in Nat
  BY <1>1
<1> HIDE DEF q, r
<1>3. (q + 1) * d = d * q + d /\ q * d = d * q /\ d * q \in Nat
  BY <1>1, <1>2
<1>4. q * d <= a /\ a < (q + 1) * d /\ r = a - q * d
  BY <1>1, <1>2, <1>3
<1> QED
  BY <1>2, <1>4 DEF q, r

LEMMA MinPair ==
  ASSUME NEW a \in Int, NEW b \in Int
  PROVE  Min({a, b}) = IF a <= b THEN a ELSE b
  BY DEF Min

\* A frame has packets, in the buffer all of them, and only the last is not full.
LEMMA FramePackets ==
  ASSUME cores \in CoreCounts
  PROVE  /\ FrameWords \in Nat /\ PacketCount \in Nat \ {0}
         /\ (PacketCount - 1) * PacketWords < FrameWords
         /\ FrameWords <= PacketCount * PacketWords /\ FrameWords <= BufferWords
         /\ FrameWords = IF HeaderWords + cores <= BufferWords THEN HeaderWords + cores ELSE BufferWords
<1>1. cores \in Nat /\ PacketWords \in Nat \ {0} /\ BufferWords \in Nat \ {0} /\ HeaderWords \in Nat \ {0}
  BY SizesAssumption
<1>2. FrameWords = IF HeaderWords + cores <= BufferWords THEN HeaderWords + cores ELSE BufferWords
  BY <1>1, MinPair DEF FrameWords
<1>3. FrameWords \in Nat \ {0} /\ FrameWords <= BufferWords
  BY <1>1, <1>2
<1> DEFINE w == FrameWords
           n == PacketCount
           a == w + PacketWords - 1
<1>4. a \in Nat /\ n = a \div PacketWords
  BY <1>1, <1>3 DEF PacketCount
<1> HIDE DEF n, a, w
<1>5. n \in Nat /\ n * PacketWords <= a /\ a < (n + 1) * PacketWords
  BY <1>1, <1>4, DivBounds
<1>6. /\ n * PacketWords \in Nat /\ (n + 1) * PacketWords = n * PacketWords + PacketWords
      /\ (n - 1) * PacketWords = n * PacketWords - PacketWords
  BY <1>1, <1>5
<1>7. w \in Nat \ {0} /\ a = w + PacketWords - 1
  BY <1>3 DEF w, a
<1>8. (n - 1) * PacketWords < w /\ w <= n * PacketWords
  BY <1>1, <1>5, <1>6, <1>7
<1>9. n # 0
  BY <1>1, <1>7, <1>8
<1> QED
  BY <1>2, <1>3, <1>5, <1>8, <1>9 DEF n, w

Packet == [number : Nat, place : Nat]
Begun(k, m) == [i \in 1..m |-> [number |-> k, place |-> i]]
Rest(k, m) == [i \in 1..PacketCount - m |-> [number |-> k, place |-> m + i]]

\* The first packets of a frame are retired exactly with the last one.
LEMMA RetiredLast ==
  ASSUME cores \in CoreCounts, EndsTransfer, NEW k \in Nat, NEW m \in 1..PacketCount
  PROVE  Retired(Begun(k, m)) <=> m = PacketCount
<1>1. PacketWords \in Nat \ {0} /\ BufferWords \in Nat \ {0} /\ BufferWords % PacketWords = 0
      /\ HeaderWords \in Nat /\ cores \in Nat
  BY SizesAssumption
<1> DEFINE n == PacketCount
           w == FrameWords
           P == PacketWords
<1>2. /\ n \in Nat \ {0} /\ (n - 1) * P < w /\ w <= n * P /\ w <= BufferWords /\ w \in Nat
      /\ m \in Nat /\ 1 <= m /\ m <= n
  BY FramePackets
<1>3. Len(Begun(k, m)) = m /\ Begun(k, m)[m].place = m
  BY <1>2 DEF Begun
<1>4. /\ (m - 1) * P \in Nat /\ P * (m - 1) = (m - 1) * P /\ m * P = (m - 1) * P + P
      /\ (n - 1) * P \in Nat /\ n * P = (n - 1) * P + P
  BY <1>1, <1>2
<1>5. Size(Begun(k, m)[m]) = IF P <= w - (m - 1) * P THEN P ELSE w - (m - 1) * P
  BY <1>1, <1>2, <1>3, <1>4, MinPair DEF Size
<1> HIDE DEF n, w, P
<1>6. Retired(Begun(k, m)) <=> (w - (m - 1) * P < P \/ m * P >= BufferWords)
  BY <1>1, <1>2, <1>3, <1>4, <1>5 DEF Retired, P
<1>7. CASE m < n
  <2>1. m * P <= (n - 1) * P
    BY <1>1, <1>2, <1>7 DEF P
  <2> QED
    BY <1>1, <1>2, <1>4, <1>6, <1>7, <2>1 DEF n, P
<1>8. CASE m = n
  <2>1. CASE w = BufferWords
    BY <1>1, <1>2, <1>6, <1>8, <2>1 DEF n
  <2>2. CASE w # BufferWords
    <3>1. w = HeaderWords + cores /\ HeaderWords + cores < BufferWords
      BY <1>1, <2>2, FramePackets DEF w
    <3>2. w % P # 0
      BY <1>1, <3>1 DEF EndsTransfer, P
    <3>3. w # n * P
      <4> SUFFICES ASSUME w = n * P PROVE FALSE
        OBVIOUS
      <4>1. /\ w \div P \in Nat /\ (w \div P) * P <= w /\ w < (w \div P + 1) * P
            /\ w % P = w - (w \div P) * P
        BY <1>1, <1>2, DivBounds DEF P
      <4> DEFINE q == w \div P
      <4> HIDE DEF q
      <4>2. q \in Nat /\ q * P <= n * P /\ n * P < (q + 1) * P /\ w % P = n * P - q * P
        BY <4>1 DEF q
      <4>3. q <= n /\ n < q + 1
        BY <1>1, <1>2, <4>2 DEF P
      <4>4. q = n
        BY <1>2, <4>2, <4>3
      <4> QED
        BY <1>1, <1>2, <1>4, <3>2, <4>2, <4>4 DEF P
    <3>4. w - (n - 1) * P < P
      BY <1>1, <1>2, <1>4, <3>3 DEF P
    <3> QED
      BY <1>6, <1>8, <3>4 DEF n
  <2> QED
    BY <2>1, <2>2
<1> QED
  BY <1>2, <1>7, <1>8

\* A frame cut after any of its packets, and the next packet taken over.
LEMMA CutFrame ==
  ASSUME cores \in CoreCounts, NEW k \in Nat
  PROVE  /\ Frame(k) = Rest(k, 0) /\ Frame(k) = Begun(k, PacketCount)
         /\ \A m \in 0..PacketCount - 1 :
              /\ Rest(k, m) \in Seq(Packet) /\ Rest(k, m) # <<>>
              /\ Begun(k, m) \in Seq(Packet)
              /\ Append(Begun(k, m), Head(Rest(k, m))) = Begun(k, m + 1)
              /\ Tail(Rest(k, m)) = Rest(k, m + 1)
              /\ Rest(k, m + 1) = <<>> <=> m + 1 = PacketCount
<1>1. PacketCount \in Nat \ {0}
  BY FramePackets
<1>2. Frame(k) = Rest(k, 0) /\ Frame(k) = Begun(k, PacketCount)
  BY <1>1 DEF Frame, Rest, Begun
<1>3. ASSUME NEW m \in 0..PacketCount - 1
      PROVE  /\ Rest(k, m) \in Seq(Packet) /\ Rest(k, m) # <<>>
             /\ Begun(k, m) \in Seq(Packet)
             /\ Append(Begun(k, m), Head(Rest(k, m))) = Begun(k, m + 1)
             /\ Tail(Rest(k, m)) = Rest(k, m + 1)
             /\ Rest(k, m + 1) = <<>> <=> m + 1 = PacketCount
  <2> DEFINE n == PacketCount
  <2>1. m \in Nat /\ n \in Nat /\ m + 1 <= n
    BY <1>1, <1>3
  <2>2. /\ Rest(k, m) \in Seq(Packet) /\ Len(Rest(k, m)) = n - m
        /\ \A i \in 1..n - m : Rest(k, m)[i] = [number |-> k, place |-> m + i]
    BY <2>1 DEF Rest, Packet
  <2>3. /\ Rest(k, m + 1) \in Seq(Packet) /\ Len(Rest(k, m + 1)) = n - (m + 1)
        /\ \A i \in 1..n - (m + 1) : Rest(k, m + 1)[i] = [number |-> k, place |-> m + 1 + i]
    BY <2>1 DEF Rest, Packet
  <2>4. /\ Begun(k, m) \in Seq(Packet) /\ Len(Begun(k, m)) = m
        /\ \A i \in 1..m : Begun(k, m)[i] = [number |-> k, place |-> i]
    BY <2>1 DEF Begun, Packet
  <2>5. /\ Begun(k, m + 1) \in Seq(Packet) /\ Len(Begun(k, m + 1)) = m + 1
        /\ \A i \in 1..m + 1 : Begun(k, m + 1)[i] = [number |-> k, place |-> i]
    BY <2>1 DEF Begun, Packet
  <2> HIDE DEF n
  <2>6. Rest(k, m) # <<>> /\ Head(Rest(k, m)) = [number |-> k, place |-> m + 1]
    <3>1. 1 \in 1..n - m /\ Len(Rest(k, m)) > 0
      BY <2>1, <2>2
    <3>2. Rest(k, m) # <<>> /\ Head(Rest(k, m)) = Rest(k, m)[1]
      BY <2>2, <3>1, EmptySeq
    <3> QED
      BY <2>2, <3>1, <3>2
  <2>7. Append(Begun(k, m), Head(Rest(k, m))) = Begun(k, m + 1)
    <3> DEFINE x == Head(Rest(k, m))
               s == Begun(k, m)
               t == Begun(k, m + 1)
    <3>1. x \in Packet /\ x = [number |-> k, place |-> m + 1]
      BY <2>1, <2>6 DEF Packet
    <3>2. s \in Seq(Packet) /\ t \in Seq(Packet) /\ Len(s) = m /\ Len(t) = m + 1
          /\ (\A i \in 1..m : s[i] = [number |-> k, place |-> i])
          /\ \A i \in 1..m + 1 : t[i] = [number |-> k, place |-> i]
      BY <2>4, <2>5
    <3> HIDE DEF x, s, t
    <3>3. Append(s, x) \in Seq(Packet) /\ Len(Append(s, x)) = m + 1
          /\ (\A i \in 1..m : Append(s, x)[i] = s[i]) /\ Append(s, x)[m + 1] = x
      BY <3>1, <3>2, AppendProperties
    <3>4. \A i \in 1..m + 1 : Append(s, x)[i] = t[i]
      BY <2>1, <3>1, <3>2, <3>3
    <3>5. Append(s, x) = t
      BY <2>1, <3>2, <3>3, <3>4, SeqEqual
    <3> QED
      BY <3>5 DEF x, s, t
  <2>8. Tail(Rest(k, m)) = Rest(k, m + 1)
    <3> DEFINE s == Rest(k, m)
               t == Rest(k, m + 1)
    <3>1. s \in Seq(Packet) /\ t \in Seq(Packet) /\ s # <<>> /\ Len(s) = n - m /\ Len(t) = n - (m + 1)
          /\ (\A i \in 1..n - m : s[i] = [number |-> k, place |-> m + i])
          /\ \A i \in 1..n - (m + 1) : t[i] = [number |-> k, place |-> m + 1 + i]
      BY <2>2, <2>3, <2>6
    <3> HIDE DEF s, t
    <3>2. Tail(s) \in Seq(Packet) /\ Len(Tail(s)) = Len(s) - 1
          /\ \A i \in 1..Len(Tail(s)) : Tail(s)[i] = s[i + 1]
      BY <3>1, HeadTailProperties
    <3>3. Len(Tail(s)) = Len(t)
      BY <2>1, <3>1, <3>2
    <3>4. ASSUME NEW i \in 1..Len(t) PROVE Tail(s)[i] = t[i]
      <4>1. Tail(s)[i] = s[i + 1] /\ i + 1 \in 1..n - m /\ m + (i + 1) = m + 1 + i
        BY <2>1, <3>1, <3>2, <3>3
      <4> QED
        BY <3>1, <4>1
    <3>5. Tail(s) = t
      BY <3>1, <3>2, <3>3, <3>4, SeqEqual
    <3> QED
      BY <3>5 DEF s, t
  <2>9. Rest(k, m + 1) = <<>> <=> m + 1 = n
    BY <2>1, <2>3
  <2> QED
    BY <2>2, <2>4, <2>6, <2>7, <2>8, <2>9 DEF n
<1> QED
  BY <1>2, <1>3

-----------------------------------------------------------------------------
(* The inductive invariant.                                                 *)

Endpoint == [primed : BOOLEAN, data : Seq(Packet), done : BOOLEAN]
EndpointsTyped ==
  /\ in1 \in Endpoint /\ out1 \in Endpoint
  /\ cores \in CoreCounts /\ frame \in Nat /\ gaveUp \in BOOLEAN
  /\ left \in Seq(Packet) /\ (server = "write" => left # <<>>)

\* A connection that is gone does not come back: the next has another number.
ConnectionInv ==
  /\ session \in Nat /\ opened \in 0..session
  /\ pc \notin {"link", "off"} => session > 0
  /\ server = "find" => ~HasDevice
  /\ answer => setup = NoSetup

\* A server that has met the calculator finds the greeting of this connection only.
GreetingInv ==
  HasDevice =>
    /\ server = "configure" => setup = "configure" \/ (setup = NoSetup /\ ~in1.primed)
    /\ server \in {"clearIn", "clearOut", "read"} =>
         (in1.primed => status = "connected" \/ pc = "hello")
    /\ server \in {"frame", "write"} => status = "connected" \/ pc = "hello"

\* Frames stay apart while no request is given up, if they end their own transfers:
\* then what a transfer that ended holds is one frame, and so is what is shown.
Whole(data) == \E k \in 1..frame : data = Frame(k)
Clean == EndsTransfer /\ ~gaveUp
ReceivedInv == Clean => (out1.done /\ ~out1.primed => Whole(out1.data))
ShownInv == Clean => ShownIsAFrame

\* From the configuration to the greeting EP1 OUT is armed and empty, and the only
\* request that may still come is the one the server waits for.
Fresh == out1.primed /\ out1.data = <<>>
SetupInv ==
  Clean /\ HasDevice =>
    /\ server = "configure" /\ setup = NoSetup => Fresh /\ (out1.done => pc = "bulk")
    /\ server = "clearIn" =>
         /\ setup \in {"clearIn", NoSetup} /\ Fresh
         /\ out1.done => pc = "bulk" /\ setup = "clearIn"
    /\ server = "clearOut" => setup \in {"clearOut", NoSetup} /\ Fresh /\ ~out1.done
    /\ server = "read" => setup = NoSetup /\ Fresh /\ ~out1.done

\* Then no request comes, and EP1 OUT holds what was written of the latest frame.
Between == (Fresh /\ ~out1.done) \/ (~out1.primed /\ out1.done /\ Whole(out1.data))
Written(m) == out1.primed /\ ~out1.done /\ out1.data = Begun(frame, m)
StreamInv ==
  Clean /\ HasDevice =>
    /\ server = "frame" => setup = NoSetup /\ Between
    /\ server = "write" =>
         /\ setup = NoSetup /\ frame > 0
         /\ \E m \in 0..PacketCount - 1 :
              left = Rest(frame, m) /\ IF m = 0 THEN Between ELSE Written(m)

CoreTempInv ==
  /\ EndpointsTyped /\ ConnectionInv /\ GreetingInv
  /\ ReceivedInv /\ SetupInv /\ StreamInv /\ ShownInv

\* Without its device the server's state does not matter.
LEMMA NoDevice == ~HasDevice => GreetingInv /\ SetupInv /\ StreamInv
  BY DEF GreetingInv, SetupInv, StreamInv

LEMMA InitInv == Init => CoreTempInv
<1> SUFFICES ASSUME Init PROVE CoreTempInv
  OBVIOUS
<1>1. EndpointsTyped
  <2>1. <<>> \in Seq(Packet) /\ Unprimed \in Endpoint
    BY DEF Unprimed, Endpoint
  <2> QED
    BY <2>1 DEF Init, EndpointsTyped
<1>2. ~HasDevice
  BY DEF Init, HasDevice, Present
<1>3. ConnectionInv
  BY <1>2 DEF Init, ConnectionInv
<1>4. ReceivedInv /\ ShownInv
  BY DEF Init, ReceivedInv, ShownInv, ShownIsAFrame, Unprimed, Clean
<1> QED
  BY <1>1, <1>2, <1>3, <1>4, NoDevice DEF CoreTempInv

\* Frames are what they are as long as the machine's cores are.
LEMMA SameFrames ==
  ASSUME UNCHANGED cores
  PROVE  PacketCount' = PacketCount /\ \A k : Frame(k)' = Frame(k)
  BY DEF PacketCount, FrameWords, Frame

\* What neither program's packets see, and no connection comes back by.
LEMMA Undisturbed ==
  ASSUME CoreTempInv, HasDevice' => HasDevice,
         UNCHANGED <<in1, out1, cores, frame, gaveUp, left, server, shown>>
  PROVE  /\ EndpointsTyped' /\ ReceivedInv' /\ ShownInv'
         /\ UNCHANGED setup => StreamInv'
<1>1. EndpointsTyped'
  BY DEF CoreTempInv, EndpointsTyped
<1>2. \A x : Whole(x)' <=> Whole(x)
  BY SameFrames DEF Whole
<1>3. ReceivedInv' /\ ShownInv'
  BY <1>2, SameFrames DEF CoreTempInv, ReceivedInv, ShownInv, ShownIsAFrame, Clean
<1>4. ASSUME UNCHANGED setup PROVE StreamInv'
  <2>1. Between' <=> Between
    BY <1>2 DEF Between, Fresh
  <2>2. PacketCount' = PacketCount
    BY SameFrames
  <2> QED
    BY <1>4, <2>1, <2>2 DEF CoreTempInv, StreamInv, Written, Rest, Clean
<1> QED
  BY <1>1, <1>3, <1>4

LEMMA QuietStep ==
  ASSUME CoreTempInv, Link \/ NoRequest \/ Escape \/ Plug \/ UNCHANGED vars
  PROVE  CoreTempInv'
<1>1. /\ UNCHANGED <<in1, out1, cores, frame, gaveUp, left, server, shown, setup, answer, status, opened>>
      /\ pc' = pc \/ (pc \notin {"hello", "bulk"})
      /\ session \in Nat /\ opened \in 0..session
  BY DEF Link, NoRequest, Escape, Plug, vars, calculator, endpoints, control, cable, machine,
         CoreTempInv, ConnectionInv
<1>2. HasDevice' => HasDevice
  <2>1. CASE Link
    BY <1>1, <2>1 DEF Link, HasDevice, Present
  <2>2. CASE Plug
    BY <1>1, <2>2 DEF Plug, calculator, HasDevice, Present
  <2>3. CASE NoRequest \/ Escape \/ UNCHANGED vars
    BY <2>3 DEF NoRequest, Escape, vars, calculator, cable, machine, HasDevice, Present
  <2> QED
    BY <2>1, <2>2, <2>3
<1>3. session' \in Nat /\ opened' \in 0..session' /\ (pc' \notin {"link", "off"} => session' > 0)
  <2>1. pc \notin {"link", "off"} => session > 0
    BY DEF CoreTempInv, ConnectionInv
  <2> QED
    BY <1>1, <2>1 DEF Link, NoRequest, Escape, Plug, vars, calculator, cable
<1>4. ConnectionInv'
  BY <1>1, <1>2, <1>3 DEF CoreTempInv, ConnectionInv
<1>5. GreetingInv' /\ SetupInv'
  BY <1>1, <1>2 DEF CoreTempInv, GreetingInv, SetupInv, Fresh, Clean
<1> QED
  BY <1>1, <1>2, <1>4, <1>5, Undisturbed DEF CoreTempInv

\* The device goes, or the server: what was under way does not matter any more.
LEMMA LeavingStep ==
  ASSUME CoreTempInv, Unplug \/ Restart \/ Gone \/ StartAgain
  PROVE  CoreTempInv'
<1>0. /\ session \in Nat /\ opened \in 0..session /\ (pc \notin {"link", "off"} => session > 0)
      /\ EndpointsTyped
  BY DEF CoreTempInv, ConnectionInv
<1>1. ~HasDevice' /\ session' = session /\ opened' \in 0..session' /\ (pc' = pc \/ pc' = "link")
  <2>1. CASE Unplug
    BY <1>0, <2>1 DEF Unplug, calculator, machine, HasDevice, Present
  <2>2. CASE Restart
    BY <1>0, <2>2 DEF Restart, calculator, cable, HasDevice, Present
  <2>3. CASE Gone
    BY <1>0, <2>3 DEF Gone, calculator, cable, HasDevice, Present
  <2>4. CASE StartAgain
    BY <1>0, <2>4 DEF StartAgain, machine, HasDevice, Present
  <2> QED
    BY <2>1, <2>2, <2>3, <2>4
<1>2. answer' => setup' = NoSetup
  BY DEF Unplug, Restart, Gone, StartAgain, control, CoreTempInv, ConnectionInv
<1>3. ConnectionInv'
  BY <1>0, <1>1, <1>2 DEF ConnectionInv
<1>4. UNCHANGED <<cores, frame, gaveUp>>
  BY DEF Unplug, Restart, Gone, StartAgain, machine
<1>5. /\ (left' = left /\ server' = server) \/ (left' = <<>> /\ server' # "write")
      /\ \/ UNCHANGED <<in1, out1, shown>>
         \/ in1' = Unprimed /\ out1' = Unprimed /\ shown' = <<>>
  <2>1. CASE Unplug \/ StartAgain
    BY <2>1 DEF Unplug, StartAgain, machine, calculator, endpoints
  <2>2. CASE Restart
    BY <2>2 DEF Restart, calculator, endpoints
  <2>3. CASE Gone
    BY <2>3 DEF Gone, calculator, endpoints, Following
  <2> QED
    BY <2>1, <2>2, <2>3
<1>6. EndpointsTyped'
  <2>1. <<>> \in Seq(Packet) /\ Unprimed \in Endpoint
    BY DEF Unprimed, Endpoint
  <2> QED
    BY <1>0, <1>4, <1>5, <2>1 DEF EndpointsTyped
<1>7. ReceivedInv' /\ ShownInv'
  <2>1. CASE UNCHANGED <<in1, out1, shown>>
    BY <1>4, <2>1, SameFrames DEF CoreTempInv, ReceivedInv, ShownInv, ShownIsAFrame, Whole, Clean
  <2>2. CASE out1' = Unprimed /\ shown' = <<>>
    BY <2>2 DEF ReceivedInv, ShownInv, ShownIsAFrame, Unprimed, Clean
  <2> QED
    BY <1>5, <2>1, <2>2
<1>8. GreetingInv' /\ SetupInv' /\ StreamInv'
  BY <1>1 DEF GreetingInv, SetupInv, StreamInv, Clean
<1> QED
  BY <1>3, <1>6, <1>7, <1>8 DEF CoreTempInv

\* What arming, flushing and serving do to an endpoint.
LEMMA EndpointUpdates ==
  ASSUME NEW ep \in Endpoint
  PROVE  /\ Armed(ep) \in Endpoint /\ Armed(ep).primed /\ Armed(ep).data = <<>>
         /\ Armed(ep).done = ep.done
         /\ LET e == [ep EXCEPT !.done = FALSE]
            IN  e \in Endpoint /\ e.primed = ep.primed /\ e.data = ep.data /\ ~e.done
         /\ LET e == [ep EXCEPT !.primed = FALSE] IN e \in Endpoint /\ ~e.primed
<1> DEFINE none == <<>>
<1>1. none \in Seq(Packet)
  OBVIOUS
<1>2. Armed(ep) = [ep EXCEPT !.primed = TRUE, !.data = none]
  BY DEF Armed
<1> HIDE DEF none
<1>3. /\ Armed(ep) \in Endpoint /\ Armed(ep).primed = TRUE /\ Armed(ep).data = none
      /\ Armed(ep).done = ep.done
  BY <1>1, <1>2 DEF Endpoint
<1>4. LET e == [ep EXCEPT !.done = FALSE]
      IN  e \in Endpoint /\ e.primed = ep.primed /\ e.data = ep.data /\ e.done = FALSE
  BY DEF Endpoint
<1>5. LET e == [ep EXCEPT !.primed = FALSE] IN e \in Endpoint /\ e.primed = FALSE
  BY DEF Endpoint
<1> QED
  BY <1>3, <1>4, <1>5 DEF none

\* The calculator answers a request, or arms EP1 OUT anew.
LEMMA ServeStep ==
  ASSUME CoreTempInv, ServeConfigure \/ ServeClearOut
  PROVE  CoreTempInv'
<1>0. in1 \in Endpoint /\ out1 \in Endpoint
  BY DEF CoreTempInv, EndpointsTyped
<1>1. /\ UNCHANGED <<cores, frame, gaveUp, left, server, shown, status, opened, session, plugged>>
      /\ pc = "poll" /\ pc' = "bulk" /\ setup' = NoSetup /\ answer'
      /\ setup = IF ServeConfigure THEN "configure" ELSE "clearOut"
      /\ out1' = Armed(out1)
      /\ in1' = in1 \/ in1' = [in1 EXCEPT !.primed = FALSE]
  BY DEF ServeConfigure, ServeClearOut, cable, machine, Taken
<1>2. /\ out1' \in Endpoint /\ out1'.primed /\ out1'.data = <<>> /\ out1'.done = out1.done
      /\ in1' \in Endpoint /\ (in1'.primed => in1.primed)
  <2>1. out1' \in Endpoint /\ out1'.primed /\ out1'.data = <<>> /\ out1'.done = out1.done
    BY <1>0, <1>1, EndpointUpdates
  <2>2. CASE in1' = in1
    BY <1>0, <2>1, <2>2
  <2>3. CASE in1' = [in1 EXCEPT !.primed = FALSE]
    <3>1. in1' \in Endpoint /\ ~in1'.primed
      BY <1>0, <2>3, EndpointUpdates
    <3> QED
      BY <2>1, <3>1
  <2> QED
    BY <1>1, <2>2, <2>3
<1>3. EndpointsTyped'
  BY <1>1, <1>2 DEF CoreTempInv, EndpointsTyped
<1>4. HasDevice' = HasDevice
  BY <1>1 DEF HasDevice, Present
<1>5. ConnectionInv'
  BY <1>1, <1>4 DEF CoreTempInv, ConnectionInv
<1>6. GreetingInv'
  <2>1. CASE ServeConfigure
    <3>1. ~in1'.primed
      BY <1>0, <2>1 DEF ServeConfigure, Endpoint
    <3> QED
      BY <1>1, <1>4, <3>1 DEF CoreTempInv, GreetingInv
  <2>2. CASE ~ServeConfigure
    BY <1>1, <1>2, <1>4, <2>2 DEF CoreTempInv, GreetingInv, NoSetup
  <2> QED
    BY <2>1, <2>2
<1>7. ReceivedInv' /\ ShownInv'
  BY <1>1, <1>2, SameFrames DEF CoreTempInv, ReceivedInv, ShownInv, ShownIsAFrame, Clean
<1>8. SetupInv' /\ StreamInv'
  <2> SUFFICES ASSUME Clean, HasDevice PROVE SetupInv' /\ StreamInv'
    BY <1>1, <1>4 DEF SetupInv, StreamInv, Clean
  <2>1. setup \in {"configure", "clearOut"} /\ setup # NoSetup
    BY <1>1 DEF NoSetup
  <2>2. /\ server \notin {"read", "frame", "write", "clearIn"}
        /\ server = "clearOut" => ~out1.done
    BY <2>1 DEF CoreTempInv, SetupInv, StreamInv, Clean
  <2>3. SetupInv'
    BY <1>1, <1>2, <2>2 DEF SetupInv, Fresh, Clean
  <2>4. StreamInv'
    BY <1>1, <2>2 DEF StreamInv, Clean
  <2> QED
    BY <2>3, <2>4
<1> QED
  BY <1>3, <1>5, <1>6, <1>7, <1>8 DEF CoreTempInv

LEMMA ServeClearInStep ==
  ASSUME CoreTempInv, ServeClearIn
  PROVE  CoreTempInv'
<1>0. in1 \in Endpoint
  BY DEF CoreTempInv, EndpointsTyped
<1>1. /\ UNCHANGED <<cores, frame, gaveUp, left, server, shown, status, opened, session, plugged>>
      /\ UNCHANGED <<out1, answer>>
      /\ pc = "poll" /\ pc' = "hello" /\ setup = "clearIn" /\ setup' = NoSetup /\ in1' = Armed(in1)
  BY DEF ServeClearIn, cable, machine
<1>2. in1' \in Endpoint
  BY <1>0, <1>1, EndpointUpdates
<1>3. EndpointsTyped'
  BY <1>1, <1>2 DEF CoreTempInv, EndpointsTyped
<1>4. HasDevice' = HasDevice
  BY <1>1 DEF HasDevice, Present
<1>5. ConnectionInv'
  BY <1>1, <1>4 DEF CoreTempInv, ConnectionInv
<1>6. GreetingInv'
  <2>1. HasDevice => server # "configure"
    BY <1>1 DEF CoreTempInv, GreetingInv, NoSetup
  <2> QED
    BY <1>1, <1>4, <2>1 DEF GreetingInv
<1>7. ReceivedInv' /\ ShownInv'
  BY <1>1, SameFrames DEF CoreTempInv, ReceivedInv, ShownInv, ShownIsAFrame, Whole, Clean
<1>8. SetupInv' /\ StreamInv'
  <2> SUFFICES ASSUME Clean, HasDevice PROVE SetupInv' /\ StreamInv'
    BY <1>1, <1>4 DEF SetupInv, StreamInv, Clean
  <2>1. server \notin {"read", "frame", "write", "clearOut", "configure"}
    BY <1>1 DEF CoreTempInv, SetupInv, StreamInv, GreetingInv, NoSetup, Clean
  <2>2. SetupInv'
    BY <1>1, <2>1 DEF CoreTempInv, SetupInv, Fresh, Clean
  <2>3. StreamInv'
    BY <1>1, <2>1 DEF StreamInv, Clean
  <2> QED
    BY <2>2, <2>3
<1> QED
  BY <1>3, <1>5, <1>6, <1>7, <1>8 DEF CoreTempInv

\* The wait for the greeting ends, and the calculator takes itself for connected.
LEMMA GreetedStep ==
  ASSUME CoreTempInv, Greeted
  PROVE  CoreTempInv'
<1>0. in1 \in Endpoint
  BY DEF CoreTempInv, EndpointsTyped
<1>1. /\ UNCHANGED <<cores, frame, gaveUp, left, server, shown, opened, session, plugged, out1, setup>>
      /\ pc = "hello" /\ pc' = "bulk" /\ status' = "connected" /\ answer' = (setup = NoSetup)
      /\ in1' = [in1 EXCEPT !.done = FALSE]
  BY DEF Greeted, cable, machine
<1>2. in1' \in Endpoint /\ in1'.primed = in1.primed
  BY <1>0, <1>1 DEF Endpoint
<1>3. EndpointsTyped'
  BY <1>1, <1>2 DEF CoreTempInv, EndpointsTyped
<1>4. HasDevice' = HasDevice
  BY <1>1 DEF HasDevice, Present
<1>5. ConnectionInv'
  BY <1>1, <1>4 DEF CoreTempInv, ConnectionInv
<1>6. GreetingInv'
  BY <1>1, <1>2, <1>4 DEF CoreTempInv, GreetingInv
<1>7. ReceivedInv' /\ ShownInv'
  BY <1>1, SameFrames DEF CoreTempInv, ReceivedInv, ShownInv, ShownIsAFrame, Whole, Clean
<1>8. SetupInv'
  BY <1>1, <1>4 DEF CoreTempInv, SetupInv, Fresh, Clean
<1>9. StreamInv'
  <2>1. Between' <=> Between
    BY <1>1, SameFrames DEF Between, Fresh, Whole
  <2> QED
    BY <1>1, <1>4, <2>1, SameFrames DEF CoreTempInv, StreamInv, Written, Rest, Clean
<1> QED
  BY <1>3, <1>5, <1>6, <1>7, <1>8, <1>9 DEF CoreTempInv

\* A transfer that ended is handed to the screen, and EP1 OUT armed for the next.
LEMMA ServiceBulkStep ==
  ASSUME CoreTempInv, ServiceBulk
  PROVE  CoreTempInv'
<1>0. in1 \in Endpoint /\ out1 \in Endpoint
  BY DEF CoreTempInv, EndpointsTyped
<1>1. /\ UNCHANGED <<cores, frame, gaveUp, left, server, opened, session, plugged, setup, answer>>
      /\ pc = "bulk" /\ pc' \in {"poll", "off"} /\ (plugged => status' = status)
      /\ shown' = IF out1.done /\ ~out1.primed THEN out1.data ELSE shown
      /\ out1' = IF out1.done THEN [Armed(out1) EXCEPT !.done = FALSE] ELSE out1
      /\ in1' = [in1 EXCEPT !.done = FALSE]
  BY DEF ServiceBulk, control, cable, machine
<1>2. /\ in1' \in Endpoint /\ in1'.primed = in1.primed /\ out1' \in Endpoint /\ ~out1'.done
      /\ out1.done => out1'.primed /\ out1'.data = <<>>
      /\ ~out1.done => out1' = out1
  <2> DEFINE armed == Armed(out1)
  <2>1. armed \in Endpoint /\ armed.primed /\ armed.data = <<>>
    BY <1>0, EndpointUpdates
  <2>2. out1' = IF out1.done THEN [armed EXCEPT !.done = FALSE] ELSE out1
    BY <1>1
  <2> HIDE DEF armed
  <2>3. LET e == [armed EXCEPT !.done = FALSE]
        IN  e \in Endpoint /\ e.primed = armed.primed /\ e.data = armed.data /\ ~e.done
    BY <2>1, EndpointUpdates
  <2> QED
    BY <1>0, <1>1, <2>1, <2>2, <2>3, EndpointUpdates
<1>3. EndpointsTyped'
  BY <1>1, <1>2 DEF CoreTempInv, EndpointsTyped
<1>4. HasDevice' => HasDevice /\ status' = status
  BY <1>1 DEF HasDevice, Present
<1>5. ConnectionInv'
  BY <1>1, <1>4 DEF CoreTempInv, ConnectionInv
<1>6. GreetingInv'
  BY <1>1, <1>2, <1>4 DEF CoreTempInv, GreetingInv
<1>7. ReceivedInv' /\ ShownInv'
  <2>1. ReceivedInv'
    BY <1>2 DEF ReceivedInv, Clean
  <2>2. ~Clean \/ shown' = <<>> \/ \E k \in 1..frame : shown' = Frame(k)
    BY <1>1 DEF CoreTempInv, ReceivedInv, ShownInv, ShownIsAFrame, Whole, Clean
  <2> QED
    BY <1>1, <2>1, <2>2, SameFrames DEF ShownInv, ShownIsAFrame, Clean
<1>8. SetupInv'
  <2>1. Fresh => Fresh'
    BY <1>2 DEF Fresh
  <2> QED
    BY <1>1, <1>2, <1>4, <2>1 DEF CoreTempInv, SetupInv, Clean
<1>9. StreamInv'
  <2>1. Between => Between'
    BY <1>2 DEF Between, Fresh
  <2>2. \A m : Written(m) => Written(m)'
    BY <1>1, <1>2 DEF Written
  <2> QED
    BY <1>1, <1>4, <2>1, <2>2, SameFrames DEF CoreTempInv, StreamInv, Rest, Clean
<1> QED
  BY <1>3, <1>5, <1>6, <1>7, <1>8, <1>9 DEF CoreTempInv

\* The server finds the device, and asks for its configuration.
LEMMA FindStep ==
  ASSUME CoreTempInv, Find
  PROVE  CoreTempInv'
<1>1. /\ UNCHANGED <<in1, out1, cores, frame, gaveUp, left, shown, session, plugged, pc, status>>
      /\ server' = "configure" /\ setup' = "configure" /\ answer' = FALSE /\ opened' = session
  BY DEF Find, Sends, calculator, endpoints, cable
<1>2. EndpointsTyped'
  BY <1>1 DEF CoreTempInv, EndpointsTyped
<1>3. ConnectionInv'
  BY <1>1 DEF CoreTempInv, ConnectionInv
<1>4. GreetingInv' /\ SetupInv' /\ StreamInv'
  BY <1>1 DEF GreetingInv, SetupInv, StreamInv, NoSetup, Clean
<1>5. ReceivedInv' /\ ShownInv'
  BY <1>1, SameFrames DEF CoreTempInv, ReceivedInv, ShownInv, ShownIsAFrame, Whole, Clean
<1> QED
  BY <1>2, <1>3, <1>4, <1>5 DEF CoreTempInv

\* It goes on with the next request, answered or not.
LEMMA ProceedsStep ==
  ASSUME CoreTempInv, Acknowledged \/ TimesOut
  PROVE  CoreTempInv'
<1>1. /\ UNCHANGED <<in1, out1, cores, frame, left, shown, session, plugged, pc, status, opened>>
      /\ HasDevice /\ HasDevice' = HasDevice
  BY DEF Acknowledged, TimesOut, calculator, endpoints, cable, HasDevice, Present
<1>2. /\ server' \in {"clearIn", "clearOut", "read", "exit"}
      /\ server' = "clearIn" => server = "configure"
      /\ server' = "clearOut" => server = "clearIn"
      /\ server' = "read" => server = "clearOut"
      /\ answer' => setup' = NoSetup
      /\ \/ Acknowledged /\ gaveUp' = gaveUp /\ setup = NoSetup /\ setup' = IF server' = "read" THEN NoSetup ELSE server'
         \/ gaveUp'
      /\ server' = "clearIn" => setup = NoSetup
  <2>1. CASE Acknowledged
    <3>1. setup = NoSetup
      BY <2>1 DEF Acknowledged, CoreTempInv, ConnectionInv
    <3>2. server \in {"configure", "clearIn", "clearOut"} /\ Proceeds /\ gaveUp' = gaveUp
      BY <2>1 DEF Acknowledged, Following
    <3> QED
      BY <2>1, <3>1, <3>2 DEF Proceeds, Following, Sends
  <2>2. CASE TimesOut
    <3>1. server \in {"configure", "clearIn", "clearOut"} /\ gaveUp'
      BY <2>2, BoundsAssumption DEF TimesOut
    <3>2. CASE server = "configure"
      BY <2>2, <3>1, <3>2 DEF TimesOut, control, CoreTempInv, ConnectionInv
    <3>3. CASE server # "configure"
      BY <2>2, <3>1, <3>3 DEF TimesOut, Proceeds, Following, Sends
    <3> QED
      BY <3>2, <3>3
  <2> QED
    BY <2>1, <2>2
<1>3. gaveUp' \in BOOLEAN /\ (~gaveUp' => ~gaveUp)
  <2>1. gaveUp \in BOOLEAN
    BY DEF CoreTempInv, EndpointsTyped
  <2>2. gaveUp' = gaveUp \/ gaveUp' = TRUE
    BY DEF Acknowledged, TimesOut
  <2> QED
    BY <2>1, <2>2
<1>4. EndpointsTyped'
  BY <1>1, <1>2, <1>3 DEF CoreTempInv, EndpointsTyped
<1>5. ConnectionInv'
  BY <1>1, <1>2 DEF CoreTempInv, ConnectionInv
<1>6. GreetingInv'
  BY <1>1, <1>2 DEF CoreTempInv, GreetingInv, NoSetup
<1>7. ReceivedInv' /\ ShownInv'
  BY <1>1, <1>3, SameFrames DEF CoreTempInv, ReceivedInv, ShownInv, ShownIsAFrame, Whole, Clean
<1>8. SetupInv' /\ StreamInv'
  <2> SUFFICES ASSUME Clean' PROVE SetupInv' /\ StreamInv'
    BY DEF SetupInv, StreamInv, Clean
  <2>1. setup = NoSetup /\ setup' = (IF server' = "read" THEN NoSetup ELSE server') /\ ~gaveUp
    BY <1>2, <1>3 DEF Clean
  <2>2. Fresh' <=> Fresh
    BY <1>1 DEF Fresh
  <2>3. SetupInv'
    BY <1>1, <1>2, <2>1, <2>2 DEF CoreTempInv, SetupInv, NoSetup, Clean
  <2>4. StreamInv'
    BY <1>2 DEF StreamInv, Clean
  <2> QED
    BY <2>3, <2>4
<1> QED
  BY <1>4, <1>5, <1>6, <1>7, <1>8 DEF CoreTempInv

LEMMA ReadGreetingStep ==
  ASSUME CoreTempInv, ReadGreeting
  PROVE  CoreTempInv'
<1>1. /\ UNCHANGED <<out1, cores, frame, gaveUp, left, shown, session, plugged, pc, status, opened>>
      /\ UNCHANGED <<setup, answer>>
      /\ HasDevice /\ HasDevice' = HasDevice /\ server = "read" /\ server' = "frame" /\ in1.primed
      /\ in1' = [in1 EXCEPT !.primed = FALSE, !.done = TRUE]
  BY DEF ReadGreeting, calculator, control, cable, HasDevice, Present
<1>2. in1' \in Endpoint
  BY <1>1 DEF CoreTempInv, EndpointsTyped, Endpoint
<1>3. EndpointsTyped'
  BY <1>1, <1>2 DEF CoreTempInv, EndpointsTyped
<1>4. ConnectionInv'
  BY <1>1 DEF CoreTempInv, ConnectionInv
<1>5. GreetingInv'
  BY <1>1 DEF CoreTempInv, GreetingInv
<1>6. ReceivedInv' /\ ShownInv'
  BY <1>1, SameFrames DEF CoreTempInv, ReceivedInv, ShownInv, ShownIsAFrame, Whole, Clean
<1>7. SetupInv' /\ StreamInv'
  BY <1>1 DEF CoreTempInv, SetupInv, StreamInv, Between, Fresh, Clean
<1> QED
  BY <1>3, <1>4, <1>5, <1>6, <1>7 DEF CoreTempInv

LEMMA NewFrameStep ==
  ASSUME CoreTempInv, NewFrame
  PROVE  CoreTempInv'
<1>1. /\ UNCHANGED <<in1, out1, cores, gaveUp, shown, session, plugged, pc, status, opened>>
      /\ UNCHANGED <<setup, answer>> /\ HasDevice' = HasDevice
      /\ server = "frame" /\ server' = "write" /\ frame' = frame + 1 /\ left' = Frame(frame + 1)
  BY DEF NewFrame, calculator, endpoints, control, cable, HasDevice, Present
<1>2. frame \in Nat /\ frame' \in Nat /\ frame' > 0 /\ cores \in CoreCounts
  BY <1>1 DEF CoreTempInv, EndpointsTyped
<1>3. /\ PacketCount \in Nat \ {0} /\ left' = Rest(frame', 0)
      /\ left' \in Seq(Packet) /\ left' # <<>>
  <2>1. PacketCount \in Nat \ {0} /\ 0 \in 0..PacketCount - 1
    BY <1>2, FramePackets
  <2>2. left' = Rest(frame', 0)
    BY <1>1, <1>2, CutFrame
  <2> QED
    BY <1>2, <2>1, <2>2, CutFrame
<1>4. EndpointsTyped'
  BY <1>1, <1>2, <1>3 DEF CoreTempInv, EndpointsTyped
<1>5. ConnectionInv' /\ GreetingInv'
  BY <1>1 DEF CoreTempInv, ConnectionInv, GreetingInv
<1>6. \A x : Whole(x) => Whole(x)'
  BY <1>1, <1>2, SameFrames DEF Whole
<1>7. ReceivedInv' /\ ShownInv'
  BY <1>1, <1>2, <1>6, SameFrames DEF CoreTempInv, ReceivedInv, ShownInv, ShownIsAFrame, Clean
<1>8. SetupInv'
  BY <1>1 DEF SetupInv, Clean
<1>9. StreamInv'
  <2> SUFFICES ASSUME Clean, HasDevice PROVE StreamInv'
    BY <1>1 DEF StreamInv, Clean
  <2>1. setup = NoSetup /\ Between
    BY <1>1 DEF CoreTempInv, StreamInv, Clean
  <2>2. Between'
    BY <1>1, <1>6, <2>1 DEF Between, Fresh
  <2>3. PacketCount' = PacketCount
    BY <1>1, SameFrames
  <2>4. 0 \in 0..PacketCount' - 1
    BY <1>3, <2>3
  <2>5. left' = Rest(frame, 0)'
    BY <1>3, <2>3 DEF Rest
  <2>6. \E m \in 0..PacketCount' - 1 :
          left' = Rest(frame, m)' /\ IF m = 0 THEN Between' ELSE Written(m)'
    <3> WITNESS 0 \in 0..PacketCount' - 1
    <3> QED
      BY <2>2, <2>5
  <2> QED
    BY <1>1, <1>2, <2>1, <2>6 DEF StreamInv, Clean
<1> QED
  BY <1>4, <1>5, <1>7, <1>8, <1>9 DEF CoreTempInv

\* A packet is taken over into the buffer: the last one of its frame ends the transfer.
LEMMA WritePacketStep ==
  ASSUME CoreTempInv, WritePacket
  PROVE  CoreTempInv'
<1> DEFINE data == Append(out1.data, Head(left))
<1>1. /\ UNCHANGED <<in1, cores, frame, gaveUp, shown, session, plugged, pc, status, opened>>
      /\ UNCHANGED <<setup, answer>> /\ HasDevice /\ HasDevice' = HasDevice
      /\ server = "write" /\ out1.primed
      /\ out1' = [primed |-> ~Retired(data), data |-> data, done |-> out1.done \/ Retired(data)]
      /\ left' = Tail(left) /\ server' = IF left' = <<>> THEN "frame" ELSE "write"
  BY DEF WritePacket, calculator, control, cable, HasDevice, Present
<1>2. /\ out1 \in Endpoint /\ cores \in CoreCounts /\ frame \in Nat /\ gaveUp \in BOOLEAN
      /\ left \in Seq(Packet) /\ left # <<>>
  BY <1>1 DEF CoreTempInv, EndpointsTyped
<1>3. data \in Seq(Packet) /\ left' \in Seq(Packet)
  <2>1. Head(left) \in Packet /\ Tail(left) \in Seq(Packet)
    BY <1>2, HeadTailProperties
  <2>2. out1.data \in Seq(Packet)
    BY <1>2 DEF Endpoint
  <2> QED
    BY <1>1, <2>1, <2>2, AppendProperties
<1> DEFINE retired == Retired(data)
<1>4. retired \in BOOLEAN
  BY DEF Retired
<1>5. out1' = [primed |-> ~retired, data |-> data, done |-> out1.done \/ retired]
  BY <1>1
<1> HIDE DEF data, retired
<1>6. out1' \in Endpoint
  BY <1>3, <1>4, <1>5 DEF Endpoint
<1>7. EndpointsTyped'
  <2>1. server' = "write" => left' # <<>>
    BY <1>1
  <2> QED
    BY <1>1, <1>2, <1>3, <1>6, <2>1 DEF CoreTempInv, EndpointsTyped
<1>8. ConnectionInv'
  BY <1>1 DEF CoreTempInv, ConnectionInv
<1>9. GreetingInv'
  BY <1>1 DEF CoreTempInv, GreetingInv
<1>10. SetupInv' /\ ShownInv'
  BY <1>1, SameFrames DEF CoreTempInv, SetupInv, ShownInv, ShownIsAFrame, Clean
<1>11. CASE ~Clean
  BY <1>1, <1>7, <1>8, <1>9, <1>10, <1>11 DEF CoreTempInv, ReceivedInv, StreamInv, Clean
<1>12. CASE Clean
  <2> DEFINE n == PacketCount
  <2>1. n \in Nat \ {0}
    BY <1>2, FramePackets
  <2>2. /\ setup = NoSetup /\ frame > 0
        /\ \E m \in 0..n - 1 : left = Rest(frame, m) /\ IF m = 0 THEN Between ELSE Written(m)
    BY <1>1, <1>12 DEF CoreTempInv, StreamInv, Clean
  <2>3. PICK m \in 0..n - 1 : left = Rest(frame, m) /\ IF m = 0 THEN Between ELSE Written(m)
    BY <2>2
  <2>4. ~out1.done /\ out1.data = Begun(frame, m)
    <3>1. CASE m = 0
      <4>1. Between /\ out1.data = <<>> /\ ~out1.done
        BY <1>1, <2>3, <3>1 DEF Between, Fresh
      <4>2. Begun(frame, 0) = <<>>
        BY DEF Begun
      <4> QED
        BY <3>1, <4>1, <4>2
    <3>2. CASE m # 0
      BY <2>3, <3>2 DEF Written
    <3> QED
      BY <3>1, <3>2
  <2>5. /\ data = Begun(frame, m + 1) /\ left' = Rest(frame, m + 1)
        /\ left' = <<>> <=> m + 1 = n
    <3>1. /\ Append(Begun(frame, m), Head(Rest(frame, m))) = Begun(frame, m + 1)
          /\ Tail(Rest(frame, m)) = Rest(frame, m + 1)
          /\ Rest(frame, m + 1) = <<>> <=> m + 1 = PacketCount
      BY <1>2, <2>3, CutFrame
    <3> QED
      BY <1>1, <2>3, <2>4, <3>1 DEF data
  <2>6. retired <=> m + 1 = n
    <3>1. m + 1 \in 1..PacketCount
      BY <2>1
    <3>2. Retired(Begun(frame, m + 1)) <=> m + 1 = PacketCount
      BY <1>2, <1>12, <3>1, RetiredLast DEF Clean
    <3> QED
      BY <2>5, <3>2 DEF retired
  <2>7. PacketCount' = PacketCount /\ \A k, j : Rest(k, j)' = Rest(k, j)
    BY <1>1, SameFrames DEF Rest
  <2>10. out1'.primed = ~retired /\ out1'.data = data /\ out1'.done = (out1.done \/ retired)
    BY <1>5
  <2>8. CASE m + 1 = n
    <3>1. server' = "frame" /\ ~out1'.primed /\ out1'.done /\ out1'.data = Begun(frame, n)
      <4>1. retired
        BY <2>6, <2>8
      <4>2. data = Begun(frame, n)
        BY <2>5, <2>8
      <4>3. server' = "frame"
        BY <1>1, <2>5, <2>8
      <4> QED
        BY <2>10, <4>1, <4>2, <4>3
    <3>2. frame \in 1..frame /\ Begun(frame, n) = Frame(frame)
      BY <1>2, <2>2, CutFrame
    <3>3. Whole(out1.data)'
      BY <1>1, <3>1, <3>2, SameFrames DEF Whole
    <3>4. ReceivedInv' /\ StreamInv'
      BY <1>1, <2>2, <3>1, <3>3 DEF ReceivedInv, StreamInv, Between, Clean
    <3> QED
      BY <1>7, <1>8, <1>9, <1>10, <3>4 DEF CoreTempInv
  <2>9. CASE m + 1 # n
    <3>1. server' = "write" /\ out1'.primed /\ ~out1'.done /\ out1'.data = Begun(frame, m + 1)
      <4>1. ~retired
        BY <2>6, <2>9
      <4>2. server' = "write"
        BY <1>1, <2>5, <2>9
      <4> QED
        BY <2>4, <2>5, <2>10, <4>1, <4>2
    <3>2. m + 1 \in 0..PacketCount' - 1 /\ m + 1 # 0
      BY <2>1, <2>7, <2>9
    <3>3. left' = Rest(frame, m + 1)' /\ Written(m + 1)'
      BY <1>1, <2>5, <2>7, <3>1 DEF Written, Rest
    <3>4. \E j \in 0..PacketCount' - 1 : left' = Rest(frame, j)' /\ IF j = 0 THEN Between' ELSE Written(j)'
      BY <3>2, <3>3
    <3>5. StreamInv'
      BY <1>1, <2>2, <3>1, <3>4 DEF StreamInv, Clean
    <3>6. ReceivedInv'
      BY <3>1 DEF ReceivedInv, Clean
    <3> QED
      BY <1>7, <1>8, <1>9, <1>10, <3>5, <3>6 DEF CoreTempInv
  <2> QED
    BY <2>8, <2>9
<1> QED
  BY <1>2, <1>11, <1>12

LEMMA StepInv ==
  ASSUME CoreTempInv, [Next]_vars
  PROVE  CoreTempInv'
<1>1. CASE Turns
  BY <1>1, QuietStep, ServeStep, ServeClearInStep, GreetedStep, ServiceBulkStep DEF Turns
<1>2. CASE Serves
  BY <1>2, FindStep, ProceedsStep, LeavingStep, ReadGreetingStep, NewFrameStep, WritePacketStep
     DEF Serves
<1>3. CASE TimesOut \/ Escape \/ Restart \/ Unplug \/ Plug \/ StartAgain \/ UNCHANGED vars
  BY <1>3, ProceedsStep, QuietStep, LeavingStep
<1> QED
  BY <1>1, <1>2, <1>3 DEF Next

(* With any number of cores whose frames end their own transfer, whatever    *)
(* is unplugged, restarted and reconnected, and while no request is given    *)
(* up: on_usb_data_received gets whole frames (arming EP1 OUT on             *)
(* SET_CONFIGURATION and CLEAR_FEATURE, and the packets of main()'s writes). *)
THEOREM ShowsWholeFrames ==
  ASSUME EndsTransfer
  PROVE  Spec => []ShownIsAFrame
<1>1. Init => CoreTempInv
  BY InitInv
<1>2. CoreTempInv /\ [Next]_vars => CoreTempInv'
  BY StepInv
<1>3. CoreTempInv => ShownIsAFrame
  BY DEF CoreTempInv, ShownInv, Clean, ShownIsAFrame
<1> QED
  BY <1>1, <1>2, <1>3, PTL DEF Spec

(* A server that streams to this connection has met the greeting of this     *)
(* connection, also after requests that were given up (program_current_state *)
(* set once the greeting is out, in on_usb_setup_done).                      *)
THEOREM ConnectedWhileStreaming == Spec => []StreamsConnected
<1>1. Init => CoreTempInv
  BY InitInv
<1>2. CoreTempInv /\ [Next]_vars => CoreTempInv'
  BY StepInv
<1>3. CoreTempInv => StreamsConnected
  BY DEF CoreTempInv, GreetingInv, StreamsConnected
<1> QED
  BY <1>1, <1>2, <1>3, PTL DEF Spec
====
