------------------------------ MODULE CoreTemp ------------------------------
(***************************************************************************)
(* nCoreTemp: the calculator's display and computer_server.py, which finds *)
(* the device, configures it, clears the halt of both bulk endpoints,      *)
(* reads one greeting and then writes frames (a header and a word for each *)
(* core) as bulk packets.  The greeting is sent from inside the handler of *)
(* CLEAR_FEATURE(EP1 IN), which waits for it to be fetched before that     *)
(* request is acknowledged.                                                *)
(*                                                                         *)
(* The cable may be pulled, either program ended and started again, and    *)
(* the server gives requests up that it has waited for too long.           *)
(*                                                                         *)
(* Abstractions: enumeration and EP0 are UsbDevice's; a frame is its       *)
(* number, and a packet its place in it; a request is given up only while  *)
(* the calculator waits for its greeting to be fetched; a write does not   *)
(* time out.                                                               *)
(***************************************************************************)
EXTENDS Integers, Sequences, FiniteSetsExt

CONSTANTS
  CoreCounts,     \* numbers of logical cores of the server's machine
  PacketWords,    \* 16 words: 64 bytes
  BufferWords,    \* 64 words: BULK_OUT_BUFFER_SIZE and MAX_BULK_PACKET
  HeaderWords,    \* 4 words: CPUStatsHeader
  MayTimeOut,     \* the requests that may be given up
  MaxFrames,      \* bound on the frames written
  MaxUnplugs,     \* bound on pulled cables and on starts of the calculator's program
  MaxRestarts     \* bound on starts of the server

ASSUME SizesAssumption ==
  /\ CoreCounts \subseteq Nat /\ {PacketWords, BufferWords, HeaderWords} \subseteq Nat \ {0}
  /\ BufferWords % PacketWords = 0 /\ HeaderWords <= BufferWords
ASSUME BoundsAssumption ==
  /\ MayTimeOut \subseteq {"configure", "clearIn", "clearOut"}
  /\ MaxFrames \in Nat /\ MaxUnplugs \in Nat /\ MaxRestarts \in Nat

VARIABLES
  pc,         \* the calculator: link, poll, hello, bulk, off
  keep,       \* keep_app_running
  status,     \* program_current_state
  shown,      \* the packets on_usb_data_received got last: g_header and what follows
  in1, out1,  \* EP1: what is primed, and the completion bits
  setup,      \* the request whose setup packet the calculator has not read
  answer,     \* the server's request is acknowledged
  plugged,
  session,    \* number of the device's present connection
  server,     \* find, configure, clearIn, clearOut, read, frame, write, exit
  opened,     \* the connection the server's handle is for
  cores, frame, left,  \* the machine, the latest frame, its packets not yet written
  gaveUp,     \* history: a request was given up
  unplugs, restarts

calculator == <<pc, keep, status, shown>>
endpoints == <<in1, out1>>
control == <<setup, answer>>
cable == <<plugged, session, unplugs>>
machine == <<server, opened, frame, left, gaveUp, restarts>>
vars == <<calculator, endpoints, control, cable, machine, cores>>

NoSetup == "none"
Unprimed == [primed |-> FALSE, data |-> <<>>, done |-> FALSE]

Init ==
  /\ pc = "link" /\ keep = TRUE /\ status = "connecting" /\ shown = <<>>
  /\ in1 = Unprimed /\ out1 = Unprimed /\ setup = NoSetup /\ answer = FALSE
  /\ plugged \in BOOLEAN /\ session = 0 /\ unplugs = 0
  /\ server = "find" /\ opened = 0 /\ cores \in CoreCounts /\ frame = 0 /\ left = <<>>
  /\ gaveUp = FALSE /\ restarts = 0

-----------------------------------------------------------------------------
(* Frames.                                                                  *)

\* Mutant: all cores are packed, however many.
FrameWordsUncapped == HeaderWords + cores

FrameWords == Min({HeaderWords + cores, BufferWords})
PacketCount == (FrameWords + PacketWords - 1) \div PacketWords
Size(p) == Min({PacketWords, FrameWords - PacketWords * (p.place - 1)})
Frame(k) == [i \in 1..PacketCount |-> [number |-> k, place |-> i]]

(* A short packet ends a transfer, or a full buffer.                        *)
Retired(data) ==
  Size(data[Len(data)]) < PacketWords \/ Len(data) * PacketWords >= BufferWords

-----------------------------------------------------------------------------
(* The calculator.                                                          *)

Present == plugged /\ pc \notin {"link", "off"}

Link ==
  /\ pc = "link" /\ plugged
  /\ pc' = "poll" /\ session' = session + 1
  /\ UNCHANGED <<keep, status, shown, endpoints, control, plugged, unplugs, machine, cores>>

Armed(ep) == [ep EXCEPT !.primed = TRUE, !.data = <<>>]
Taken == setup' = NoSetup /\ answer' = TRUE

\* SET_CONFIGURATION: EP1 is flushed and EP1 OUT armed.
ServeConfigure ==
  /\ pc = "poll" /\ setup = "configure"
  /\ in1' = [in1 EXCEPT !.primed = FALSE] /\ out1' = Armed(out1)
  /\ Taken /\ pc' = "bulk"
  /\ UNCHANGED <<keep, status, shown, cable, machine, cores>>

\* CLEAR_FEATURE for EP1 IN: on_usb_setup_done, to the wait of send_usb_message.
ServeClearIn ==
  /\ pc = "poll" /\ setup = "clearIn"
  /\ in1' = Armed(in1)
  /\ setup' = NoSetup /\ pc' = "hello"
  /\ UNCHANGED <<keep, status, shown, out1, answer, cable, machine, cores>>

\* Mutant: the wait for the greeting has no end.
GreetingWaited ==
  /\ pc = "hello" /\ in1.done
  /\ in1' = [in1 EXCEPT !.done = FALSE]
  /\ status' = "connected" /\ answer' = (setup = NoSetup)
  /\ pc' = "bulk"
  /\ UNCHANGED <<keep, shown, out1, setup, cable, machine, cores>>

\* Mutant: only a greeting that was fetched in time connects.
GreetingFetched ==
  /\ pc = "hello"
  /\ in1.done \/ ~(Present /\ server = "read" /\ opened = session)
  /\ in1' = [in1 EXCEPT !.done = FALSE]
  /\ status' = (IF in1.done THEN "connected" ELSE status) /\ answer' = (setup = NoSetup)
  /\ pc' = "bulk"
  /\ UNCHANGED <<keep, shown, out1, setup, cable, machine, cores>>

(* The wait ends, by the completion bit or by its count; only then is the    *)
(* request acknowledged, in vain if another has come.                        *)
Greeted ==
  /\ pc = "hello"
  /\ in1.done \/ ~(Present /\ server = "read" /\ opened = session)
  /\ in1' = [in1 EXCEPT !.done = FALSE]
  /\ status' = "connected" /\ answer' = (setup = NoSetup)
  /\ pc' = "bulk"
  /\ UNCHANGED <<keep, shown, out1, setup, cable, machine, cores>>

\* CLEAR_FEATURE for EP1 OUT arms it anew.
ServeClearOut ==
  /\ pc = "poll" /\ setup = "clearOut"
  /\ out1' = Armed(out1)
  /\ Taken /\ pc' = "bulk"
  /\ UNCHANGED <<keep, status, shown, in1, cable, machine, cores>>

NoRequest ==
  /\ pc = "poll" /\ setup = NoSetup
  /\ pc' = "bulk"
  /\ UNCHANGED <<keep, status, shown, endpoints, control, cable, machine, cores>>

\* Mutant: a completion of an endpoint armed since is taken for its data.
ServiceBulkUnarmed ==
  /\ pc = "bulk"
  /\ shown' = IF out1.done /\ ~out1.primed THEN out1.data ELSE shown
  /\ out1' = [out1 EXCEPT !.done = FALSE]
  /\ in1' = [in1 EXCEPT !.done = FALSE]
  /\ status' = IF plugged THEN status ELSE "disconnecting"
  /\ pc' = IF keep THEN "poll" ELSE "off"
  /\ UNCHANGED <<keep, control, cable, machine, cores>>

(* service_bulk_endpoints and the rest of the turn.  A transfer armed again  *)
(* since it completed has received nothing: its frame is lost.               *)
ServiceBulk ==
  /\ pc = "bulk"
  /\ shown' = IF out1.done /\ ~out1.primed THEN out1.data ELSE shown
  /\ out1' = IF out1.done THEN [Armed(out1) EXCEPT !.done = FALSE] ELSE out1
  /\ in1' = [in1 EXCEPT !.done = FALSE]
  /\ status' = IF plugged THEN status ELSE "disconnecting"
  /\ pc' = IF keep THEN "poll" ELSE "off"
  /\ UNCHANGED <<keep, control, cable, machine, cores>>

\* Esc, while it waits for the cable or when a scene is drawn.
Escape ==
  /\ pc \in {"link", "poll"} /\ keep
  /\ keep' = FALSE
  /\ pc' = IF pc = "link" THEN "off" ELSE pc
  /\ UNCHANGED <<status, shown, endpoints, control, cable, machine, cores>>

-----------------------------------------------------------------------------
(* The server.                                                              *)

HasDevice == Present /\ opened = session
Sends(request) == setup' = request /\ answer' = FALSE

Find ==
  /\ server = "find" /\ Present
  /\ opened' = session /\ Sends("configure") /\ server' = "configure"
  /\ UNCHANGED <<calculator, endpoints, cable, frame, left, gaveUp, restarts, cores>>

Following == [configure |-> "clearIn", clearIn |-> "clearOut", clearOut |-> "read"]

Proceeds ==
  /\ server' = Following[server]
  /\ IF server' = "read" THEN UNCHANGED setup /\ answer' = FALSE ELSE Sends(server')

Acknowledged ==
  /\ server \in DOMAIN Following /\ HasDevice /\ answer
  /\ Proceeds
  /\ UNCHANGED <<calculator, endpoints, cable, opened, frame, left, gaveUp, restarts, cores>>

(* A control transfer times out: set_configuration raises out of main, a     *)
(* clear_halt "may be harmless".                                             *)
TimesOut ==
  /\ server \in MayTimeOut /\ HasDevice /\ ~answer /\ pc = "hello"
  /\ gaveUp' = TRUE
  /\ IF server = "configure" THEN server' = "exit" /\ UNCHANGED control ELSE Proceeds
  /\ UNCHANGED <<calculator, endpoints, cable, opened, frame, left, restarts, cores>>

(* The device is gone.  Only a failing write looks for it again; reads are   *)
(* tried for ever with the old handle.                                       *)
Gone ==
  /\ server \in DOMAIN Following \cup {"write"} /\ ~HasDevice
  /\ server' = CASE server = "configure" -> "exit"
                 [] server = "clearIn"   -> "clearOut"
                 [] server = "clearOut"  -> "read"
                 [] server = "write"     -> "find"
  /\ left' = <<>>
  /\ UNCHANGED <<calculator, endpoints, control, cable, opened, frame, gaveUp, restarts, cores>>

\* Any message is the greeting.
ReadGreeting ==
  /\ server = "read" /\ HasDevice /\ in1.primed
  /\ in1' = [in1 EXCEPT !.primed = FALSE, !.done = TRUE]
  /\ server' = "frame"
  /\ UNCHANGED <<calculator, out1, control, cable, opened, frame, left, gaveUp, restarts, cores>>

NewFrame ==
  /\ server = "frame" /\ frame < MaxFrames
  /\ frame' = frame + 1 /\ left' = Frame(frame + 1)
  /\ server' = "write"
  /\ UNCHANGED <<calculator, endpoints, control, cable, opened, gaveUp, restarts, cores>>

WritePacket ==
  /\ server = "write" /\ HasDevice /\ out1.primed
  /\ LET data == Append(out1.data, Head(left))
     IN  out1' = [primed |-> ~Retired(data), data |-> data, done |-> out1.done \/ Retired(data)]
  /\ left' = Tail(left)
  /\ server' = IF left' = <<>> THEN "frame" ELSE "write"
  /\ UNCHANGED <<calculator, in1, control, cable, opened, frame, gaveUp, restarts, cores>>

\* The server is ended, by Ctrl-C or its own failure, and started again.
Restart ==
  /\ restarts < MaxRestarts
  /\ restarts' = restarts + 1
  /\ server' = "find" /\ left' = <<>> /\ opened' = 0
  /\ UNCHANGED <<calculator, endpoints, control, cable, frame, gaveUp, cores>>

-----------------------------------------------------------------------------
(* The user.                                                                *)

Unplug ==
  /\ plugged /\ unplugs < MaxUnplugs
  /\ plugged' = FALSE /\ unplugs' = unplugs + 1
  /\ setup' = NoSetup /\ answer' = FALSE
  /\ UNCHANGED <<calculator, endpoints, session, machine, cores>>

Plug ==
  /\ ~plugged /\ plugged' = TRUE
  /\ session' = IF pc \in {"link", "off"} THEN session ELSE session + 1
  /\ UNCHANGED <<calculator, endpoints, control, unplugs, machine, cores>>

StartAgain ==
  /\ pc = "off" /\ unplugs < MaxUnplugs
  /\ unplugs' = unplugs + 1
  /\ pc' = "link" /\ keep' = TRUE /\ status' = "connecting" /\ shown' = <<>>
  /\ in1' = Unprimed /\ out1' = Unprimed /\ setup' = NoSetup /\ answer' = FALSE
  /\ UNCHANGED <<plugged, session, machine, cores>>

-----------------------------------------------------------------------------
Turns ==
  \/ Link \/ ServeConfigure \/ ServeClearIn \/ Greeted \/ ServeClearOut \/ NoRequest \/ ServiceBulk
Serves == Find \/ Acknowledged \/ Gone \/ ReadGreeting \/ NewFrame \/ WritePacket
Next == Turns \/ Serves \/ TimesOut \/ Escape \/ Restart \/ Unplug \/ Plug \/ StartAgain

(* Both programs run.  The calculator's turns include one in which nothing   *)
(* happens, so that an infinite behaviour has infinitely many of them.       *)
Spec == Init /\ [][Next]_vars /\ WF_vars(Turns) /\ WF_vars(Serves)

-----------------------------------------------------------------------------
(* The variables have their types; a transfer never exceeds the buffer.      *)
TypeOK ==
  /\ pc \in {"link", "poll", "hello", "bulk", "off"} /\ keep \in BOOLEAN
  /\ status \in {"connecting", "connected", "disconnecting"}
  /\ server \in DOMAIN Following \cup {"find", "read", "frame", "write", "exit"}
  /\ setup \in DOMAIN Following \cup {NoSetup} /\ answer \in BOOLEAN
  /\ opened \in 0..session /\ frame \in 0..MaxFrames
  /\ \A ep \in {in1, out1} : ep.primed \in BOOLEAN /\ ep.done \in BOOLEAN
  /\ Len(out1.data) * PacketWords <= BufferWords
  /\ out1.primed => Len(out1.data) * PacketWords < BufferWords

(* The calculator shows one whole frame: never two joined, nor the rest of   *)
(* one cut by a flush of the endpoint, unless a request was given up.        *)
ShownIsAFrame == gaveUp \/ shown = <<>> \/ \E k \in 1..frame : shown = Frame(k)

(* While the server streams, the calculator says it is connected.            *)
StreamsConnected ==
  server \in {"frame", "write"} /\ HasDevice /\ pc = "poll" => status = "connected"

(* A server gets to write its frames, unless the device goes, the server has *)
(* failed to configure it, or it holds the handle of an earlier connection.  *)
GetsGoing ==
  <>[](frame = MaxFrames \/ server = "exit" \/ ~Present \/ (server = "read" /\ ~HasDevice))

(* Every frame begun is shown, or a later one, unless the device goes, the *)
(* server is started again, or a request was given up.                       *)
EveryFrameShown ==
  \A k \in 1..MaxFrames :
    (server = "write" /\ frame = k) ~>
      \/ shown # <<>> /\ shown[1].number >= k
      \/ ~HasDevice \/ server \notin {"frame", "write"} \/ gaveUp

(* A server looks for a device whose handle it has lost; not so while it     *)
(* waits for the greeting.                                                   *)
Recovers == (server = "read" /\ ~HasDevice) ~> server # "read"
=============================================================================
