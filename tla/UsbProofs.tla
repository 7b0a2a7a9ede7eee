------------------------------ MODULE UsbProofs ------------------------------
(***************************************************************************)
(* Proofs about what the host meets on the wire.  UsbDevice, for every set *)
(* of requests and any number of requests, aborts and switches of the      *)
(* root: its requests get their own answers, and the program listens.      *)
(* MscTransport, for every set of commands, every size of the medium and   *)
(* any number of commands and resets: it implements BulkOnly, a failure it *)
(* reports is explained by its own sense data, and the host and the        *)
(* program stay in step.                                                   *)
(***************************************************************************)
EXTENDS UsbDevice, MscTransport, TLAPS

-----------------------------------------------------------------------------
(* UsbDevice: the controller's state.                                       *)

\* The native state is saved before the controller is reset, and back before it is
\* saved again or the program ends.
LifeInv ==
  /\ step # "off" => saved = "native"
  /\ step \in {"off", "save"} => regs = "native"
  /\ saved \in {"none", "native"}

LEMMA StepLife ==
  ASSUME LifeInv, [UsbNext]_usbVars
  PROVE  LifeInv'
<1>1. CASE UNCHANGED usbVars
  BY <1>1 DEF LifeInv, usbVars, lifecycle
<1>2. CASE Lives \/ Escape \/ SwitchRoot
  BY <1>2 DEF LifeInv, Lives, Escape, SwitchRoot, Start, ResetController, Connect, Restore,
              SaveAgain, ShutDown, lifecycle
<1>3. CASE Serves
  <2>1. UNCHANGED lifecycle /\ step \notin {"off", "save"} /\ step' \notin {"off", "save"}
    BY <1>3 DEF Serves, SetupSeen, CopySetup, ClearSetup, SetAddress, SetConfiguration, Configure,
                ClearFeature, Acknowledge, Transmit, Ignore, InDone, OutDone, Asked
  <2> QED
    BY <2>1 DEF LifeInv, lifecycle
<1>4. CASE Plug \/ BusReset \/ TakeIn \/ GiveOut \/ \E r \in Requests : Ask(r) \/ AbortAndAsk(r)
  BY <1>4 DEF LifeInv, Plug, BusReset, TakeIn, GiveOut, Ask, AbortAndAsk, Send, lifecycle
<1> QED
  BY <1>1, <1>2, <1>3, <1>4 DEF UsbNext

\* On every way out, after any number of root switches, the calculator has its own
\* controller state back (restore_native_usb_state before usb_device_shutdown's caller ends).
THEOREM NativeStateRestored == UsbSpec => []NativeBack
<1>1. UsbInit => LifeInv
  BY DEF UsbInit, LifeInv
<1>2. LifeInv => NativeBack
  BY DEF LifeInv, NativeBack
<1> QED
  BY <1>1, <1>2, StepLife, PTL DEF UsbSpec

-----------------------------------------------------------------------------
(* Types, in parts: the program and the controller, the requests, the answers. *)

ControllerTyped ==
  /\ step \in {"off", "save", "reset", "link", "loop", "restore", "restoreSwitch", "copy", "clear",
             "dispatch", "configure", "awaitIn", "awaitOut"}
  /\ regs \in {"native", "reset", "program"}
  /\ saved \in {"none", "native"}
AddressTyped == address \in 0..1 /\ staged \in 0..1 /\ known \in 0..1
FlagsTyped == enabled \in BOOLEAN /\ armed \in BOOLEAN /\ pending \in BOOLEAN
HostTyped == complete \subseteq {"in", "out"} /\ stage \in {"idle", "data", "status", "out"}
SentTyped == sent \in Seq(Requests)
NumbersTyped == serving \in 0..Newest /\ buffer \in 0..Newest /\ in0 \in 0..Newest /\ out0 \in 0..Newest
AwaitedTyped == serving > 0 /\ step \in {"awaitIn", "awaitOut"} => Request(serving) \in Delivering \cup Awaited

\* The status stage of SET_CONFIGURATION is awaited after the endpoints are set up.
ConfigureAsked == serving > 0 /\ step = "configure" => Request(serving) = "setConfiguration"

Typed ==
  /\ ControllerTyped /\ AddressTyped /\ FlagsTyped /\ HostTyped /\ SentTyped
  /\ NumbersTyped /\ AwaitedTyped /\ ConfigureAsked

LEMMA TypeParts == Typed => UsbTypeOK
  BY Zenon DEF UsbTypeOK, Typed, ControllerTyped, AddressTyped, FlagsTyped, HostTyped, SentTyped,
               NumbersTyped, AwaitedTyped

LEMMA InitTypes == UsbInit => Typed
<1> SUFFICES ASSUME UsbInit PROVE Typed
  OBVIOUS
<1>1. ControllerTyped
  BY DEF UsbInit, ControllerTyped
<1>2. AddressTyped
  BY DEF UsbInit, AddressTyped
<1>3. FlagsTyped
  BY DEF UsbInit, FlagsTyped
<1>4. HostTyped
  BY DEF UsbInit, HostTyped
<1>5. SentTyped
  BY DEF UsbInit, SentTyped
<1>6. NumbersTyped /\ AwaitedTyped /\ ConfigureAsked
  BY DEF UsbInit, NumbersTyped, AwaitedTyped, ConfigureAsked, Newest, NoAnswer
<1> QED
  BY <1>1, <1>2, <1>3, <1>4, <1>5, <1>6 DEF Typed

\* The life of the program around the controller keeps the types.
LEMMA LivesTypes ==
  ASSUME Typed, LifeInv, Lives \/ Escape \/ SwitchRoot
  PROVE  Typed'
<1> USE DEF Typed, Lives, Escape, SwitchRoot, Start, ResetController, Connect, Restore, SaveAgain,
           ShutDown, Cleared, lifecycle, endpoints, control, hostSide
<1>1. ControllerTyped'
  BY DEF ControllerTyped, LifeInv
<1>2. AddressTyped'
  BY DEF AddressTyped
<1>3. FlagsTyped'
  BY DEF FlagsTyped
<1>4. HostTyped'
  BY DEF HostTyped
<1>5. SentTyped' /\ Newest' = Newest
  BY DEF SentTyped, Newest
<1>6. NumbersTyped'
  BY <1>5 DEF NumbersTyped, SentTyped, Newest, NoAnswer
<1>7. AwaitedTyped' /\ ConfigureAsked'
  BY <1>5 DEF AwaitedTyped, ConfigureAsked, Request, Delivering, Awaited
<1> QED
  BY <1>1, <1>2, <1>3, <1>4, <1>5, <1>6, <1>7

\* Serving a control request keeps the types.
LEMMA ServesTypes ==
  ASSUME Typed, Serves
  PROVE  Typed'
<1> USE DEF Typed, Serves, SetupSeen, CopySetup, ClearSetup, SetAddress, SetConfiguration, Configure,
           ClearFeature, Acknowledge, Transmit, Ignore, InDone, OutDone, Asked, Primed0,
           lifecycle, endpoints, control, hostSide
<1>1. ControllerTyped'
  BY DEF ControllerTyped
<1>2. AddressTyped'
  BY DEF AddressTyped
<1>3. FlagsTyped'
  BY DEF FlagsTyped
<1>4. HostTyped'
  BY DEF HostTyped
<1>5. SentTyped' /\ Newest' = Newest
  BY DEF SentTyped, Newest
<1>6. NumbersTyped'
  BY <1>5 DEF NumbersTyped, SentTyped, Newest, NoAnswer
<1>7. AwaitedTyped' /\ ConfigureAsked'
  BY <1>5 DEF AwaitedTyped, ConfigureAsked, Request, Delivering, Awaited
<1> QED
  BY <1>1, <1>2, <1>3, <1>4, <1>5, <1>6, <1>7

\* The cable and the controller keep the types.
LEMMA WiresTypes ==
  ASSUME Typed, Plug \/ BusReset \/ TakeIn \/ GiveOut
  PROVE  Typed'
<1> USE DEF Typed, Plug, BusReset, TakeIn, GiveOut, lifecycle, endpoints, control, hostSide
<1>1. ControllerTyped'
  BY DEF ControllerTyped
<1>2. AddressTyped'
  BY DEF AddressTyped
<1>3. FlagsTyped'
  BY DEF FlagsTyped
<1>4. HostTyped'
  BY DEF HostTyped
<1>5. SentTyped' /\ Newest' = Newest
  BY DEF SentTyped, Newest
<1>6. NumbersTyped'
  BY <1>5 DEF NumbersTyped, SentTyped, Newest, NoAnswer
<1>7. AwaitedTyped' /\ ConfigureAsked'
  BY <1>5 DEF AwaitedTyped, ConfigureAsked, Request, Delivering, Awaited
<1> QED
  BY <1>1, <1>2, <1>3, <1>4, <1>5, <1>6, <1>7


\* A request sent leaves the earlier ones as they are.
LEMMA SendTypes ==
  ASSUME Typed, NEW r \in Requests, Ask(r) \/ AbortAndAsk(r)
  PROVE  Typed'
<1>1. /\ Send(r)
      /\ UNCHANGED <<step, lifecycle, address, enabled, armed, in0, out0, complete, serving, known>>
      /\ staged' = address /\ pending' = TRUE /\ buffer' = Newest + 1
      /\ stage' \in {"data", "status"}
  BY DEF Ask, AbortAndAsk, Send
<1>2. /\ sent' = Append(sent, r) /\ SentTyped' /\ Newest \in Nat /\ Newest' = Newest + 1
      /\ \A k \in 1..Newest : Request(k)' = Request(k)
  BY DEF Ask, AbortAndAsk, Send, Typed, SentTyped, Newest, Request
<1>3. ControllerTyped' /\ AddressTyped'
  BY <1>1 DEF Typed, ControllerTyped, AddressTyped, lifecycle
<1>4. FlagsTyped' /\ HostTyped'
  BY <1>1 DEF Typed, FlagsTyped, HostTyped
<1>5. NumbersTyped'
  BY <1>1, <1>2 DEF Typed, NumbersTyped
<1>6. AwaitedTyped' /\ ConfigureAsked'
  BY <1>1, <1>2 DEF Typed, NumbersTyped, AwaitedTyped, ConfigureAsked
<1> QED
  BY <1>2, <1>3, <1>4, <1>5, <1>6 DEF Typed

LEMMA StepTypes ==
  ASSUME Typed, LifeInv, [UsbNext]_usbVars
  PROVE  Typed'
<1>1. CASE UNCHANGED usbVars
  BY <1>1 DEF Typed, ControllerTyped, AddressTyped, FlagsTyped, HostTyped, SentTyped, NumbersTyped,
              AwaitedTyped, ConfigureAsked, usbVars, lifecycle, endpoints, control, hostSide, Newest, Request
<1>2. CASE UsbNext
  BY <1>2, LivesTypes, ServesTypes, WiresTypes, SendTypes DEF UsbNext
<1> QED
  BY <1>1, <1>2

\* Every variable keeps its type, and only answers the code waits for are awaited,
\* for any requests and any number of them.
THEOREM TypeCorrect == UsbSpec => []UsbTypeOK
<1>1. UsbInit => Typed /\ LifeInv
  BY InitTypes DEF UsbInit, LifeInv
<1> QED
  BY <1>1, StepTypes, StepLife, TypeParts, PTL DEF UsbSpec

-----------------------------------------------------------------------------
(* The bulk endpoint.                                                       *)

\* Only SET_CONFIGURATION disarms EP1 OUT, and arms it again before anything else.
THEOREM AlwaysListening == UsbSpec => []Listening
<1> DEFINE Inv == step # "configure" /\ enabled => armed
<1>1. UsbInit => Inv
  BY DEF UsbInit
<1>2. Inv /\ [UsbNext]_usbVars => Inv'
  <2> SUFFICES ASSUME Inv, [UsbNext]_usbVars PROVE Inv'
    OBVIOUS
  <2>1. CASE UNCHANGED usbVars
    BY <2>1 DEF usbVars, endpoints
  <2>2. CASE Lives \/ Escape \/ SwitchRoot
    BY <2>2 DEF Lives, Escape, SwitchRoot, Start, ResetController, Connect, Restore, SaveAgain,
                ShutDown, Cleared, endpoints
  <2>3. CASE Serves
    BY <2>3 DEF Serves, SetupSeen, CopySetup, ClearSetup, SetAddress, SetConfiguration, Configure,
                ClearFeature, Acknowledge, Transmit, Ignore, InDone, OutDone, Asked, endpoints
  <2>4. CASE Plug \/ BusReset \/ TakeIn \/ GiveOut \/ \E r \in Requests : Ask(r) \/ AbortAndAsk(r)
    BY <2>4 DEF Plug, BusReset, TakeIn, GiveOut, Ask, AbortAndAsk, Send, endpoints
  <2> QED
    BY <2>1, <2>2, <2>3, <2>4 DEF UsbNext
<1>3. Inv => Listening
  BY DEF Listening
<1> QED
  BY <1>1, <1>2, <1>3, PTL DEF UsbSpec

-----------------------------------------------------------------------------
(* Answers.                                                                 *)

\* While a setup packet waits it is the latest one, and nothing primed is fetched; what
\* is copied, dispatched and primed is then the latest request's, until another overtakes it.
CopyFlushed == step \in {"copy", "clear"} => pending /\ in0 = NoAnswer
PendingLatest == pending => buffer = Newest
ServesLatest ==
  ~overrun => /\ step = "clear" => serving = Newest
              /\ step \in {"dispatch", "configure"} /\ ~pending => serving = Newest
PrimedLatest == ~overrun /\ ~pending /\ in0 # NoAnswer => in0 = Newest

OwnInv == CopyFlushed /\ PendingLatest /\ ServesLatest /\ PrimedLatest /\ AnswersOwn

LEMMA LivesAnswers ==
  ASSUME OwnInv, Lives \/ Escape \/ SwitchRoot
  PROVE  OwnInv'
  BY DEF OwnInv, CopyFlushed, PendingLatest, ServesLatest, PrimedLatest, AnswersOwn, Lives,
         Escape, SwitchRoot, Start, ResetController, Connect, Restore, SaveAgain, ShutDown, Cleared,
         lifecycle, endpoints, control, hostSide, Newest

LEMMA ServesAnswers ==
  ASSUME OwnInv, Serves
  PROVE  OwnInv'
<1>1. Newest' = Newest /\ crossed' = crossed /\ overrun' = overrun
  BY DEF Serves, SetupSeen, CopySetup, ClearSetup, SetAddress, SetConfiguration, Configure,
         ClearFeature, Acknowledge, Transmit, Ignore, InDone, OutDone, hostSide, Newest
<1>2. CASE SetupSeen
  BY <1>1, <1>2 DEF OwnInv, CopyFlushed, PendingLatest, ServesLatest, PrimedLatest, AnswersOwn,
                    SetupSeen
<1>3. CASE CopySetup
  BY <1>1, <1>3 DEF OwnInv, CopyFlushed, PendingLatest, ServesLatest, PrimedLatest, AnswersOwn,
                    CopySetup, control
<1>4. CASE ClearSetup
  BY <1>1, <1>4 DEF OwnInv, CopyFlushed, PendingLatest, ServesLatest, PrimedLatest, AnswersOwn,
                    ClearSetup
<1>5. CASE SetAddress \/ SetConfiguration \/ ClearFeature \/ Acknowledge \/ Transmit
  BY <1>1, <1>5 DEF OwnInv, CopyFlushed, PendingLatest, ServesLatest, PrimedLatest, AnswersOwn,
                    SetAddress, SetConfiguration, ClearFeature, Acknowledge, Transmit, Asked, Primed0
<1>6. CASE Configure \/ Ignore \/ InDone \/ OutDone
  BY <1>1, <1>6 DEF OwnInv, CopyFlushed, PendingLatest, ServesLatest, PrimedLatest, AnswersOwn,
                    Configure, Ignore, InDone, OutDone, Asked, control
<1> QED
  BY <1>2, <1>3, <1>4, <1>5, <1>6 DEF Serves

LEMMA HostAnswers ==
  ASSUME Typed, OwnInv,
         Plug \/ BusReset \/ TakeIn \/ GiveOut \/ \E r \in Requests : Ask(r) \/ AbortAndAsk(r)
  PROVE  OwnInv'
<1>1. CASE Plug \/ BusReset \/ GiveOut
  BY <1>1 DEF OwnInv, CopyFlushed, PendingLatest, ServesLatest, PrimedLatest, AnswersOwn,
              Plug, BusReset, GiveOut, lifecycle, endpoints, control, hostSide, Newest
<1>2. CASE TakeIn
  BY <1>2 DEF OwnInv, CopyFlushed, PendingLatest, ServesLatest, PrimedLatest, AnswersOwn,
              TakeIn, Reaches, Newest
<1>3. CASE \E r \in Requests : Ask(r) \/ AbortAndAsk(r)
  <2>1. PICK r \in Requests : Send(r)
    BY <1>3 DEF Ask, AbortAndAsk
  <2>2. Newest' = Newest + 1 /\ buffer' = Newest'
    BY <2>1 DEF Send, Typed, SentTyped, Newest
  <2>3. pending' = TRUE /\ step' = step /\ in0' = in0 /\ crossed' = crossed
        /\ (overrun \/ step = "clear" => overrun')
    BY <1>3, <2>1 DEF Send
  <2> QED
    BY <2>2, <2>3 DEF OwnInv, CopyFlushed, PendingLatest, ServesLatest, PrimedLatest, AnswersOwn
<1> QED
  BY <1>1, <1>2, <1>3

LEMMA StepAnswers ==
  ASSUME Typed, OwnInv, [UsbNext]_usbVars
  PROVE  OwnInv'
<1>1. CASE UNCHANGED usbVars
  BY <1>1 DEF OwnInv, CopyFlushed, PendingLatest, ServesLatest, PrimedLatest, AnswersOwn,
              usbVars, lifecycle, endpoints, control, hostSide, Newest
<1>2. CASE UsbNext
  BY <1>2, LivesAnswers, ServesAnswers, HostAnswers DEF UsbNext
<1> QED
  BY <1>1, <1>2

\* The host takes no answer to an earlier request for the answer to its own, whatever it
\* aborts and resets, unless a setup packet overtakes one that is being dispatched.
THEOREM AnswersMatch == UsbSpec => []AnswersOwn
<1>1. UsbInit => Typed /\ LifeInv /\ OwnInv
  BY InitTypes DEF UsbInit, LifeInv, OwnInv, CopyFlushed, PendingLatest, ServesLatest,
                   PrimedLatest, AnswersOwn, Newest, NoAnswer
<1>2. OwnInv => AnswersOwn
  BY DEF OwnInv
<1> QED
  BY <1>1, <1>2, StepTypes, StepLife, StepAnswers, PTL DEF UsbSpec

-----------------------------------------------------------------------------
(* MscTransport: the inductive invariant.                                   *)

Payloads == (Nat \X Nat) \cup Ops
Ended == {"passed", "failed", "lost"}
Inputs == {"reply", "read"}
Outputs == {"write", "unknownOut"}
InCallback == pc \in {"exec", "sendData", "receive"}

SequencesTyped ==
  /\ issued \in Seq(Commands)
  /\ outcome \in Seq({"open"} \cup Ended) /\ Len(outcome) = Tag
  /\ read \in Seq(Seq(Payloads)) /\ Len(read) = Tag
  /\ moved \in Seq(Payloads)
MediumTyped ==
  /\ medium \in [0..Sectors - 1 -> Nat \X Nat]
  /\ inTd.kind = "data" => inTd.sector \in Payloads
ProgramTyped == cur \in 0..Tag /\ i \in Nat /\ ok \in BOOLEAN

\* The host's phase says how its latest command stands, and what it is about to do.
HostInv ==
  /\ phase = "idle" => Tag = 0 \/ outcome[Tag] \in Ended
  /\ phase = "reset" => Tag > 0 /\ outcome[Tag] = "lost"
  /\ phase \notin {"idle", "reset"} => Tag > 0 /\ outcome[Tag] = "open"
  /\ phase = "command" => cur < Tag /\ moved = <<>>
  /\ setup = "clearIn" => phase \in {"halted", "reset"}
  /\ setup \in {"clearOut", "massStorageReset"} => phase = "reset"
  /\ phase = "out" => Latest.op \in Outputs /\ Len(moved) < Latest.n
  /\ phase = "in" => Latest.op \notin Outputs

\* A command that waits to be executed is the latest one, and was not begun.
CommandWaits == outDone /\ outBuf.kind = "command"
ArrivalInv ==
  CommandWaits => /\ outBuf.tag = Tag /\ cur < Tag /\ phase \notin {"idle", "command"}
                  /\ outTd = "none" /\ moved = <<>>

\* The program executes the latest command only, within its length.
ProgramInv ==
  /\ InCallback => cur = Tag /\ Tag > 0 /\ phase \notin {"idle", "command"} /\ i <= Latest.n
  /\ pc = "sendData" => Latest.op \in Inputs /\ i < Latest.n
  /\ pc = "receive" => Latest.op \in Outputs /\ i < Latest.n
  /\ InCallback /\ ok /\ Latest.op = "read" => Latest.lba + Latest.n <= Sectors

\* A status for the latest command comes after its execution, and tells its end.
StatusInv ==
  inTd.kind = "status" =>
    /\ inTd.tag \in 0..Tag
    /\ inTd.tag = Tag => /\ cur = Tag /\ ~InCallback
                         /\ inTd.passed /\ Latest.op = "write" => i = Latest.n

\* What the host sends and what the program receives are the same sector.
OutInv ==
  /\ pc = "receive" /\ outDone => outBuf = Data(<<Tag, i>>) /\ outTd = "none"
  /\ pc = "receive" /\ phase = "out" => Len(moved) = IF outDone THEN i + 1 ELSE i
  /\ pc \in {"exec", "sendData"} => ~outDone
  /\ pc = "exec" /\ phase = "out" => Len(moved) = i /\ outTd = "none"

\* What the program sends and what the host reads are the same sector.
InInv ==
  /\ inTd.kind = "data" => pc \in {"exec", "sendData"} /\ Latest.op \in Inputs
  /\ pc = "sendData" => inTd.kind = "data" \/ inTd = Empty
  /\ phase = "in" /\ pc = "exec" => Len(moved) = i /\ inTd.kind # "data"
  /\ phase = "in" /\ pc = "sendData" => Len(moved) = IF inTd.kind = "data" THEN i ELSE i + 1
ReadInv ==
  Tag > 0 /\ Latest.op = "read" =>
    /\ \A k \in 1..Len(moved) : moved[k] = medium[Latest.lba + k - 1]
    /\ phase = "in" /\ inTd.kind = "data" => inTd.sector = medium[Latest.lba + Len(moved)]

TransportInv ==
  /\ SequencesTyped /\ MediumTyped /\ ProgramTyped
  /\ HostInv /\ ArrivalInv /\ ProgramInv /\ StatusInv /\ OutInv /\ InInv /\ ReadInv

LEMMA InitInv == Init => TransportInv
<1> SUFFICES ASSUME Init PROVE TransportInv
  OBVIOUS
<1>1. Tag = 0
  BY DEF Init, Tag
<1>2. SequencesTyped
  BY <1>1 DEF Init, SequencesTyped
<1>3. MediumTyped
  BY SizesAssumption DEF Init, MediumTyped, Empty
<1>4. ProgramTyped
  BY <1>1 DEF Init, ProgramTyped
<1>5. HostInv
  BY <1>1 DEF Init, HostInv
<1>6. ArrivalInv /\ ProgramInv /\ StatusInv /\ OutInv
  BY DEF Init, ArrivalInv, ProgramInv, StatusInv, OutInv, CommandWaits, InCallback, Empty
<1>7. InInv /\ ReadInv
  BY <1>1 DEF Init, InInv, ReadInv, Empty
<1> QED
  BY <1>2, <1>3, <1>4, <1>5, <1>6, <1>7 DEF TransportInv

-----------------------------------------------------------------------------
(* Steps that change no command: the latest one is what it was.             *)

LEMMA IssueInv ==
  ASSUME TransportInv, NEW c \in Commands, Issue(c)
  PROVE  TransportInv'
<1> USE DEF TransportInv
<1>1. /\ issued' = Append(issued, c) /\ Tag \in Nat /\ Tag' = Tag + 1 /\ Latest' = c
      /\ outcome' = Append(outcome, "open") /\ outcome'[Tag'] = "open"
      /\ phase = "idle" /\ phase' = "command" /\ moved' = <<>>
      /\ UNCHANGED <<setup, inTd, outTd, outBuf, outDone, pc, cur, i, ok, medium>>
  BY DEF Issue, SequencesTyped, Tag, Latest, wires, program
<1>2. SequencesTyped'
  <2>1. issued' \in Seq(Commands) /\ outcome' \in Seq({"open"} \cup Ended) /\ Len(outcome') = Tag'
    BY <1>1 DEF SequencesTyped
  <2>2. read' \in Seq(Seq(Payloads)) /\ Len(read') = Tag'
    BY <1>1 DEF SequencesTyped, Issue
  <2> QED
    BY <1>1, <2>1, <2>2 DEF SequencesTyped
<1>3. MediumTyped' /\ ProgramTyped'
  BY <1>1 DEF MediumTyped, ProgramTyped
<1>4. ~InCallback /\ inTd.kind # "data"
  BY <1>1 DEF ProgramInv, InInv, InCallback
<1>5. HostInv'
  <2>1. cur' < Tag' /\ Tag' > 0
    BY <1>1 DEF ProgramTyped
  <2>2. setup' \notin {"clearIn", "clearOut", "massStorageReset"}
    BY <1>1 DEF HostInv
  <2> QED
    BY <1>1, <2>1, <2>2 DEF HostInv
<1>6. ArrivalInv' /\ ProgramInv'
  BY <1>1, <1>4 DEF ArrivalInv, ProgramInv, CommandWaits, InCallback
<1>7. StatusInv'
  BY <1>1 DEF StatusInv
<1>8. OutInv' /\ InInv' /\ ReadInv'
  BY <1>1, <1>4 DEF OutInv, InInv, ReadInv, InCallback
<1> QED
  BY <1>2, <1>3, <1>5, <1>6, <1>7, <1>8

LEMMA SendCommandInv ==
  ASSUME TransportInv, SendCommand
  PROVE  TransportInv'
<1> USE DEF TransportInv
<1>1. /\ phase = "command" /\ outTd # "none" /\ outTd' = "none" /\ outDone' = TRUE
      /\ outBuf' = Cbw(Tag) /\ UNCHANGED <<issued, outcome, read, moved, setup, inTd>>
      /\ UNCHANGED <<pc, cur, i, ok, medium>>
      /\ Tag' = Tag /\ Latest' = Latest
  BY DEF SendCommand, Deliver, ledger, program, Tag, Latest
<1>2. /\ Tag > 0 /\ Latest \in Commands /\ outcome[Tag] = "open" /\ cur < Tag /\ moved = <<>>
      /\ setup \notin {"clearIn", "clearOut", "massStorageReset"}
  BY <1>1 DEF HostInv, SequencesTyped, Tag, Latest
<1>3. /\ phase' \in {"out", "in", "status"}
      /\ phase' = "out" => Latest.op \in Outputs /\ Latest.n > 0
      /\ phase' = "in" => Latest.op \notin Outputs
  BY <1>2 DEF SendCommand, DataPhase, Outputs
<1>4. ~InCallback /\ ~InCallback' /\ inTd.kind # "data"
  BY <1>1, <1>2 DEF ProgramInv, InInv, InCallback
<1>5. SequencesTyped' /\ MediumTyped' /\ ProgramTyped'
  BY <1>1 DEF SequencesTyped, MediumTyped, ProgramTyped
<1>6. HostInv'
  BY <1>1, <1>2, <1>3 DEF HostInv
<1>7. ArrivalInv'
  BY <1>1, <1>2, <1>3 DEF ArrivalInv, CommandWaits, Cbw
<1>8. ProgramInv' /\ OutInv'
  BY <1>4 DEF ProgramInv, OutInv, InCallback
<1>9. StatusInv'
  BY <1>1, <1>4 DEF StatusInv
<1>10. InInv' /\ ReadInv'
  BY <1>1, <1>2, <1>4 DEF InInv, ReadInv, InCallback
<1> QED
  BY <1>5, <1>6, <1>7, <1>8, <1>9, <1>10

LEMMA SendSectorInv ==
  ASSUME TransportInv, SendSector
  PROVE  TransportInv'
<1> USE DEF TransportInv
<1>1. /\ phase = "out" /\ outTd # "none" /\ outTd' = "none" /\ outDone' = TRUE
      /\ outBuf' = Data(<<Tag, Len(moved)>>) /\ moved' = Append(moved, <<Tag, Len(moved)>>)
      /\ UNCHANGED <<issued, outcome, read, setup, inTd, pc, cur, i, ok, medium>>
      /\ Tag' = Tag /\ Latest' = Latest /\ InCallback' = InCallback
  BY DEF SendSector, Deliver, ledger, program, Tag, Latest, InCallback
<1>2. /\ Tag \in Nat /\ Tag > 0 /\ Latest \in Commands /\ outcome[Tag] = "open"
      /\ Latest.op \in Outputs /\ Len(moved) < Latest.n
      /\ setup \notin {"clearIn", "clearOut", "massStorageReset"}
  BY <1>1 DEF HostInv, SequencesTyped, Tag, Latest
<1>3. /\ moved' \in Seq(Payloads) /\ Len(moved') = Len(moved) + 1 /\ Len(moved) \in Nat
  BY <1>1, <1>2 DEF SequencesTyped, Payloads
<1>4. phase' \in {"out", "status"} /\ (phase' = "out" => Len(moved') < Latest.n)
  <2>1. Latest.n \in Nat
    BY <1>2, CommandsAssumption
  <2> QED
    BY <1>2, <1>3, <2>1 DEF SendSector
<1>5. SequencesTyped' /\ MediumTyped' /\ ProgramTyped'
  BY <1>1, <1>3 DEF SequencesTyped, MediumTyped, ProgramTyped
<1>6. HostInv'
  BY <1>1, <1>2, <1>3, <1>4 DEF HostInv
<1>7. ~CommandWaits'
  BY <1>1 DEF CommandWaits, Data
<1>8. (~outDone /\ pc # "exec" /\ pc # "sendData") \/ ~InCallback
  BY <1>1, <1>2 DEF OutInv, ProgramInv, InCallback, Inputs, Outputs
<1>9. ArrivalInv' /\ ProgramInv'
  BY <1>1, <1>4, <1>7 DEF ArrivalInv, ProgramInv, InCallback
<1>10. OutInv'
  BY <1>1, <1>3, <1>8 DEF OutInv, InCallback
<1>11. StatusInv' /\ InInv'
  BY <1>1, <1>4 DEF StatusInv, InInv, InCallback
<1>12. ReadInv'
  BY <1>1, <1>2 DEF ReadInv, Outputs
<1> QED
  BY <1>5, <1>6, <1>9, <1>10, <1>11, <1>12

\* A reset, whatever is on EP1 IN: given up, or after a status that was not the expected.
LEMMA ResetInv ==
  ASSUME TransportInv, Reset, phase \notin {"idle", "reset"},
         inTd' = inTd \/ inTd' = Empty, UNCHANGED <<outTd, outBuf, outDone, program>>
  PROVE  TransportInv'
<1> USE DEF TransportInv
<1>1. /\ UNCHANGED <<issued, moved, outTd, outBuf, outDone, pc, cur, i, ok, medium>>
      /\ Tag' = Tag /\ Latest' = Latest /\ InCallback' = InCallback
      /\ phase' = "reset" /\ setup' = "massStorageReset"
      /\ outcome' = [outcome EXCEPT ![Tag] = "lost"]
  BY DEF Reset, EndAs, program, Tag, Latest, InCallback
<1>2. Tag > 0 /\ Tag \in Nat
  BY DEF HostInv, SequencesTyped, Tag
<1>3. /\ outcome' \in Seq({"open"} \cup Ended) /\ Len(outcome') = Tag /\ outcome'[Tag] = "lost"
  BY <1>1, <1>2 DEF SequencesTyped, Ended
<1>4. read' \in Seq(Seq(Payloads)) /\ Len(read') = Tag
  <2>1. read' = [read EXCEPT ![Tag] = <<>>]
    BY DEF Reset, EndAs
  <2> QED
    BY <2>1, <1>2 DEF SequencesTyped
<1>5. inTd'.kind = inTd.kind \/ inTd'.kind = "empty"
  BY DEF Empty
<1>6. SequencesTyped' /\ ProgramTyped'
  BY <1>1, <1>3, <1>4 DEF SequencesTyped, ProgramTyped
<1>7. MediumTyped'
  BY <1>1 DEF MediumTyped, Empty
<1>8. HostInv'
  BY <1>1, <1>2, <1>3 DEF HostInv
<1>9. ArrivalInv' /\ ProgramInv'
  BY <1>1 DEF ArrivalInv, ProgramInv, CommandWaits, InCallback
<1>10. StatusInv'
  BY <1>1 DEF StatusInv, Empty
<1>11. OutInv'
  BY <1>1 DEF OutInv
<1>12. InInv' /\ ReadInv'
  BY <1>1, <1>5 DEF InInv, ReadInv, Empty
<1> QED
  BY <1>6, <1>7, <1>8, <1>9, <1>10, <1>11, <1>12

LEMMA TakeDataInv ==
  ASSUME TransportInv, Fetch, TakeData
  PROVE  TransportInv'
<1> USE DEF TransportInv
<1>1. /\ phase = "in" /\ inTd # Empty /\ inTd' = Empty
      /\ UNCHANGED <<issued, outcome, read, setup, outTd, outBuf, outDone, pc, cur, i, ok, medium>>
      /\ Tag' = Tag /\ Latest' = Latest /\ InCallback' = InCallback
  BY DEF Fetch, TakeData, ledger, program, Tag, Latest, InCallback
<1>2. /\ Tag > 0 /\ Tag \in Nat /\ Latest \in Commands /\ outcome[Tag] = "open" /\ Len(moved) \in Nat
      /\ setup \notin {"clearIn", "clearOut", "massStorageReset"}
  BY <1>1 DEF HostInv, SequencesTyped, Tag, Latest
<1>3. inTd'.kind = "empty"
  BY <1>1 DEF Empty
<1>4. phase' \in {"in", "status"}
  BY DEF TakeData
<1>5. CASE inTd.kind = "data"
  <2>1. moved' = Append(moved, inTd.sector) /\ inTd.sector \in Payloads
    BY <1>5 DEF TakeData, MediumTyped
  <2>2. moved' \in Seq(Payloads) /\ Len(moved') = Len(moved) + 1
        /\ moved'[Len(moved) + 1] = inTd.sector /\ \A k \in 1..Len(moved) : moved'[k] = moved[k]
    BY <1>2, <2>1 DEF SequencesTyped
  <2>3. pc = "sendData" /\ InCallback /\ cur = Tag /\ Latest.op \in Inputs /\ Len(moved) = i
    BY <1>1, <1>5 DEF InInv, ProgramInv, InCallback
  <2>4. SequencesTyped' /\ MediumTyped' /\ ProgramTyped'
    BY <1>1, <1>3, <2>2 DEF SequencesTyped, MediumTyped, ProgramTyped
  <2>5. HostInv'
    BY <1>1, <1>2, <1>4 DEF HostInv
  <2>6. ~CommandWaits'
    BY <1>1, <1>2, <2>3 DEF ArrivalInv, CommandWaits
  <2>7. ArrivalInv' /\ ProgramInv' /\ StatusInv' /\ OutInv'
    BY <1>1, <1>3, <1>4, <2>3, <2>6 DEF ArrivalInv, ProgramInv, StatusInv, OutInv
  <2>8. InInv'
    BY <1>1, <1>3, <2>2, <2>3 DEF InInv
  <2>9. ReadInv'
    <3> SUFFICES ASSUME Latest.op = "read", NEW k \in 1..Len(moved')
                 PROVE  moved'[k] = medium[Latest.lba + k - 1]
      BY <1>1, <1>3 DEF ReadInv
    <3>1. CASE k \in 1..Len(moved)
      BY <1>2, <2>2, <3>1 DEF ReadInv
    <3>2. CASE k = Len(moved) + 1
      <4>1. moved'[k] = medium[Latest.lba + Len(moved)]
        BY <1>1, <1>2, <1>5, <2>2, <3>2 DEF ReadInv
      <4>2. Latest.lba \in Nat
        BY <1>2, CommandsAssumption
      <4>3. Latest.lba + k - 1 = Latest.lba + Len(moved)
        BY <1>2, <3>2, <4>2
      <4> QED
        BY <4>1, <4>3
    <3> QED
      BY <1>2, <2>2, <3>1, <3>2
  <2> QED
    BY <2>4, <2>5, <2>7, <2>8, <2>9
<1>6. CASE inTd.kind # "data"
  <2>1. moved' = moved /\ phase' = "status"
    BY <1>6 DEF TakeData
  <2>2. SequencesTyped' /\ MediumTyped' /\ ProgramTyped' /\ HostInv'
    BY <1>1, <1>2, <1>3, <2>1 DEF SequencesTyped, MediumTyped, ProgramTyped, HostInv
  <2>3. ArrivalInv' /\ ProgramInv'
    BY <1>1, <2>1 DEF ArrivalInv, ProgramInv, CommandWaits
  <2>4. StatusInv' /\ OutInv'
    BY <1>1, <1>3, <2>1 DEF StatusInv, OutInv
  <2>5. InInv' /\ ReadInv'
    BY <1>1, <1>3, <2>1 DEF InInv, ReadInv
  <2> QED
    BY <2>2, <2>3, <2>4, <2>5
<1> QED
  BY <1>5, <1>6

LEMMA TakeStatusInv ==
  ASSUME TransportInv, Fetch, TakeStatus
  PROVE  TransportInv'
<1> USE DEF TransportInv
<1>1. /\ phase = "status" /\ phase' = "idle" /\ inTd.kind = "status" /\ inTd.tag = Tag
      /\ inTd' = Empty
      /\ UNCHANGED <<issued, moved, setup, outTd, outBuf, outDone, pc, cur, i, ok, medium>>
      /\ Tag' = Tag /\ Latest' = Latest /\ InCallback' = InCallback
  BY DEF Fetch, TakeStatus, GoodStatus, EndAs, program, Tag, Latest, InCallback
<1>2. Tag > 0 /\ Tag \in Nat /\ setup \notin {"clearIn", "clearOut", "massStorageReset"}
  BY <1>1 DEF HostInv, SequencesTyped, Tag
<1>3. cur = Tag /\ ~InCallback /\ ~CommandWaits
  BY <1>1, <1>2 DEF StatusInv, ArrivalInv, ProgramTyped
<1>4. PICK o \in {"failed", "passed"} : EndAs(o)
  BY DEF TakeStatus
<1>5. outcome' \in Seq({"open"} \cup Ended) /\ Len(outcome') = Tag /\ outcome'[Tag] \in Ended
  BY <1>2, <1>4 DEF SequencesTyped, EndAs, Ended
<1>6. read' \in Seq(Seq(Payloads)) /\ Len(read') = Tag
  <2> DEFINE x == IF o = "passed" /\ Latest.op = "read" THEN moved ELSE <<>>
  <2>1. x \in Seq(Payloads)
    BY DEF SequencesTyped
  <2>2. read' = [read EXCEPT ![Tag] = x]
    BY <1>4 DEF EndAs
  <2> HIDE DEF x
  <2> QED
    BY <2>1, <2>2, <1>2 DEF SequencesTyped
<1>7. inTd'.kind = "empty" /\ pc \notin {"exec", "sendData", "receive"}
  BY <1>1, <1>3 DEF Empty, InCallback
<1>8. SequencesTyped' /\ MediumTyped' /\ ProgramTyped'
  BY <1>1, <1>5, <1>6, <1>7 DEF SequencesTyped, MediumTyped, ProgramTyped
<1>9. HostInv'
  BY <1>1, <1>2, <1>5 DEF HostInv
<1>10. ArrivalInv' /\ ProgramInv' /\ StatusInv'
  BY <1>1, <1>3, <1>7 DEF ArrivalInv, ProgramInv, StatusInv, CommandWaits
<1>11. OutInv' /\ InInv' /\ ReadInv'
  BY <1>1, <1>7 DEF OutInv, InInv, ReadInv
<1> QED
  BY <1>8, <1>9, <1>10, <1>11

LEMMA ClearHaltInv ==
  ASSUME TransportInv, ClearHalt
  PROVE  TransportInv'
<1> USE DEF TransportInv
<1>1. /\ UNCHANGED <<issued, outcome, read, phase, moved, inTd, outTd, outBuf, outDone>>
      /\ UNCHANGED <<pc, cur, i, ok, medium>>
      /\ Tag' = Tag /\ Latest' = Latest /\ phase = "halted" /\ setup' = "clearIn"
  BY DEF ClearHalt, ledger, wires, program, Tag, Latest
<1>2. SequencesTyped' /\ MediumTyped' /\ ProgramTyped'
  BY <1>1 DEF SequencesTyped, MediumTyped, ProgramTyped
<1>3. HostInv'
  BY <1>1 DEF HostInv
<1>4. ArrivalInv' /\ ProgramInv' /\ StatusInv'
  BY <1>1 DEF ArrivalInv, ProgramInv, StatusInv, CommandWaits, InCallback
<1>5. OutInv' /\ InInv' /\ ReadInv'
  BY <1>1 DEF OutInv, InInv, ReadInv
<1> QED
  BY <1>2, <1>3, <1>4, <1>5

-----------------------------------------------------------------------------
(* The program.                                                             *)

\* Steps of the program that leave the ledger, the host's data and its phase alone.
HostWaits == UNCHANGED <<issued, outcome, read, phase, moved, setup>>

LEMMA HostWaitsInv ==
  ASSUME SequencesTyped, HostInv, HostWaits, cur' = cur
  PROVE  SequencesTyped' /\ HostInv' /\ Tag' = Tag /\ Latest' = Latest
  BY DEF HostWaits, SequencesTyped, HostInv, Tag, Latest

LEMMA BeginInv ==
  ASSUME TransportInv, ServiceBulk, outBuf.kind = "command"
  PROVE  TransportInv'
<1> USE DEF TransportInv
<1>1. /\ pc = "loop" /\ outDone /\ outDone' = FALSE /\ CommandWaits /\ Begin(Tag)
      /\ UNCHANGED <<issued, outcome, read, moved, setup, inTd, outTd, outBuf, medium>>
      /\ Tag' = Tag /\ Latest' = Latest
  BY DEF ServiceBulk, ArrivalInv, CommandWaits, ledger, Tag, Latest
<1>2. /\ cur < Tag /\ phase \notin {"idle", "command"} /\ outTd = "none" /\ moved = <<>>
      /\ Tag \in Nat /\ Tag > 0 /\ Latest \in Commands /\ Latest.n \in Nat
  <2>1. cur < Tag /\ phase \notin {"idle", "command"} /\ outTd = "none" /\ moved = <<>>
    BY <1>1 DEF ArrivalInv
  <2>2. Tag \in Nat /\ Tag > 0 /\ Latest \in Commands
    BY <2>1 DEF SequencesTyped, ProgramTyped, Tag, Latest
  <2> QED
    BY <2>1, <2>2, CommandsAssumption
<1>3. /\ cur' = Tag /\ i' = 0 /\ ok' \in BOOLEAN /\ pc' = "exec"
      /\ phase' = phase \/ (phase = "in" /\ phase' = "halted")
      /\ ok' /\ Latest.op = "read" => Latest.lba + Latest.n <= Sectors
  BY <1>1 DEF Begin, InRange, Latest
<1>4. inTd.kind # "data" /\ ~(inTd.kind = "status" /\ inTd.tag = Tag)
  BY <1>1, <1>2 DEF InInv, StatusInv, ProgramTyped
<1>5. SequencesTyped' /\ MediumTyped' /\ ProgramTyped'
  BY <1>1, <1>2, <1>3 DEF SequencesTyped, MediumTyped, ProgramTyped
<1>6. HostInv'
  <2>1. CASE phase' = phase
    BY <1>1, <1>2, <1>3, <2>1 DEF HostInv
  <2>2. CASE phase = "in" /\ phase' = "halted"
    BY <1>1, <1>2, <1>3, <2>2 DEF HostInv
  <2> QED
    BY <1>3, <2>1, <2>2
<1>7. ArrivalInv' /\ ProgramInv' /\ StatusInv'
  BY <1>1, <1>2, <1>3, <1>4 DEF ArrivalInv, ProgramInv, StatusInv, CommandWaits, InCallback
<1>8. OutInv' /\ InInv' /\ ReadInv'
  BY <1>1, <1>2, <1>3, <1>4 DEF OutInv, InInv, ReadInv
<1> QED
  BY <1>5, <1>6, <1>7, <1>8

\* Steps outside the callback, or out of it: EP1 OUT may be armed again.
LEMMA LoopInv ==
  ASSUME TransportInv,
         \/ ServiceBulk /\ outBuf.kind # "command"
         \/ Rearm \/ StatusSent \/ CopyEnds
  PROVE  TransportInv'
<1> USE DEF TransportInv
<1>1. /\ HostWaits /\ UNCHANGED <<inTd, cur, i, ok, medium>>
      /\ pc \notin {"exec", "sendData", "receive"} /\ pc' \notin {"exec", "sendData", "receive"}
      /\ \/ UNCHANGED <<outTd, outBuf, outDone>>
         \/ UNCHANGED <<outTd, outBuf>> /\ outDone' = FALSE
         \/ outBuf' = Empty
  BY DEF ServiceBulk, Rearm, StatusSent, CopyEnds, ArmBulkOut, HostWaits, host, ledger, wires
<1>2. SequencesTyped' /\ HostInv' /\ Tag' = Tag /\ Latest' = Latest
  BY <1>1, HostWaitsInv
<1>3. MediumTyped' /\ ProgramTyped'
  BY <1>1, <1>2 DEF MediumTyped, ProgramTyped
<1>4. CommandWaits' => CommandWaits /\ UNCHANGED <<outTd, outBuf>>
  <2>1. CASE UNCHANGED <<outTd, outBuf, outDone>>
    BY <2>1 DEF CommandWaits
  <2>2. CASE outDone' = FALSE
    BY <2>2 DEF CommandWaits
  <2>3. CASE outBuf' = Empty
    BY <2>3 DEF CommandWaits, Empty
  <2> QED
    BY <1>1, <2>1, <2>2, <2>3
<1>5. ArrivalInv'
  BY <1>1, <1>2, <1>4 DEF ArrivalInv, HostWaits
<1>6. ProgramInv' /\ StatusInv'
  BY <1>1, <1>2 DEF ProgramInv, StatusInv, InCallback
<1>7. OutInv' /\ InInv' /\ ReadInv'
  BY <1>1, <1>2 DEF OutInv, InInv, ReadInv, HostWaits
<1> QED
  BY <1>2, <1>3, <1>5, <1>6, <1>7

\* The data and the status the program primes on EP1 IN.
LEMMA SendDataInv ==
  ASSUME TransportInv, SendData
  PROVE  TransportInv'
<1> USE DEF TransportInv
<1>1. /\ HostWaits /\ UNCHANGED <<cur, i, ok, medium, outTd, outBuf, outDone>>
      /\ pc = "exec" /\ pc' = "sendData" /\ i < Job.n /\ Job.op \in Inputs
      /\ inTd' = Data(IF Job.op = "read" THEN medium[Job.lba + i] ELSE Job.op)
      /\ Job.op = "read" => ok
  BY DEF SendData, Going, Sends, Primed, HostWaits, host, ledger, Inputs
<1>2. cur = Tag /\ Job = Latest /\ Tag > 0 /\ Tag \in Nat /\ Latest \in Commands
  BY <1>1 DEF ProgramInv, InCallback, Job, Latest, SequencesTyped, Tag
<1>3. SequencesTyped' /\ HostInv' /\ Tag' = Tag /\ Latest' = Latest
  BY <1>1, HostWaitsInv
<1>4. Latest.lba \in Nat /\ Latest.n \in Nat /\ Latest.op \in Ops /\ i \in Nat /\ Sectors \in Nat
  BY <1>2, CommandsAssumption, SizesAssumption DEF ProgramTyped
<1>5. inTd'.kind = "data" /\ inTd'.sector \in Payloads
      /\ (Latest.op = "read" => inTd'.sector = medium[Latest.lba + i])
  <2>1. CASE Job.op = "read"
    <3>1. ok /\ Latest.op = "read" /\ inTd' = Data(medium[Latest.lba + i])
      BY <1>1, <1>2, <2>1
    <3>2. Latest.lba + Latest.n <= Sectors
      BY <1>1, <3>1 DEF ProgramInv, InCallback
    <3>3. Latest.lba + i \in 0..Sectors - 1
      BY <1>1, <1>2, <1>4, <3>2
    <3>4. medium[Latest.lba + i] \in Payloads
      BY <3>3 DEF MediumTyped, Payloads
    <3> QED
      BY <3>1, <3>4 DEF Data
  <2>2. CASE Job.op # "read"
    BY <1>1, <1>2, <1>4, <2>2 DEF Data, Payloads
  <2> QED
    BY <2>1, <2>2
<1>6. MediumTyped' /\ ProgramTyped'
  BY <1>1, <1>3, <1>5 DEF MediumTyped, ProgramTyped
<1>7. ArrivalInv' /\ ProgramInv' /\ StatusInv'
  BY <1>1, <1>2, <1>3, <1>5 DEF ArrivalInv, CommandWaits, ProgramInv, StatusInv, InCallback, HostWaits
<1>8. OutInv' /\ InInv'
  BY <1>1, <1>2, <1>3, <1>5 DEF OutInv, InInv, HostWaits
<1>9. ReadInv'
  BY <1>1, <1>2, <1>3, <1>5 DEF ReadInv, InInv, HostWaits
<1> QED
  BY <1>3, <1>6, <1>7, <1>8, <1>9

\* A status that tells a write has passed comes after its last sector.
LEMMA SendStatusInv ==
  ASSUME TransportInv, SendStatus
  PROVE  TransportInv'
<1> USE DEF TransportInv
<1>1. /\ HostWaits /\ UNCHANGED <<cur, i, ok, medium, outTd, outBuf, outDone>>
      /\ pc = "exec" /\ pc' = "sendStatus" /\ inTd' = Csw(cur, ok)
      /\ ~(i < Job.n /\ Job.op = "write" /\ ok)
  BY DEF SendStatus, Going, Receives, Primed, HostWaits, host, ledger
<1>2. cur = Tag /\ Job = Latest /\ Tag > 0 /\ Tag \in Nat /\ Latest \in Commands /\ i <= Latest.n
  BY <1>1 DEF ProgramInv, InCallback, Job, Latest, SequencesTyped, Tag
<1>3. SequencesTyped' /\ HostInv' /\ Tag' = Tag /\ Latest' = Latest
  BY <1>1, HostWaitsInv
<1>4. /\ inTd'.kind = "status" /\ inTd'.tag = Tag
      /\ inTd'.passed /\ Latest.op = "write" => i = Latest.n
  <2>1. Latest.n \in Nat /\ i \in Nat
    BY <1>2, CommandsAssumption DEF ProgramTyped
  <2>2. inTd'.kind = "status" /\ inTd'.tag = Tag /\ inTd'.passed = ok
    BY <1>1, <1>2 DEF Csw
  <2> QED
    BY <1>1, <1>2, <2>1, <2>2
<1>5. MediumTyped' /\ ProgramTyped'
  BY <1>1, <1>3, <1>4 DEF MediumTyped, ProgramTyped
<1>6. ArrivalInv' /\ ProgramInv'
  BY <1>1, <1>3 DEF ArrivalInv, CommandWaits, ProgramInv, InCallback, HostWaits
<1>7. StatusInv'
  BY <1>1, <1>2, <1>3, <1>4 DEF StatusInv, InCallback
<1>8. OutInv' /\ InInv' /\ ReadInv'
  BY <1>1, <1>3, <1>4 DEF OutInv, InInv, ReadInv, HostWaits
<1> QED
  BY <1>3, <1>5, <1>6, <1>7, <1>8

LEMMA DataSentInv ==
  ASSUME TransportInv, DataSent
  PROVE  TransportInv'
<1> USE DEF TransportInv
<1>1. /\ HostWaits /\ UNCHANGED <<cur, medium, inTd, outTd, outBuf, outDone>>
      /\ pc = "sendData" /\ pc' = "exec"
      /\ \/ inTd = Empty /\ i' = i + 1 /\ ok' = ok
         \/ phase \notin {"in", "status"} /\ i' = i /\ ok' = FALSE
  BY DEF DataSent, Reading, HostWaits, host, ledger, wires
<1>2. /\ cur = Tag /\ Tag > 0 /\ Tag \in Nat /\ Latest \in Commands /\ i < Latest.n
      /\ Latest.op \in Inputs /\ i \in Nat /\ Latest.n \in Nat
  <2>1. cur = Tag /\ Tag > 0 /\ Tag \in Nat /\ Latest \in Commands
        /\ i < Latest.n /\ Latest.op \in Inputs
    BY <1>1 DEF ProgramInv, InCallback, Latest, SequencesTyped, Tag
  <2> QED
    BY <2>1, CommandsAssumption DEF ProgramTyped
<1>3. SequencesTyped' /\ HostInv' /\ Tag' = Tag /\ Latest' = Latest
  BY <1>1, HostWaitsInv
<1>4. i' \in Nat /\ i' <= Latest.n /\ ok' \in BOOLEAN /\ (ok' => ok)
  <2>1. CASE i' = i + 1 /\ ok' = ok
    BY <1>2, <2>1 DEF ProgramTyped
  <2>2. CASE i' = i /\ ok' = FALSE
    <3>1. i' \in Nat /\ i' <= Latest.n
      BY <1>2, <2>2
    <3>2. ok' \in BOOLEAN /\ (ok' => ok)
      BY <2>2, Zenon
    <3> QED
      BY <3>1, <3>2
  <2> QED
    BY <1>1, <2>1, <2>2
<1>5. MediumTyped' /\ ProgramTyped'
  BY <1>1, <1>3, <1>4 DEF MediumTyped, ProgramTyped
<1>6. ArrivalInv' /\ ProgramInv'
  BY <1>1, <1>2, <1>3, <1>4 DEF ArrivalInv, CommandWaits, ProgramInv, InCallback, HostWaits
<1>7. StatusInv'
  BY <1>1, <1>2, <1>3 DEF StatusInv, InCallback
<1>8. phase # "out"
  BY <1>2 DEF HostInv, Inputs, Outputs
<1>9. OutInv' /\ ReadInv'
  BY <1>1, <1>3, <1>8 DEF OutInv, ReadInv, HostWaits
<1>10. InInv'
  BY <1>1, <1>2, <1>3 DEF InInv, HostWaits, Empty
<1> QED
  BY <1>3, <1>5, <1>6, <1>7, <1>9, <1>10
-----------------------------------------------------------------------------
(* The data the host sends.                                                 *)

LEMMA ReceiveInv ==
  ASSUME TransportInv, Receive
  PROVE  TransportInv'
<1> USE DEF TransportInv
<1>1. /\ HostWaits /\ UNCHANGED <<inTd, cur, i, ok, medium, outDone>>
      /\ pc = "exec" /\ pc' = "receive" /\ i < Job.n /\ Job.op \in Outputs
      /\ outBuf' = Empty
  BY DEF Receive, Going, Receives, HostWaits, host, ledger, Outputs
<1>2. cur = Tag /\ Job = Latest /\ Tag > 0
  BY <1>1 DEF ProgramInv, InCallback, Job, Latest
<1>3. SequencesTyped' /\ HostInv' /\ Tag' = Tag /\ Latest' = Latest
  BY <1>1, HostWaitsInv
<1>4. ~outDone /\ ~outDone'
  BY <1>1 DEF OutInv
<1>5. MediumTyped' /\ ProgramTyped'
  BY <1>1, <1>3 DEF MediumTyped, ProgramTyped
<1>6. ArrivalInv'
  BY <1>4 DEF ArrivalInv, CommandWaits
<1>7. ProgramInv' /\ StatusInv'
  BY <1>1, <1>2, <1>3 DEF ProgramInv, StatusInv, InCallback, HostWaits
<1>8. OutInv'
  BY <1>1, <1>3, <1>4 DEF OutInv, HostWaits
<1>9. phase # "in" /\ inTd.kind # "data"
  BY <1>1, <1>2 DEF InInv, Inputs, Outputs, HostInv
<1>10. InInv' /\ ReadInv'
  BY <1>1, <1>3, <1>9 DEF InInv, ReadInv, HostWaits
<1> QED
  BY <1>3, <1>5, <1>6, <1>7, <1>8, <1>10
LEMMA ReceivedInv ==
  ASSUME TransportInv, Received
  PROVE  TransportInv'
<1> USE DEF TransportInv
<1>1. /\ HostWaits /\ UNCHANGED <<inTd, outTd, outBuf, cur, ok>>
      /\ pc = "receive" /\ pc' = "exec" /\ outDone /\ outDone' = FALSE /\ i' = i + 1
      /\ \/ Job.op = "write" /\ medium' = [medium EXCEPT ![Job.lba + i] = outBuf.sector]
         \/ Job.op # "write" /\ medium' = medium
  BY DEF Received, HostWaits, host, ledger
<1>2. /\ cur = Tag /\ Job = Latest /\ Tag > 0 /\ Tag \in Nat /\ Latest \in Commands
      /\ i < Latest.n /\ Latest.op \in Outputs /\ i \in Nat /\ Latest.n \in Nat /\ Latest.lba \in Nat
  <2>1. cur = Tag /\ Job = Latest /\ Tag > 0 /\ Tag \in Nat /\ Latest \in Commands
        /\ i < Latest.n /\ Latest.op \in Outputs
    BY <1>1 DEF ProgramInv, InCallback, Job, Latest, SequencesTyped, Tag
  <2> QED
    BY <2>1, CommandsAssumption DEF ProgramTyped
<1>3. SequencesTyped' /\ HostInv' /\ Tag' = Tag /\ Latest' = Latest
  BY <1>1, HostWaitsInv
<1>4. outBuf = Data(<<Tag, i>>) /\ outTd = "none" /\ phase # "in"
  BY <1>1, <1>2 DEF OutInv, HostInv
<1>5. medium' \in [0..Sectors - 1 -> Nat \X Nat]
  BY <1>1, <1>2, <1>4 DEF MediumTyped, Data
<1>6. MediumTyped'
  BY <1>1, <1>5 DEF MediumTyped
<1>7. ProgramTyped'
  BY <1>1, <1>2, <1>3 DEF ProgramTyped
<1>8. ArrivalInv'
  BY <1>1 DEF ArrivalInv, CommandWaits
<1>9. ProgramInv'
  <2>1. i' <= Latest.n
    BY <1>1, <1>2
  <2>2. Latest.op # "read"
    BY <1>2 DEF Outputs
  <2> QED
    BY <1>1, <1>2, <1>3, <2>1, <2>2 DEF ProgramInv, InCallback, HostWaits
<1>10. StatusInv'
  BY <1>1, <1>2, <1>3 DEF StatusInv, InCallback
<1>11. OutInv'
  BY <1>1, <1>3, <1>4 DEF OutInv, HostWaits
<1>12. InInv'
  BY <1>1, <1>3, <1>4 DEF InInv, HostWaits
<1>13. ReadInv'
  BY <1>2, <1>3 DEF ReadInv, Outputs
<1> QED
  BY <1>3, <1>6, <1>7, <1>8, <1>9, <1>10, <1>11, <1>12, <1>13

LEMMA ReceiveTimeoutInv ==
  ASSUME TransportInv, ReceiveTimeout
  PROVE  TransportInv'
<1> USE DEF TransportInv
<1>1. /\ HostWaits /\ UNCHANGED <<inTd, outTd, outBuf, outDone, cur, medium>>
      /\ pc = "receive" /\ pc' = "exec" /\ ~outDone /\ phase # "out"
      /\ \/ i' = i + 1 /\ ok' = ok
         \/ i' = i /\ ok' = FALSE
  BY DEF ReceiveTimeout, HostWaits, host, ledger, wires
<1>2. /\ cur = Tag /\ Tag > 0 /\ Tag \in Nat /\ Latest \in Commands
      /\ i < Latest.n /\ Latest.op \in Outputs /\ i \in Nat /\ Latest.n \in Nat
  <2>1. cur = Tag /\ Tag > 0 /\ Tag \in Nat /\ Latest \in Commands
        /\ i < Latest.n /\ Latest.op \in Outputs
    BY <1>1 DEF ProgramInv, InCallback, Latest, SequencesTyped, Tag
  <2> QED
    BY <2>1, CommandsAssumption DEF ProgramTyped
<1>3. SequencesTyped' /\ HostInv' /\ Tag' = Tag /\ Latest' = Latest
  BY <1>1, HostWaitsInv
<1>4. i' \in Nat /\ i' <= Latest.n
  BY <1>1, <1>2
<1>5. ok' \in BOOLEAN
  BY <1>1 DEF ProgramTyped
<1>6. MediumTyped' /\ ProgramTyped'
  BY <1>1, <1>3, <1>4, <1>5 DEF MediumTyped, ProgramTyped
<1>7. phase # "in" /\ Latest.op # "read"
  BY <1>2 DEF HostInv, Outputs
<1>8. ArrivalInv'
  BY <1>1 DEF ArrivalInv, CommandWaits
<1>9. ProgramInv'
  BY <1>1, <1>2, <1>3, <1>4, <1>7 DEF ProgramInv, InCallback, HostWaits
<1>10. StatusInv'
  BY <1>1, <1>2, <1>3 DEF StatusInv, InCallback
<1>11. OutInv'
  BY <1>1, <1>3 DEF OutInv, HostWaits
<1>12. InInv' /\ ReadInv'
  BY <1>1, <1>3, <1>7 DEF InInv, ReadInv, HostWaits
<1> QED
  BY <1>3, <1>6, <1>8, <1>9, <1>10, <1>11, <1>12

-----------------------------------------------------------------------------
(* The control requests, served by the loop.                                *)

LEMMA ControlInv ==
  ASSUME TransportInv, ServiceControl \/ MassStorageReset
  PROVE  TransportInv'
<1> USE DEF TransportInv
<1>1. /\ UNCHANGED <<issued, outcome, read, moved, inTd, cur, i, ok, medium>>
      /\ pc = "loop" /\ pc' = "loop"
      /\ UNCHANGED <<outTd, outBuf>> \/ outBuf' = Empty
      /\ outDone' = outDone
      /\ Tag' = Tag /\ Latest' = Latest
  <2>1. CASE MassStorageReset
    BY <2>1 DEF MassStorageReset, ledger, program, Tag, Latest
  <2>2. CASE ServiceControl
    BY <2>2 DEF ServiceControl, ArmBulkOut, ledger, program, Tag, Latest
  <2> QED
    BY <2>1, <2>2
<1>2. /\ setup' \in {"none", "clearIn", "clearOut"}
      /\ setup' = "clearIn" => phase = "reset" /\ phase' = "reset"
      /\ setup' = "clearOut" => phase = "reset" /\ phase' = "reset"
      /\ \/ phase' = phase
         \/ phase = "halted" /\ phase' = "status"
         \/ phase = "reset" /\ phase' = "idle" /\ outBuf' = Empty
  <2>1. CASE MassStorageReset
    BY <2>1 DEF MassStorageReset, HostInv
  <2>2. CASE ServiceControl
    BY <2>2 DEF ServiceControl, ArmBulkOut, HostInv
  <2> QED
    BY <2>1, <2>2
<1>3. SequencesTyped' /\ ProgramTyped'
  BY <1>1 DEF SequencesTyped, ProgramTyped
<1>4. MediumTyped'
  BY <1>1 DEF MediumTyped
<1>5. HostInv'
  <2>1. CASE phase' = phase
    BY <1>1, <1>2, <2>1 DEF HostInv
  <2>2. CASE phase = "halted" /\ phase' = "status"
    BY <1>1, <1>2, <2>2 DEF HostInv
  <2>3. CASE phase = "reset" /\ phase' = "idle"
    BY <1>1, <1>2, <2>3 DEF HostInv, Ended
  <2> QED
    BY <1>2, <2>1, <2>2, <2>3
<1>6. ArrivalInv'
  <2>1. CASE UNCHANGED <<outTd, outBuf>> /\ phase' # "idle"
    BY <1>1, <1>2, <2>1 DEF ArrivalInv, CommandWaits
  <2>2. CASE outBuf' = Empty
    BY <2>2 DEF ArrivalInv, CommandWaits, Empty
  <2>3. CASE UNCHANGED <<outTd, outBuf>> /\ phase' = phase
    BY <1>1, <2>3 DEF ArrivalInv, CommandWaits
  <2> QED
    BY <1>1, <1>2, <2>1, <2>2, <2>3
<1>7. ProgramInv' /\ OutInv'
  BY <1>1 DEF ProgramInv, OutInv, InCallback
<1>8. StatusInv'
  BY <1>1 DEF StatusInv, InCallback
<1>9. InInv' /\ ReadInv'
  BY <1>1, <1>2 DEF InInv, ReadInv
<1> QED
  BY <1>3, <1>4, <1>5, <1>6, <1>7, <1>8, <1>9
-----------------------------------------------------------------------------
(* The invariant holds, and every step is one of BulkOnly or changes nothing *)
(* that BulkOnly knows.                                                      *)

LEMMA StepInv ==
  ASSUME TransportInv, [Next]_vars
  PROVE  TransportInv'
<1>1. CASE UNCHANGED vars
  <2>1. /\ UNCHANGED <<issued, outcome, read, phase, moved, setup, inTd, outTd, outBuf, outDone>>
        /\ UNCHANGED <<pc, cur, i, ok, medium>> /\ Tag' = Tag /\ Latest' = Latest
        /\ InCallback' = InCallback /\ CommandWaits' = CommandWaits
    BY <1>1 DEF vars, host, ledger, wires, program, Tag, Latest, InCallback, CommandWaits
  <2>2. SequencesTyped' /\ MediumTyped' /\ ProgramTyped' /\ HostInv'
    BY <2>1 DEF TransportInv, SequencesTyped, MediumTyped, ProgramTyped, HostInv
  <2>3. ArrivalInv' /\ ProgramInv' /\ StatusInv'
    BY <2>1 DEF TransportInv, ArrivalInv, ProgramInv, StatusInv
  <2>4. OutInv' /\ InInv' /\ ReadInv'
    BY <2>1 DEF TransportInv, OutInv, InInv, ReadInv
  <2> QED
    BY <2>2, <2>3, <2>4 DEF TransportInv
<1>2. CASE \E c \in Commands : Issue(c)
  BY <1>2, IssueInv
<1>3. CASE GiveUp
  BY <1>3, ResetInv DEF GiveUp, wires
<1>4. CASE Fetch
  <2>1. CASE TakeData
    BY <1>4, <2>1, TakeDataInv
  <2>2. CASE TakeStatus
    BY <1>4, <2>2, TakeStatusInv
  <2>3. CASE RejectStatus
    BY <1>4, <2>3, ResetInv DEF RejectStatus, Fetch
  <2> QED
    BY <1>4, <2>1, <2>2, <2>3 DEF Fetch
<1>5. CASE SendCommand \/ SendSector \/ ClearHalt
  BY <1>5, SendCommandInv, SendSectorInv, ClearHaltInv
<1>6. CASE ServiceBulk
  BY <1>6, BeginInv, LoopInv
<1>7. CASE Rearm \/ StatusSent \/ CopyEnds
  BY <1>7, LoopInv
<1>8. CASE SendData \/ SendStatus \/ DataSent
  BY <1>8, SendDataInv, SendStatusInv, DataSentInv
<1>9. CASE Receive \/ Received \/ ReceiveTimeout
  BY <1>9, ReceiveInv, ReceivedInv, ReceiveTimeoutInv
<1>10. CASE ServiceControl \/ MassStorageReset
  BY <1>10, ControlInv
<1> QED
  BY <1>1, <1>2, <1>3, <1>4, <1>5, <1>6, <1>7, <1>8, <1>9, <1>10 DEF Next, HostMoves, Runs

\* The sectors of the latest write that are on the medium: the refinement mapping.
done == IF Tag > 0 /\ cur = Tag /\ Latest.op = "write" THEN i ELSE 0

LEMMA MapsLatest == Promise!Latest = Latest
  BY DEF Promise!Latest, Latest, Tag

LEMMA InitMaps == Init => Promise!Init
  BY DEF Init, Promise!Init, Tag

\* A step that leaves the ledger and the count of the latest write alone stutters.
Stutters == UNCHANGED <<issued, outcome, read, medium>> /\ UNCHANGED done

LEMMA StutterMaps ==
  ASSUME Stutters
  PROVE  UNCHANGED Promise!abstract
  BY DEF Stutters, done, Promise!abstract

LEMMA IssueMaps ==
  ASSUME TransportInv, NEW c \in Commands, Issue(c)
  PROVE  Promise!Issue(c)
<1>1. Tag \in Nat /\ Tag' = Tag + 1 /\ phase = "idle" /\ cur' = cur /\ cur \in 0..Tag
  BY DEF TransportInv, SequencesTyped, ProgramTyped, Issue, Tag, program
<1>2. issued # <<>> => outcome[Tag] # "open"
  BY <1>1 DEF TransportInv, HostInv, Ended, Tag, SequencesTyped
<1>3. cur' # Tag'
  BY <1>1
<1> QED
  BY <1>1, <1>2, <1>3 DEF Issue, Promise!Issue, Tag, program
\* A sector of the latest write reaches the medium.
LEMMA ReceivedMaps ==
  ASSUME TransportInv, Received
  PROVE  Promise!Store \/ Stutters
<1>1. /\ UNCHANGED <<issued, outcome, read, phase, cur>> /\ pc = "receive" /\ outDone /\ i' = i + 1
      /\ Tag' = Tag /\ Latest' = Latest
  BY DEF Received, host, ledger, Tag, Latest
<1>2. /\ cur = Tag /\ Job = Latest /\ Tag > 0 /\ Latest \in Commands
      /\ i < Latest.n /\ phase \notin {"idle", "command"}
  BY <1>1 DEF TransportInv, ProgramInv, InCallback, Job, Latest, SequencesTyped, Tag
<1>3. CASE Latest.op = "write"
  <2>1. medium' = [medium EXCEPT ![Latest.lba + i] = <<Tag, i>>]
    BY <1>1, <1>2, <1>3 DEF Received, TransportInv, OutInv, Data
  <2>2. done = i /\ done' = i + 1
    BY <1>1, <1>2, <1>3 DEF done
  <2>3. issued # <<>> /\ Promise!InRange(Latest)
    BY <1>2, <1>3, CommandsAssumption DEF Promise!InRange, Tag
  <2>4. outcome[Tag] \in {"open", "lost"}
    BY <1>2 DEF TransportInv, HostInv
  <2>5. Promise!Store
    BY <1>1, <1>2, <1>3, <2>1, <2>2, <2>3, <2>4, MapsLatest DEF Promise!Store, Tag, done
  <2> QED
    BY <2>5
<1>4. CASE Latest.op # "write"
  BY <1>1, <1>2, <1>4 DEF Received, Stutters, done
<1> QED
  BY <1>3, <1>4

\* A command that is given up, or whose status is not the one expected, is lost.
LEMMA ResetMaps ==
  ASSUME TransportInv, Reset, phase \notin {"idle", "reset"}, UNCHANGED program
  PROVE  Promise!End("lost")
<1>1. Tag > 0 /\ Tag \in Nat /\ outcome[Tag] = "open"
  BY DEF TransportInv, HostInv, SequencesTyped, Tag
<1>2. /\ outcome' = [outcome EXCEPT ![Tag] = "lost"] /\ read' = [read EXCEPT ![Tag] = <<>>]
      /\ UNCHANGED <<issued, medium, cur, i>>
  BY DEF Reset, EndAs, program
<1>3. UNCHANGED done
  BY <1>2 DEF done, Tag, Latest
<1> QED
  BY <1>1, <1>2, <1>3 DEF Promise!End, Tag, done
\* What passes was done in full: the sectors read are what the medium holds, and
\* the sectors written are all on it.
LEMMA TakeStatusMaps ==
  ASSUME TransportInv, Fetch, TakeStatus
  PROVE  Promise!End("passed") \/ Promise!End("failed")
<1>1. /\ phase = "status" /\ inTd.kind = "status" /\ inTd.tag = Tag
      /\ UNCHANGED <<issued, cur, i, medium>>
  BY DEF Fetch, TakeStatus, GoodStatus, EndAs, program
<1>2. Tag > 0 /\ Tag \in Nat /\ outcome[Tag] = "open" /\ Latest \in Commands /\ issued # <<>>
  BY <1>1 DEF TransportInv, HostInv, SequencesTyped, Tag, Latest
<1>3. cur = Tag /\ (inTd.passed /\ Latest.op = "write" => i = Latest.n)
  BY <1>1 DEF TransportInv, StatusInv
<1>4. UNCHANGED done
  BY <1>1 DEF done, Tag, Latest
<1> DEFINE failed == ~inTd.passed \/ (Latest.op = "read" /\ Len(moved) # Latest.n)
<1>5. CASE failed
  <2>1. EndAs("failed")
    BY <1>5 DEF TakeStatus
  <2>2. outcome' = [outcome EXCEPT ![Tag] = "failed"] /\ read' = [read EXCEPT ![Tag] = <<>>]
    BY <2>1 DEF EndAs
  <2> QED
    BY <1>1, <1>2, <1>4, <2>2 DEF Promise!End, Tag, done
<1>6. CASE ~failed
  <2> DEFINE got == IF Latest.op = "read" THEN moved ELSE <<>>
  <2>1. EndAs("passed")
    BY <1>6 DEF TakeStatus
  <2>2. outcome' = [outcome EXCEPT ![Tag] = "passed"] /\ read' = [read EXCEPT ![Tag] = got]
    BY <2>1 DEF EndAs
  <2>3. Latest.op = "write" => done = Latest.n
    BY <1>2, <1>3, <1>6 DEF done
  <2>4. Latest.op = "read" => moved = Promise!Extent(Latest, medium)
    <3> SUFFICES ASSUME Latest.op = "read" PROVE moved = Promise!Extent(Latest, medium)
      OBVIOUS
    <3>1. Len(moved) = Latest.n /\ moved \in Seq(Payloads)
      BY <1>6 DEF TransportInv, SequencesTyped
    <3>2. moved = [k \in 1..Latest.n |-> moved[k]]
      BY <3>1
    <3>3. \A k \in 1..Latest.n : moved[k] = medium[Latest.lba + k - 1]
      BY <1>2, <3>1 DEF TransportInv, ReadInv
    <3> QED
      BY <3>2, <3>3 DEF Promise!Extent
  <2>5. got = IF Latest.op = "read" THEN Promise!Extent(Latest, medium) ELSE <<>>
    BY <2>4
  <2> HIDE DEF got
  <2>6. Promise!End("passed")
    BY <1>1, <1>2, <1>4, <2>2, <2>3, <2>5, MapsLatest DEF Promise!End, Tag, done
  <2> QED
    BY <2>6
<1> QED
  BY <1>5, <1>6

\* No other step is seen: a command that is begun had no sector stored, and a
\* count that moves without a sector is not a write's.
LEMMA OthersStutter ==
  ASSUME TransportInv,
         \/ SendCommand \/ SendSector \/ ClearHalt \/ (Fetch /\ TakeData)
         \/ ServiceBulk \/ Rearm \/ SendData \/ SendStatus \/ DataSent \/ StatusSent
         \/ Receive \/ ReceiveTimeout \/ CopyEnds \/ ServiceControl \/ MassStorageReset
         \/ UNCHANGED vars
  PROVE  Stutters
<1>1. UNCHANGED <<issued, outcome, read, medium>> /\ Tag' = Tag /\ Latest' = Latest
  <2>1. CASE SendCommand \/ SendSector \/ ClearHalt \/ (Fetch /\ TakeData)
    BY <2>1 DEF SendCommand, SendSector, ClearHalt, Fetch, TakeData, Deliver, ledger, program, Tag, Latest
  <2>2. CASE ServiceBulk \/ Rearm \/ SendData \/ SendStatus
    BY <2>2 DEF ServiceBulk, Rearm, SendData, SendStatus, host, ledger, Tag, Latest
  <2>3. CASE DataSent \/ StatusSent \/ Receive \/ ReceiveTimeout
    BY <2>3 DEF DataSent, StatusSent, Receive, ReceiveTimeout, host, ledger, Tag, Latest
  <2>4. CASE CopyEnds \/ ServiceControl \/ MassStorageReset
    BY <2>4 DEF CopyEnds, ServiceControl, MassStorageReset, host, ledger, program, Tag, Latest
  <2>5. CASE UNCHANGED vars
    BY <2>5 DEF vars, host, ledger, program, Tag, Latest
  <2> QED
    BY <2>1, <2>2, <2>3, <2>4, <2>5
<1>2. UNCHANGED done
  <2>1. CASE UNCHANGED <<cur, i>>
    BY <1>1, <2>1 DEF done
  <2>2. CASE ServiceBulk /\ outBuf.kind = "command"
    <3>1. cur < Tag /\ cur' = Tag /\ i' = 0
      BY <2>2 DEF ServiceBulk, Begin, TransportInv, ArrivalInv, CommandWaits
    <3> QED
      BY <1>1, <3>1 DEF done, TransportInv, ProgramTyped
  <2>3. CASE DataSent
    <3>1. Latest.op # "write" /\ UNCHANGED cur
      BY <2>3 DEF DataSent, TransportInv, ProgramInv, Inputs
    <3> QED
      BY <1>1, <3>1 DEF done
  <2>4. CASE ReceiveTimeout
    <3>1. UNCHANGED cur /\ (Latest.op = "write" => UNCHANGED i)
      BY <2>4 DEF ReceiveTimeout, TransportInv, ProgramInv, InCallback, Job, Latest
    <3> QED
      BY <1>1, <3>1 DEF done
  <2>5. \/ UNCHANGED <<cur, i>> \/ (ServiceBulk /\ outBuf.kind = "command")
        \/ DataSent \/ ReceiveTimeout
    <3>1. CASE SendCommand \/ SendSector \/ ClearHalt \/ (Fetch /\ TakeData)
      BY <3>1 DEF SendCommand, SendSector, ClearHalt, Fetch, Deliver, program
    <3>2. CASE ServiceBulk \/ Rearm \/ SendData \/ SendStatus
      BY <3>2 DEF ServiceBulk, Rearm, SendData, SendStatus
    <3>3. CASE StatusSent \/ Receive \/ CopyEnds \/ ServiceControl \/ MassStorageReset
      BY <3>3 DEF StatusSent, Receive, CopyEnds, ServiceControl, MassStorageReset, program
    <3>4. CASE UNCHANGED vars
      BY <3>4 DEF vars, program
    <3> QED
      BY <3>1, <3>2, <3>3, <3>4
  <2> QED
    BY <2>1, <2>2, <2>3, <2>4, <2>5
<1> QED
  BY <1>1, <1>2 DEF Stutters

LEMMA StepMaps ==
  ASSUME TransportInv, [Next]_vars
  PROVE  [Promise!Next]_(Promise!abstract)
<1>1. CASE \E c \in Commands : Issue(c)
  BY <1>1, IssueMaps DEF Promise!Next
<1>2. CASE GiveUp
  BY <1>2, ResetMaps DEF GiveUp, Promise!Next
<1>3. CASE Fetch /\ RejectStatus
  <2>1. Promise!End("lost")
    BY <1>3, ResetMaps DEF Fetch, RejectStatus
  <2> QED
    BY <2>1 DEF Promise!Next
<1>4. CASE Fetch /\ TakeStatus
  BY <1>4, TakeStatusMaps DEF Promise!Next
<1>5. CASE Received
  BY <1>5, ReceivedMaps, StutterMaps DEF Promise!Next
<1>6. CASE \/ SendCommand \/ SendSector \/ ClearHalt \/ (Fetch /\ TakeData)
          \/ ServiceBulk \/ Rearm \/ SendData \/ SendStatus \/ DataSent \/ StatusSent
          \/ Receive \/ ReceiveTimeout \/ CopyEnds \/ ServiceControl \/ MassStorageReset
          \/ UNCHANGED vars
  BY <1>6, OthersStutter, StutterMaps
<1>7. CASE Fetch
  BY <1>3, <1>4, <1>6, <1>7 DEF Fetch
<1> QED
  BY <1>1, <1>2, <1>5, <1>6, <1>7 DEF Next, HostMoves, Runs

(* Whatever is refused, times out, is given up or meets a stale status, and  *)
(* for every set of commands and any number of resets, no command passes     *)
(* that was not done in full, and the medium changes only by the sectors of  *)
(* the latest write, in order (msc_transport_handle_bulk_out and the sends   *)
(* and receives below it).                                                   *)
THEOREM ImplementsBulkOnly == Spec => KeepsPromise
<1>1. Init => TransportInv
  BY InitInv
<1>2. TransportInv /\ [Next]_vars => TransportInv'
  BY StepInv
<1>3. Init => Promise!Init
  BY InitMaps
<1>4. TransportInv /\ [Next]_vars => [Promise!Next]_(Promise!abstract)
  BY StepMaps
<1> QED
  BY <1>1, <1>2, <1>3, <1>4, PTL DEF Spec, KeepsPromise, Promise!Spec

-----------------------------------------------------------------------------
(* Why a command failed, and how the two stay in step: what holds on top of  *)
(* the invariant above.                                                     *)

Open == phase \notin {"idle", "reset"}
Phases == {"idle", "command", "out", "in", "status", "halted", "reset"}
PhaseInv ==
  /\ phase \in Phases
  /\ phase = "halted" => Latest.op = "unknownIn"
  /\ phase = "in" => Len(moved) < Latest.n /\ Latest.op \in Inputs \cup {"unknownIn"}
  /\ phase = "status" /\ Latest.op \in Outputs => Len(moved) = Latest.n

\* A read whose data phase ended early is not over in the program, or has failed.
ShortReadInv ==
  phase = "status" /\ Latest.op = "read" /\ Len(moved) # Latest.n =>
    /\ InCallback /\ ok => i < Latest.n /\ (pc = "sendData" => inTd.kind = "data")
    /\ inTd.kind = "status" /\ inTd.tag = Tag => ~inTd.passed

\* A wait for a sector that the host has sent does not expire.
AllReceivedInv ==
  phase = "status" /\ Latest.op = "write" /\ ok =>
    /\ pc = "exec" => i = Latest.n
    /\ pc = "receive" => outDone /\ i + 1 = Latest.n

\* The sense data of a command that fails is set before its status is primed.
SenseInv ==
  /\ Open /\ InCallback /\ ~ok => sense = Tag
  /\ Open /\ inTd.kind = "status" /\ inTd.tag = Tag /\ ~inTd.passed => sense = Tag

AnswerInv == PhaseInv /\ ShortReadInv /\ AllReceivedInv /\ SenseInv /\ FailureExplained

\* In an orderly history EP1 IN holds only what the host reads next.
ExpectedIn ==
  \/ inTd = Empty
  \/ inTd.kind = "data" /\ phase = "in"
  \/ inTd.kind = "status" /\ inTd.tag = Tag /\ phase \in {"out", "status"}
OrderInv ==
  /\ resets \in Nat
  /\ Orderly =>
       /\ ~mixup /\ phase \notin {"halted", "reset"}
       /\ ExpectedIn
       /\ phase = "in" => Latest.op \in Inputs /\ (InCallback => ok)
       /\ phase = "status" /\ Latest.op \in Inputs =>
            /\ Len(moved) = Latest.n
            /\ pc = "exec" => Latest.n <= i
            /\ pc = "sendData" => Latest.n <= i + 1

LEMMA AnswerInit == Init => AnswerInv /\ OrderInv
  BY DEF Init, AnswerInv, PhaseInv, Phases, ShortReadInv, AllReceivedInv, SenseInv, FailureExplained,
         Open, InCallback, Tag, OrderInv, ExpectedIn, Empty

LEMMA LatestTyped ==
  ASSUME TransportInv, Tag > 0
  PROVE  Tag \in Nat /\ Latest \in Commands /\ Latest.n \in Nat /\ Latest.lba \in Nat
<1>1. Tag \in Nat /\ Latest \in Commands
  BY DEF TransportInv, SequencesTyped, Tag, Latest
<1> QED
  BY <1>1, CommandsAssumption

LEMMA AnswerIssue ==
  ASSUME TransportInv, AnswerInv, OrderInv, NEW c \in Commands, Issue(c)
  PROVE  AnswerInv' /\ OrderInv'
<1>1. /\ Tag \in Nat /\ Tag' = Tag + 1 /\ phase = "idle" /\ phase' = "command"
      /\ issued \in Seq(Commands) /\ issued' = Append(issued, c)
      /\ UNCHANGED <<mixup, resets, inTd, pc>>
  BY DEF Issue, TransportInv, SequencesTyped, Tag, wires, program
<1>2. ~InCallback'
  BY <1>1 DEF TransportInv, ProgramInv, InCallback
<1>3. inTd.kind = "status" => inTd.tag # Tag'
  BY <1>1 DEF TransportInv, StatusInv
<1>4. AnswerInv'
  BY <1>1, <1>2, <1>3 DEF AnswerInv, PhaseInv, Phases, ShortReadInv, AllReceivedInv, SenseInv, FailureExplained
<1>5. Orderly' => Orderly
  <2>1. \A t \in 1..Tag : issued'[t] = issued[t]
    BY <1>1 DEF Tag
  <2>2. \A t \in 1..Tag : t \in 1..Tag'
    BY <1>1
  <2> QED
    BY <1>1, <2>1, <2>2 DEF Orderly
<1>6. OrderInv'
  BY <1>1, <1>5 DEF OrderInv, ExpectedIn
<1> QED
  BY <1>4, <1>6

LEMMA AnswerSendCommand ==
  ASSUME TransportInv, AnswerInv, OrderInv, SendCommand
  PROVE  AnswerInv' /\ OrderInv'
<1>1. /\ phase = "command" /\ phase' = DataPhase(Latest)
      /\ UNCHANGED <<issued, moved, mixup, resets, inTd, pc, ok, sense>>
      /\ Tag' = Tag /\ Latest' = Latest /\ InCallback' = InCallback /\ Orderly' = Orderly
  BY DEF SendCommand, Deliver, ledger, program, Tag, Latest, InCallback, Orderly
<1>2. Tag > 0 /\ cur < Tag /\ moved = <<>> /\ Len(moved) = 0
  BY <1>1 DEF TransportInv, HostInv
<1>3. Latest.n \in Nat /\ Latest.op \in Ops
  BY <1>2, LatestTyped, CommandsAssumption
<1>4. ~InCallback
  BY <1>1 DEF TransportInv, ProgramInv
<1>5. ~(inTd.kind = "status" /\ inTd.tag = Tag)
  BY <1>2 DEF TransportInv, StatusInv
<1>6. /\ phase' \in {"out", "in", "status"}
      /\ phase' = "in" => Latest.n > 0 /\ Latest.op \in Inputs \cup {"unknownIn"}
      /\ phase' = "status" /\ Latest.op \in Inputs \cup Outputs => Latest.n = 0
  BY <1>1, <1>3 DEF DataPhase, Inputs, Outputs
<1>7. PhaseInv'
  BY <1>1, <1>2, <1>6 DEF AnswerInv, PhaseInv, Phases
<1>8. ShortReadInv' /\ AllReceivedInv'
  BY <1>1, <1>2, <1>4, <1>6 DEF ShortReadInv, AllReceivedInv, Inputs, InCallback
<1>9. SenseInv' /\ FailureExplained'
  BY <1>1, <1>4, <1>5, <1>6 DEF SenseInv, FailureExplained
<1>10. OrderInv'
  <2> SUFFICES ASSUME Orderly PROVE OrderInv'
    BY <1>1 DEF OrderInv
  <2>1. inTd = Empty /\ ~mixup
    BY <1>1 DEF OrderInv, ExpectedIn
  <2>2. phase' = "in" => Latest.op \in Inputs
    <3> SUFFICES ASSUME Latest.op = "unknownIn", Latest.n > 0 PROVE FALSE
      BY <1>6
    <3>1. Tag \in 1..Tag
      BY <1>2, LatestTyped
    <3> QED
      BY <3>1 DEF Orderly, Unstalled, Latest
  <2> QED
    BY <1>1, <1>2, <1>4, <1>6, <2>1, <2>2 DEF OrderInv, ExpectedIn, InCallback
<1> QED
  BY <1>7, <1>8, <1>9, <1>10 DEF AnswerInv

LEMMA AnswerSendSector ==
  ASSUME TransportInv, AnswerInv, OrderInv, SendSector
  PROVE  AnswerInv' /\ OrderInv'
<1>1. /\ phase = "out" /\ outTd # "none" /\ outDone' = TRUE
      /\ moved' = Append(moved, <<Tag, Len(moved)>>)
      /\ phase' = IF Len(moved') = Latest.n THEN "status" ELSE "out"
      /\ UNCHANGED <<issued, mixup, resets, inTd, pc, i, ok, sense>>
      /\ Tag' = Tag /\ Latest' = Latest /\ InCallback' = InCallback /\ Orderly' = Orderly
  BY DEF SendSector, Deliver, ledger, program, Tag, Latest, InCallback, Orderly
<1>2. Tag > 0 /\ Latest.op \in Outputs /\ Latest.op \notin Inputs /\ Latest.op # "read"
  BY <1>1 DEF TransportInv, HostInv, Outputs, Inputs
<1>3. Len(moved') = Len(moved) + 1 /\ Len(moved) \in Nat
  BY <1>1 DEF TransportInv, SequencesTyped
<1>4. pc # "exec"
  BY <1>1 DEF TransportInv, OutInv
<1>5. pc = "receive" => Len(moved) = i
  BY <1>1 DEF TransportInv, OutInv
<1>6. PhaseInv' /\ ShortReadInv'
  BY <1>1, <1>2 DEF AnswerInv, PhaseInv, Phases, ShortReadInv
<1>7. AllReceivedInv'
  BY <1>1, <1>3, <1>4, <1>5 DEF AllReceivedInv
<1>8. SenseInv' /\ FailureExplained'
  BY <1>1 DEF AnswerInv, SenseInv, FailureExplained, Open
<1>9. OrderInv'
  BY <1>1, <1>2 DEF OrderInv, ExpectedIn
<1> QED
  BY <1>6, <1>7, <1>8, <1>9 DEF AnswerInv

LEMMA AnswerReset ==
  ASSUME TransportInv, AnswerInv, OrderInv, Reset
  PROVE  AnswerInv' /\ OrderInv'
<1>1. phase' = "reset" /\ resets' = resets + 1 /\ resets \in Nat
  BY DEF Reset, OrderInv
<1>2. AnswerInv'
  BY <1>1 DEF AnswerInv, PhaseInv, Phases, ShortReadInv, AllReceivedInv, SenseInv, FailureExplained, Open
<1>3. ~Orderly' /\ resets' \in Nat
  BY <1>1 DEF Orderly
<1> QED
  BY <1>2, <1>3 DEF OrderInv

LEMMA AnswerTakeData ==
  ASSUME TransportInv, AnswerInv, OrderInv, Fetch, TakeData
  PROVE  AnswerInv' /\ OrderInv'
<1>1. /\ phase = "in" /\ inTd # Empty /\ inTd' = Empty /\ inTd'.kind = "empty"
      /\ UNCHANGED <<issued, resets, outDone, pc, i, ok, sense>>
      /\ Tag' = Tag /\ Latest' = Latest /\ InCallback' = InCallback /\ Orderly' = Orderly
  BY DEF Fetch, TakeData, ledger, program, Tag, Latest, InCallback, Orderly, Empty
<1>2. /\ Tag > 0 /\ Latest.op \notin Outputs /\ Latest.op # "write"
      /\ Len(moved) < Latest.n /\ Latest.op \in Inputs \cup {"unknownIn"}
  BY <1>1 DEF TransportInv, HostInv, AnswerInv, PhaseInv, Outputs, Inputs
<1>3. Latest.n \in Nat /\ Len(moved) \in Nat
  BY <1>2, LatestTyped DEF TransportInv, SequencesTyped
<1>4. phase' \in {"in", "status"}
  BY DEF TakeData
<1>5. SenseInv' /\ FailureExplained' /\ AllReceivedInv'
  BY <1>1, <1>2, <1>4 DEF AnswerInv, SenseInv, FailureExplained, AllReceivedInv, Open
<1>6. CASE inTd.kind = "data"
  <2>1. /\ moved' = Append(moved, inTd.sector) /\ UNCHANGED mixup
        /\ phase' = IF Len(moved') = Latest.n THEN "status" ELSE "in"
    BY <1>6 DEF TakeData
  <2>2. Len(moved') = Len(moved) + 1
    BY <1>1, <1>6, <2>1 DEF TransportInv, SequencesTyped, MediumTyped
  <2>3. pc = "sendData" /\ Len(moved) = i /\ i \in Nat
    BY <1>1, <1>6 DEF TransportInv, InInv, ProgramTyped
  <2>4. PhaseInv' /\ ShortReadInv'
    BY <1>1, <1>2, <1>3, <2>1, <2>2 DEF AnswerInv, PhaseInv, Phases, ShortReadInv
  <2>5. OrderInv'
    BY <1>1, <1>2, <1>3, <1>4, <2>1, <2>2, <2>3 DEF OrderInv, ExpectedIn
  <2> QED
    BY <1>5, <2>4, <2>5 DEF AnswerInv
<1>7. CASE inTd.kind # "data"
  <2>1. moved' = moved /\ phase' = "status"
    BY <1>7 DEF TakeData
  <2>2. pc # "sendData"
    BY <1>1, <1>7 DEF TransportInv, InInv
  <2>3. pc = "exec" => i < Latest.n
    BY <1>1, <1>2 DEF TransportInv, InInv
  <2>4. pc # "receive"
    BY <1>2 DEF TransportInv, ProgramInv
  <2>5. PhaseInv' /\ ShortReadInv'
    BY <1>1, <1>2, <2>1, <2>2, <2>3, <2>4 DEF AnswerInv, PhaseInv, Phases, ShortReadInv, InCallback
  <2>6. ~Orderly
    BY <1>1, <1>7 DEF OrderInv, ExpectedIn
  <2>7. OrderInv'
    BY <1>1, <2>6 DEF OrderInv
  <2> QED
    BY <1>5, <2>5, <2>7 DEF AnswerInv
<1> QED
  BY <1>6, <1>7

\* The host learns how its command ended: the one step that may report a failure.
LEMMA AnswerTakeStatus ==
  ASSUME TransportInv, AnswerInv, OrderInv, Fetch, TakeStatus
  PROVE  AnswerInv' /\ OrderInv'
<1>1. /\ phase = "status" /\ phase' = "idle" /\ inTd.kind = "status" /\ inTd.tag = Tag
      /\ inTd' = Empty /\ UNCHANGED <<issued, resets, mixup, sense>>
      /\ Tag' = Tag /\ Orderly' = Orderly
  BY DEF Fetch, TakeStatus, GoodStatus, EndAs, program, Tag, Orderly
<1>2. Tag > 0 /\ Tag \in Nat /\ outcome[Tag] = "open" /\ Tag \in DOMAIN outcome
  BY <1>1 DEF TransportInv, HostInv, SequencesTyped, Tag
<1>3. PhaseInv' /\ ShortReadInv' /\ AllReceivedInv' /\ SenseInv'
  BY <1>1 DEF AnswerInv, PhaseInv, Phases, ShortReadInv, AllReceivedInv, SenseInv, Open
<1>4. FailureExplained'
  <2> SUFFICES ASSUME outcome'[Tag] = "failed" PROVE sense = Tag
    BY <1>1 DEF FailureExplained
  <2>1. ~inTd.passed \/ (Latest.op = "read" /\ Len(moved) # Latest.n)
    <3> SUFFICES ASSUME ~(~inTd.passed \/ (Latest.op = "read" /\ Len(moved) # Latest.n)) PROVE FALSE
      OBVIOUS
    <3>1. EndAs("passed")
      BY DEF TakeStatus
    <3> QED
      BY <1>2, <3>1 DEF EndAs
  <2>2. ~inTd.passed
    BY <1>1, <2>1 DEF AnswerInv, ShortReadInv
  <2> QED
    BY <1>1, <2>2 DEF AnswerInv, SenseInv, Open
<1>5. OrderInv'
  BY <1>1 DEF OrderInv, ExpectedIn
<1> QED
  BY <1>3, <1>4, <1>5 DEF AnswerInv

\* What the program does between the loop and the end of its callback.
LEMMA AnswerBegin ==
  ASSUME TransportInv, AnswerInv, OrderInv, ServiceBulk, outBuf.kind = "command"
  PROVE  AnswerInv' /\ OrderInv'
<1>1. /\ pc = "loop" /\ outDone /\ Begin(outBuf.tag) /\ CommandWaits
      /\ UNCHANGED <<issued, outcome, moved, resets, mixup, inTd>>
      /\ Tag' = Tag /\ Latest' = Latest /\ Orderly' = Orderly
  BY DEF ServiceBulk, CommandWaits, ledger, Tag, Latest, Orderly
<1>2. /\ outBuf.tag = Tag /\ cur < Tag /\ Tag > 0 /\ moved = <<>> /\ Len(moved) = 0
      /\ phase \notin {"idle", "command"}
  BY <1>1 DEF TransportInv, ArrivalInv, ProgramTyped, SequencesTyped, Tag
<1>3. /\ i' = 0 /\ pc' = "exec"
      /\ phase' = phase \/ (Latest.op = "unknownIn" /\ phase = "in" /\ phase' = "halted")
      /\ ~ok' => sense' = Tag
      /\ Latest.op \in Inputs /\ ~ok' => Latest.op = "read" /\ ~InRange(Latest)
  BY <1>1, <1>2 DEF Begin, Latest, Refused, Inputs
<1>4. Latest.n \in Nat
  BY <1>2, LatestTyped
<1>5. inTd.kind # "data" /\ ~(inTd.kind = "status" /\ inTd.tag = Tag)
  BY <1>1, <1>2 DEF TransportInv, InInv, StatusInv
<1>6. PhaseInv'
  BY <1>1, <1>3 DEF AnswerInv, PhaseInv, Phases, Outputs
<1>7. ShortReadInv'
  <2>1. Latest.n # 0 => 0 < Latest.n
    BY <1>4
  <2> QED
    BY <1>1, <1>2, <1>3, <1>5, <2>1 DEF ShortReadInv
<1>8. AllReceivedInv'
  <2>1. phase' = "status" => phase = "status"
    BY <1>3
  <2> QED
    BY <1>1, <1>2, <1>3, <2>1 DEF AnswerInv, PhaseInv, Phases, AllReceivedInv, Outputs
<1>9. SenseInv' /\ FailureExplained'
  BY <1>1, <1>2, <1>3, <1>5 DEF SenseInv, FailureExplained
<1>10. OrderInv'
  <2> SUFFICES ASSUME Orderly PROVE OrderInv'
    BY <1>1 DEF OrderInv
  <2>1. inTd = Empty /\ ~mixup /\ phase \notin {"halted", "reset"}
    BY <1>5 DEF OrderInv, ExpectedIn
  <2>2. phase' = phase
    BY <1>3 DEF OrderInv, Inputs
  <2>3. ~Unstalled(Latest)
    <3>1. Tag \in 1..Tag
      BY <1>2, LatestTyped
    <3> QED
      BY <3>1 DEF Orderly, Latest
  <2>4. phase = "in" => Latest.op \in Inputs /\ ok'
    <3>1. phase = "in" => Latest.op \in Inputs
      BY DEF OrderInv
    <3> QED
      BY <1>3, <2>3, <3>1 DEF Unstalled, Begin
  <2>5. phase = "status" /\ Latest.op \in Inputs => Len(moved) = Latest.n
    BY DEF OrderInv
  <2>6. ExpectedIn' /\ resets \in Nat
    BY <1>1, <2>1 DEF ExpectedIn, OrderInv
  <2> QED
    BY <1>1, <1>2, <1>3, <1>4, <2>1, <2>2, <2>4, <2>5, <2>6 DEF OrderInv
<1> QED
  BY <1>6, <1>7, <1>8, <1>9, <1>10 DEF AnswerInv

\* Steps outside the callback, and into and out of the loop.
LEMMA AnswerLoop ==
  ASSUME TransportInv, AnswerInv, OrderInv,
         \/ ServiceBulk /\ outBuf.kind # "command"
         \/ Rearm \/ StatusSent \/ CopyEnds \/ ClearHalt
  PROVE  AnswerInv' /\ OrderInv'
<1>1. /\ UNCHANGED <<issued, outcome, moved, phase, resets, mixup, inTd, i, ok, sense>>
      /\ Tag' = Tag /\ Latest' = Latest /\ Orderly' = Orderly /\ Open' = Open
      /\ (pc' \notin {"exec", "sendData", "receive"}) \/ UNCHANGED <<pc, outDone>>
  BY DEF ServiceBulk, Rearm, StatusSent, CopyEnds, ClearHalt, host, ledger, wires, program,
         Tag, Latest, Orderly, Open
<1>2. PhaseInv' /\ FailureExplained'
  BY <1>1 DEF AnswerInv, PhaseInv, Phases, FailureExplained
<1>3. ShortReadInv' /\ AllReceivedInv' /\ SenseInv'
  BY <1>1 DEF AnswerInv, ShortReadInv, AllReceivedInv, SenseInv, InCallback
<1>4. OrderInv'
  BY <1>1 DEF OrderInv, ExpectedIn, InCallback
<1> QED
  BY <1>2, <1>3, <1>4 DEF AnswerInv

LEMMA AnswerSendData ==
  ASSUME TransportInv, AnswerInv, OrderInv, SendData
  PROVE  AnswerInv' /\ OrderInv'
<1>1. /\ pc = "exec" /\ pc' = "sendData" /\ inTd'.kind = "data" /\ ok
      /\ i < Job.n /\ Job.op \in Inputs
      /\ UNCHANGED <<issued, outcome, moved, phase, resets, mixup, i, ok, sense>>
      /\ Tag' = Tag /\ Latest' = Latest /\ Orderly' = Orderly
  BY DEF SendData, Going, Sends, Primed, Data, Inputs, host, ledger, Tag, Latest, Orderly
<1>2. Job = Latest /\ Tag > 0 /\ phase \notin {"idle", "command"}
  BY <1>1 DEF TransportInv, ProgramInv, InCallback, Job, Latest
<1>3. Latest.op # "write" /\ Latest.op \notin Outputs /\ Latest.op # "unknownIn"
  BY <1>1, <1>2 DEF Inputs, Outputs
<1>4. PhaseInv' /\ ShortReadInv' /\ AllReceivedInv'
  BY <1>1, <1>2, <1>3 DEF AnswerInv, PhaseInv, Phases, ShortReadInv, AllReceivedInv
<1>5. SenseInv' /\ FailureExplained'
  BY <1>1 DEF AnswerInv, SenseInv, FailureExplained
<1>6. OrderInv'
  <2> SUFFICES ASSUME Orderly PROVE OrderInv'
    BY <1>1 DEF OrderInv
  <2>1. i \in Nat /\ Latest.n \in Nat
    BY <1>2, LatestTyped DEF TransportInv, ProgramTyped
  <2>2. phase \in {"in", "out"}
    BY <1>1, <1>2, <2>1 DEF OrderInv, AnswerInv, PhaseInv, Phases
  <2>3. phase = "in"
    BY <1>3, <2>2 DEF OrderInv, TransportInv, HostInv
  <2> QED
    BY <1>1, <1>2, <2>3 DEF OrderInv, ExpectedIn
<1> QED
  BY <1>4, <1>5, <1>6 DEF AnswerInv

LEMMA AnswerSendStatus ==
  ASSUME TransportInv, AnswerInv, OrderInv, SendStatus
  PROVE  AnswerInv' /\ OrderInv'
<1>1. /\ pc = "exec" /\ pc' = "sendStatus" /\ inTd' = Csw(cur, ok)
      /\ ~(i < Job.n /\ (Sends(Job) \/ Receives(Job)))
      /\ UNCHANGED <<issued, outcome, moved, phase, resets, mixup, i, ok, sense>>
      /\ Tag' = Tag /\ Latest' = Latest /\ Orderly' = Orderly /\ Open' = Open
  BY DEF SendStatus, Going, Primed, host, ledger, Tag, Latest, Orderly, Open
<1>2. /\ Job = Latest /\ cur = Tag /\ Tag > 0 /\ phase \notin {"idle", "command"} /\ InCallback
      /\ inTd'.kind = "status" /\ inTd'.tag = Tag /\ inTd'.passed = ok
  BY <1>1 DEF TransportInv, ProgramInv, InCallback, Job, Latest, Csw
<1>3. PhaseInv' /\ AllReceivedInv'
  BY <1>1 DEF AnswerInv, PhaseInv, Phases, AllReceivedInv
<1>4. ShortReadInv'
  <2> SUFFICES ASSUME phase = "status", Latest.op = "read", Len(moved) # Latest.n, ok
               PROVE  FALSE
    BY <1>1, <1>2 DEF ShortReadInv, InCallback
  <2> QED
    BY <1>1, <1>2 DEF AnswerInv, ShortReadInv, Sends
<1>5. SenseInv' /\ FailureExplained'
  BY <1>1, <1>2 DEF AnswerInv, SenseInv, FailureExplained, InCallback
<1>6. OrderInv'
  <2> SUFFICES ASSUME Orderly PROVE OrderInv'
    BY <1>1 DEF OrderInv
  <2>1. phase \in {"in", "out", "status"}
    BY <1>2 DEF OrderInv, AnswerInv, PhaseInv, Phases
  <2>2. phase # "in"
    <3> SUFFICES ASSUME phase = "in" PROVE FALSE
      OBVIOUS
    <3>1. Latest.op \in Inputs /\ ok
      BY <1>2 DEF OrderInv
    <3>2. i < Latest.n
      BY <1>1 DEF TransportInv, InInv, AnswerInv, PhaseInv
    <3> QED
      BY <1>1, <1>2, <3>1, <3>2 DEF Sends, Inputs
  <2> QED
    BY <1>1, <1>2, <2>1, <2>2 DEF OrderInv, ExpectedIn
<1> QED
  BY <1>3, <1>4, <1>5, <1>6 DEF AnswerInv

\* The wait of a send ends; while the host is reading it does not expire.
LEMMA AnswerDataSent ==
  ASSUME TransportInv, AnswerInv, OrderInv, DataSent
  PROVE  AnswerInv' /\ OrderInv'
<1>1. /\ pc = "sendData" /\ pc' = "exec" /\ inTd' = inTd /\ (inTd = Empty \/ ~Reading)
      /\ UNCHANGED <<issued, outcome, moved, phase, resets, mixup, sense>>
      /\ Tag' = Tag /\ Latest' = Latest /\ Orderly' = Orderly /\ Open' = Open
  BY DEF DataSent, host, ledger, wires, Tag, Latest, Orderly, Open
<1>2. /\ Tag > 0 /\ phase \notin {"idle", "command"} /\ Latest.op \in Inputs
      /\ i < Latest.n /\ InCallback /\ InCallback'
  BY <1>1 DEF TransportInv, ProgramInv, InCallback
<1>3. /\ Latest.op # "write" /\ Latest.op \notin Outputs /\ Latest.op # "unknownIn"
  BY <1>2 DEF Inputs, Outputs
<1>4. phase \in {"in", "status", "reset"}
  BY <1>2, <1>3 DEF TransportInv, HostInv, AnswerInv, PhaseInv, Phases
<1>5. PhaseInv' /\ AllReceivedInv' /\ FailureExplained'
  BY <1>1, <1>3 DEF AnswerInv, PhaseInv, Phases, AllReceivedInv, FailureExplained
<1>6. CASE inTd = Empty
  <2>1. i' = i + 1 /\ ok' = ok /\ inTd.kind = "empty"
    BY <1>6 DEF DataSent, Empty
  <2>2. ShortReadInv' /\ SenseInv'
    BY <1>1, <1>2, <2>1 DEF AnswerInv, ShortReadInv, SenseInv
  <2>3. OrderInv'
    BY <1>1, <1>2, <2>1 DEF OrderInv, ExpectedIn
  <2> QED
    BY <1>5, <2>2, <2>3 DEF AnswerInv
<1>7. CASE inTd # Empty
  <2>1. ok' = FALSE /\ i' = i
    BY <1>7 DEF DataSent
  <2>2. phase = "reset"
    BY <1>1, <1>4, <1>7 DEF Reading
  <2>3. ShortReadInv' /\ SenseInv'
    BY <1>1, <2>2 DEF ShortReadInv, SenseInv, Open
  <2>4. OrderInv'
    BY <1>1, <2>2 DEF OrderInv
  <2> QED
    BY <1>5, <2>3, <2>4 DEF AnswerInv
<1> QED
  BY <1>6, <1>7

LEMMA AnswerReceive ==
  ASSUME TransportInv, AnswerInv, OrderInv, Receive
  PROVE  AnswerInv' /\ OrderInv'
<1>1. /\ pc = "exec" /\ pc' = "receive" /\ inTd' = inTd
      /\ i < Job.n /\ Job.op \in Outputs
      /\ UNCHANGED <<issued, outcome, moved, phase, resets, mixup, i, ok, sense, outDone>>
      /\ Tag' = Tag /\ Latest' = Latest /\ Orderly' = Orderly /\ Open' = Open
  BY DEF Receive, Going, Receives, Outputs, host, ledger, Tag, Latest, Orderly, Open
<1>2. Job = Latest /\ Tag > 0 /\ InCallback /\ InCallback'
  BY <1>1 DEF TransportInv, ProgramInv, InCallback, Job, Latest
<1>3. Latest.op \notin Inputs /\ Latest.op # "read"
  BY <1>1, <1>2 DEF Inputs, Outputs
<1>4. PhaseInv' /\ FailureExplained' /\ ShortReadInv' /\ SenseInv'
  BY <1>1, <1>2, <1>3 DEF AnswerInv, PhaseInv, Phases, ShortReadInv, SenseInv, FailureExplained
<1>5. AllReceivedInv'
  <2>1. i \in Nat /\ Latest.n \in Nat
    BY <1>2, LatestTyped DEF TransportInv, ProgramTyped
  <2> QED
    BY <1>1, <1>2, <2>1 DEF AnswerInv, AllReceivedInv
<1>6. OrderInv'
  BY <1>1, <1>3 DEF OrderInv, ExpectedIn
<1> QED
  BY <1>4, <1>5, <1>6 DEF AnswerInv

LEMMA AnswerReceived ==
  ASSUME TransportInv, AnswerInv, OrderInv, Received \/ ReceiveTimeout
  PROVE  AnswerInv' /\ OrderInv'
<1>1. /\ pc = "receive" /\ pc' = "exec" /\ inTd' = inTd
      /\ UNCHANGED <<issued, outcome, moved, phase, resets, mixup, sense>>
      /\ Tag' = Tag /\ Latest' = Latest /\ Orderly' = Orderly /\ Open' = Open
  BY DEF Received, ReceiveTimeout, host, ledger, wires, Tag, Latest, Orderly, Open
<1>2. /\ Job = Latest /\ Tag > 0 /\ InCallback /\ InCallback' /\ Latest.op \in Outputs
      /\ phase \notin {"idle", "command"}
  BY <1>1 DEF TransportInv, ProgramInv, InCallback, Job, Latest
<1>3. Latest.op \notin Inputs /\ Latest.op # "read" /\ Latest.op # "unknownIn"
  BY <1>2 DEF Inputs, Outputs
<1>4. PhaseInv' /\ FailureExplained' /\ ShortReadInv' /\ OrderInv'
  BY <1>1, <1>3 DEF AnswerInv, PhaseInv, Phases, ShortReadInv, FailureExplained, OrderInv, ExpectedIn
<1>5. CASE Received
  <2>1. i' = i + 1 /\ ok' = ok
    BY <1>5 DEF Received
  <2>2. AllReceivedInv' /\ SenseInv'
    BY <1>1, <1>2, <2>1 DEF AnswerInv, AllReceivedInv, SenseInv
  <2> QED
    BY <1>4, <2>2 DEF AnswerInv
<1>6. CASE ReceiveTimeout
  <2>1. /\ ~outDone /\ phase # "out"
        /\ Latest.op = "write" => ok' = FALSE
        /\ Latest.op # "write" => ok' = ok
    BY <1>2, <1>6 DEF ReceiveTimeout
  <2>2. phase \in {"status", "reset"}
    BY <1>2, <1>3, <2>1 DEF TransportInv, HostInv, AnswerInv, PhaseInv, Phases
  <2>3. Latest.op = "write" /\ phase = "status" => ok = FALSE
    BY <1>1, <2>1 DEF AnswerInv, AllReceivedInv, TransportInv, ProgramTyped
  <2>4. AllReceivedInv'
    BY <1>1, <2>1 DEF AllReceivedInv
  <2>5. SenseInv'
    <3>1. Open' /\ InCallback' /\ ~ok' => sense' = Tag'
      BY <1>1, <1>2, <2>1, <2>2, <2>3 DEF AnswerInv, SenseInv, Open
    <3> QED
      BY <1>1, <3>1 DEF AnswerInv, SenseInv
  <2> QED
    BY <1>4, <2>4, <2>5 DEF AnswerInv
<1> QED
  BY <1>5, <1>6

LEMMA AnswerControl ==
  ASSUME TransportInv, AnswerInv, OrderInv, ServiceControl \/ MassStorageReset
  PROVE  AnswerInv' /\ OrderInv'
<1>1. /\ UNCHANGED <<issued, outcome, moved, resets, mixup, inTd, pc, i, ok, sense>>
      /\ Tag' = Tag /\ Latest' = Latest /\ Orderly' = Orderly /\ pc = "loop"
  BY DEF ServiceControl, MassStorageReset, ledger, program, Tag, Latest, Orderly
<1>2. /\ setup # "none" => phase \in {"halted", "reset"}
      /\ setup # "none"
  BY DEF ServiceControl, MassStorageReset, TransportInv, HostInv
<1>3. /\ phase \in {"halted", "reset"}
      /\ phase' = phase \/ (phase = "halted" /\ phase' = "status") \/ (phase = "reset" /\ phase' = "idle")
  BY <1>2 DEF ServiceControl, MassStorageReset
<1>4. ~InCallback'
  BY <1>1 DEF InCallback
<1>5. phase = "halted" => Latest.op = "unknownIn"
  BY DEF AnswerInv, PhaseInv
<1>6. PhaseInv'
  BY <1>1, <1>3, <1>5 DEF AnswerInv, PhaseInv, Phases, Outputs
<1>7. ShortReadInv' /\ AllReceivedInv'
  BY <1>1, <1>3, <1>5 DEF ShortReadInv, AllReceivedInv
<1>8. SenseInv'
  BY <1>1, <1>3, <1>4 DEF AnswerInv, SenseInv, Open
<1>9. FailureExplained'
  BY <1>1, <1>3 DEF FailureExplained, TransportInv, HostInv
<1>10. OrderInv'
  BY <1>1, <1>3 DEF OrderInv
<1> QED
  BY <1>6, <1>7, <1>8, <1>9, <1>10 DEF AnswerInv

LEMMA AnswerStep ==
  ASSUME TransportInv, AnswerInv, OrderInv, [Next]_vars
  PROVE  AnswerInv' /\ OrderInv'
<1>1. CASE UNCHANGED vars
  <2>1. /\ UNCHANGED <<issued, outcome, moved, phase, resets, mixup, inTd, pc, i, ok, sense, outDone>>
        /\ Tag' = Tag /\ Latest' = Latest /\ Orderly' = Orderly /\ Open' = Open
        /\ InCallback' = InCallback
    BY <1>1 DEF vars, host, ledger, wires, program, Tag, Latest, Orderly, Open, InCallback
  <2>2. PhaseInv' /\ ShortReadInv' /\ AllReceivedInv' /\ SenseInv' /\ FailureExplained'
    BY <2>1 DEF AnswerInv, PhaseInv, ShortReadInv, AllReceivedInv, SenseInv, FailureExplained
  <2> QED
    BY <2>1, <2>2 DEF AnswerInv, OrderInv, ExpectedIn
<1>2. CASE \E c \in Commands : Issue(c)
  BY <1>2, AnswerIssue
<1>3. CASE GiveUp
  BY <1>3, AnswerReset DEF GiveUp
<1>4. CASE Fetch
  BY <1>4, AnswerTakeData, AnswerTakeStatus, AnswerReset DEF Fetch, RejectStatus
<1>5. CASE SendCommand \/ SendSector
  BY <1>5, AnswerSendCommand, AnswerSendSector
<1>6. CASE ServiceBulk
  BY <1>6, AnswerBegin, AnswerLoop
<1>7. CASE Rearm \/ StatusSent \/ CopyEnds \/ ClearHalt
  BY <1>7, AnswerLoop
<1>8. CASE SendData \/ SendStatus \/ DataSent
  BY <1>8, AnswerSendData, AnswerSendStatus, AnswerDataSent
<1>9. CASE Receive \/ Received \/ ReceiveTimeout
  BY <1>9, AnswerReceive, AnswerReceived
<1>10. CASE ServiceControl \/ MassStorageReset
  BY <1>10, AnswerControl
<1> QED
  BY <1>1, <1>2, <1>3, <1>4, <1>5, <1>6, <1>7, <1>8, <1>9, <1>10 DEF Next, HostMoves, Runs

(* For every set of commands and any number of resets and timeouts: when the *)
(* host is told that its command failed, the sense data is that command's    *)
(* (every msc_set_sense, and the status that msc_transport_handle_bulk_out   *)
(* sends after msc_scsi_execute).                                            *)
THEOREM FailuresExplained == Spec => []FailureExplained
<1>1. Init => TransportInv /\ AnswerInv /\ OrderInv
  BY InitInv, AnswerInit
<1>2. TransportInv /\ AnswerInv /\ OrderInv /\ [Next]_vars => (TransportInv /\ AnswerInv /\ OrderInv)'
  BY StepInv, AnswerStep
<1>3. AnswerInv => FailureExplained
  BY DEF AnswerInv
<1> QED
  BY <1>1, <1>2, <1>3, PTL DEF Spec

(* As long as nothing was reset and no command has to be answered by a stall, *)
(* the host never takes one transfer for another (the flush before every      *)
(* priming in msc_bulk_send_chunk, and the swallowed data of refused writes). *)
THEOREM StaysInStep == Spec => []InStep
<1>1. Init => TransportInv /\ AnswerInv /\ OrderInv
  BY InitInv, AnswerInit
<1>2. TransportInv /\ AnswerInv /\ OrderInv /\ [Next]_vars => (TransportInv /\ AnswerInv /\ OrderInv)'
  BY StepInv, AnswerStep
<1>3. OrderInv => InStep
  BY DEF OrderInv, InStep
<1> QED
  BY <1>1, <1>2, <1>3, PTL DEF Spec
=============================================================================
