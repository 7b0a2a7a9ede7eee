----------------------------- MODULE UsbDevice -----------------------------
(***************************************************************************)
(* The device side of usb_dma.h in the composite program: main's life      *)
(* around the controller, and the control endpoint, polled by the main     *)
(* loop.  A setup packet is copied under the tripwire, acknowledged, and   *)
(* dispatched; each answer is primed on EP0 and awaited for a bounded      *)
(* time.  SET_CONFIGURATION and CLEAR_FEATURE set up the bulk endpoints.   *)
(*                                                                         *)
(* The host sends one request at a time.  Once it has waited for long it   *)
(* may abort one and send another; the controller takes a setup packet at  *)
(* any time and answers nothing on EP0 while ENDPTSETUPSTAT is set.        *)
(*                                                                         *)
(* Abstractions: a request is its dispatch class; an endpoint holds one    *)
(* primed transfer; a wait expires only when the host awaits something     *)
(* else; EP2 and EP3 are enabled and flushed with EP1.                     *)
(***************************************************************************)
EXTENDS Integers, Sequences, FiniteSets

CONSTANTS
  Requests,     \* the requests the host sends
  MaxRequests,  \* bound on them
  MaxAborts,    \* bound on the host's aborts
  MaxSwitches   \* bound on the user's switches of the root (Tab)

(* bRequest and what else service_control_endpoint and the callbacks look at *)
Acknowledged == {"setAddress", "setConfiguration", "clearIn", "clearOut", "setIdle", "setProtocol",
                 "massStorageReset"}
Delivering == {"getDescriptor", "getReportDescriptor", "getMaxLun", "getReport", "getProtocol"}
Ignored == {"setConfiguration0", "setReport", "getStatus", "getUnknownDescriptor"}
Awaited == {"setAddress", "setConfiguration", "massStorageReset"}
HostReads == Delivering \cup {"getStatus", "getUnknownDescriptor"}

ASSUME RequestsAssumption == Requests \subseteq Acknowledged \cup Delivering \cup Ignored
ASSUME BoundsAssumption ==
  MaxRequests \in Nat /\ MaxAborts \in Nat /\ MaxSwitches \in Nat

VARIABLES
  step,      \* the program
  regs,      \* who set the controller up: native, reset, program
  saved,     \* native_usb_state
  address,   \* DEVICEADDR in effect, and the one that waits for a status stage
  staged,
  enabled,   \* ENDPTCTRL1..3 set up by SET_CONFIGURATION
  armed,     \* dtd_bulk_rx is primed on EP1 OUT
  pending,   \* ENDPTSETUPSTAT
  buffer,    \* number of the request in the setup buffer
  serving,   \* the request the program is serving
  in0, out0, \* what is primed on EP0: the number of the request it answers
  complete,  \* ENDPTCOMPLETE of EP0
  sent,      \* the host: its requests so far
  stage,     \* the host: idle, data, status
  known,     \* the host: the address it uses
  crossed,   \* history: the host took an answer to another request
  overrun,   \* history: a setup arrived after the copy of an earlier one, which it undoes
  aborts, switches, plugged

lifecycle == <<regs, saved, switches>>
endpoints == <<address, staged, enabled, armed>>
control == <<pending, buffer, in0, out0, complete>>
hostSide == <<sent, stage, known, crossed, aborts, plugged>>
usbVars == <<step, lifecycle, endpoints, control, serving, overrun, hostSide>>

Request(k) == sent[k]
Newest == Len(sent)
NoAnswer == 0

UsbInit ==
  /\ step = "off" /\ regs = "native" /\ saved = "none" /\ switches = 0
  /\ address = 0 /\ staged = 0 /\ enabled = FALSE /\ armed = FALSE
  /\ pending = FALSE /\ buffer = 0 /\ in0 = NoAnswer /\ out0 = NoAnswer /\ complete = {}
  /\ serving = 0 /\ overrun = FALSE
  /\ sent = <<>> /\ stage = "idle" /\ known = 0 /\ crossed = FALSE /\ aborts = 0
  /\ plugged = FALSE

-----------------------------------------------------------------------------
(* The program's life.                                                      *)

Start ==
  /\ step = "off" /\ saved = "none"
  /\ saved' = regs /\ step' = "reset"
  /\ UNCHANGED <<regs, switches, endpoints, control, serving, overrun, hostSide>>

\* reset_usb_subsystem and setup_endpoint_list
Cleared ==
  /\ address' = 0 /\ staged' = 0 /\ enabled' = FALSE /\ armed' = FALSE
  /\ pending' = FALSE /\ in0' = NoAnswer /\ out0' = NoAnswer /\ complete' = {}
  /\ UNCHANGED buffer

ResetController ==
  /\ step = "reset"
  /\ Cleared /\ regs' = "program" /\ step' = "link"
  /\ UNCHANGED <<saved, switches, serving, overrun, hostSide>>

\* setup_minimal_usb_stack: from here on the host sees the device.
Connect ==
  /\ step = "link" /\ plugged
  /\ step' = "loop"
  /\ UNCHANGED <<lifecycle, endpoints, control, serving, overrun, hostSide>>

(* Esc, while waiting for the link or in the loop, and Tab in the loop:      *)
(* usb_device_shutdown, then restore_native_usb_state.                       *)
ShutDown(to) ==
  /\ Cleared
  /\ step' = to
  /\ stage' = "idle" /\ known' = 0 /\ regs' = "reset"
  /\ UNCHANGED <<saved, serving, overrun, sent, crossed, aborts, plugged>>

Escape == step \in {"link", "loop"} /\ ShutDown("restore") /\ UNCHANGED switches

\* Mutant: the native state is not restored before the next turn saves it.
SwitchUnrestored ==
  /\ step = "loop" /\ switches < MaxSwitches
  /\ ShutDown("save") /\ switches' = switches + 1

SwitchRoot ==
  /\ step = "loop" /\ switches < MaxSwitches
  /\ ShutDown("restoreSwitch") /\ switches' = switches + 1

Restore ==
  /\ step \in {"restore", "restoreSwitch"}
  /\ regs' = saved
  /\ step' = IF step = "restore" THEN "off" ELSE "save"
  /\ UNCHANGED <<saved, switches, endpoints, control, serving, overrun, hostSide>>

\* The next turn of main's loop saves the native state again.
SaveAgain ==
  /\ step = "save"
  /\ saved' = regs /\ step' = "reset"
  /\ UNCHANGED <<regs, switches, endpoints, control, serving, overrun, hostSide>>

-----------------------------------------------------------------------------
(* The control endpoint.                                                    *)

\* Mutant: what an aborted request left primed is not flushed.
SetupUnflushed ==
  /\ step = "loop" /\ pending
  /\ step' = "copy"
  /\ UNCHANGED <<lifecycle, endpoints, control, serving, overrun, hostSide>>

(* service_control_endpoint, to the flush of EP0.                            *)
SetupSeen ==
  /\ step = "loop" /\ pending
  /\ in0' = NoAnswer /\ out0' = NoAnswer
  /\ step' = "copy"
  /\ UNCHANGED <<lifecycle, endpoints, pending, buffer, complete, serving, overrun, hostSide>>

(* read_setup_packet_safe: the loop under the tripwire copies the packet     *)
(* that is in the buffer when the loop ends ...                              *)
CopySetup ==
  /\ step = "copy"
  /\ serving' = buffer /\ step' = "clear"
  /\ UNCHANGED <<lifecycle, endpoints, control, overrun, hostSide>>

(* ... and only then is ENDPTSETUPSTAT cleared.                              *)
ClearSetup ==
  /\ step = "clear"
  /\ pending' = FALSE /\ step' = "dispatch"
  /\ UNCHANGED <<lifecycle, endpoints, buffer, in0, out0, complete, serving, overrun, hostSide>>

Asked(r) == step = "dispatch" /\ Request(serving) = r
Primed0 == in0' = serving

\* Mutant: without USBADRA the address takes effect at once.
SetAddressAtOnce ==
  /\ Asked("setAddress")
  /\ address' = 1 /\ staged' = 1 /\ Primed0
  /\ step' = "awaitIn"
  /\ UNCHANGED <<lifecycle, enabled, armed, pending, buffer, out0, complete, serving, overrun, hostSide>>

\* DEVICEADDR with USBADRA: the address takes effect after the status stage.
SetAddress ==
  /\ Asked("setAddress")
  /\ staged' = 1 /\ Primed0
  /\ step' = "awaitIn"
  /\ UNCHANGED <<lifecycle, address, enabled, armed, pending, buffer, out0, complete, serving, overrun, hostSide>>

(* The status stage is primed before EP1 is flushed, enabled and armed.      *)
SetConfiguration ==
  /\ Asked("setConfiguration")
  /\ Primed0
  /\ armed' = FALSE /\ step' = "configure"
  /\ UNCHANGED <<lifecycle, address, staged, enabled, pending, buffer, out0, complete, serving, overrun, hostSide>>

Configure ==
  /\ step = "configure"
  /\ enabled' = TRUE /\ armed' = TRUE /\ step' = "awaitIn"
  /\ UNCHANGED <<lifecycle, address, staged, control, serving, overrun, hostSide>>

\* Mutant: EP1 OUT is flushed and not armed again.
ClearFeatureUnarmed ==
  /\ Asked("clearIn") \/ Asked("clearOut")
  /\ Primed0
  /\ armed' = (armed /\ Request(serving) = "clearIn")
  /\ step' = "loop"
  /\ UNCHANGED <<lifecycle, address, staged, enabled, pending, buffer, out0, complete, serving, overrun, hostSide>>

\* CLEAR_FEATURE(ENDPOINT_HALT); the one for EP1 OUT arms the buffer anew.
ClearFeature ==
  /\ Asked("clearIn") \/ Asked("clearOut")
  /\ Primed0
  /\ armed' = (armed \/ Request(serving) = "clearOut")
  /\ step' = "loop"
  /\ UNCHANGED <<lifecycle, address, staged, enabled, pending, buffer, out0, complete, serving, overrun, hostSide>>

Acknowledge ==
  /\ \E r \in {"setIdle", "setProtocol", "massStorageReset"} : Asked(r)
  /\ Primed0
  /\ step' = IF Request(serving) \in Awaited THEN "awaitIn" ELSE "loop"
  /\ UNCHANGED <<lifecycle, endpoints, pending, buffer, out0, complete, serving, overrun, hostSide>>

\* transmit_ep0_data
Transmit ==
  /\ \E r \in Delivering : Asked(r)
  /\ Primed0
  /\ step' = "awaitIn"
  /\ UNCHANGED <<lifecycle, endpoints, pending, buffer, out0, complete, serving, overrun, hostSide>>

(* SET_CONFIGURATION(0), a class request 0x09 (SET_REPORT), GET_STATUS, a    *)
(* descriptor the program does not have: no status stage, and no stall.      *)
Ignore ==
  /\ \E r \in Ignored : Asked(r)
  /\ step' = "loop"
  /\ UNCHANGED <<lifecycle, endpoints, control, serving, overrun, hostSide>>

Attached == plugged /\ step \notin {"off", "save", "reset", "link", "restore", "restoreSwitch"}
Reaches == Attached /\ ~pending /\ known = address
HostTakes(k) == Reaches /\ stage # "idle" /\ Newest = k

(* The wait for the IN transfer ends, by its completion or by its count; the *)
(* answer to a read is followed by arm_ep0_out_status.                       *)
InDone ==
  /\ step = "awaitIn"
  /\ "in" \in complete \/ ~HostTakes(serving)
  /\ complete' = complete \ {"in"}
  /\ IF Request(serving) \in Delivering
       THEN out0' = serving /\ step' = "awaitOut"
       ELSE out0' = out0 /\ step' = "loop"
  /\ UNCHANGED <<lifecycle, endpoints, pending, buffer, in0, serving, overrun, hostSide>>

OutDone ==
  /\ step = "awaitOut"
  /\ "out" \in complete \/ ~HostTakes(serving)
  /\ complete' = complete \ {"out"}
  /\ step' = "loop"
  /\ UNCHANGED <<lifecycle, endpoints, pending, buffer, in0, out0, serving, overrun, hostSide>>

-----------------------------------------------------------------------------
(* The host, its cable and the controller.                                  *)

Plug ==
  /\ step = "link" /\ ~plugged
  /\ plugged' = TRUE
  /\ UNCHANGED <<step, lifecycle, endpoints, control, serving, overrun, sent, stage, known, crossed, aborts>>

Send(r) ==
  /\ Attached /\ Newest < MaxRequests
  /\ sent' = Append(sent, r) /\ stage' = (IF r \in HostReads THEN "data" ELSE "status")
  /\ pending' = TRUE /\ buffer' = Newest + 1
  /\ staged' = address
  /\ overrun' = (overrun \/ step = "clear" \/ (step = "dispatch" /\ Request(serving) = "setAddress"))
  /\ UNCHANGED <<step, lifecycle, address, enabled, armed, in0, out0, complete, serving, known, crossed, plugged>>

Ask(r) == stage = "idle" /\ Send(r) /\ UNCHANGED aborts
AbortAndAsk(r) == stage # "idle" /\ aborts < MaxAborts /\ Send(r) /\ aborts' = aborts + 1

(* The host resets the port: the controller forgets its address, and that is *)
(* all, for nothing in the program looks at the reset bit of USBSTS.         *)
BusReset ==
  /\ Attached /\ aborts < MaxAborts
  /\ aborts' = aborts + 1
  /\ address' = 0 /\ staged' = 0 /\ known' = 0 /\ stage' = "idle"
  /\ UNCHANGED <<step, lifecycle, enabled, armed, control, serving, overrun, sent, crossed, plugged>>

(* An IN token: data, or the status of a request without data.              *)
TakeIn ==
  /\ Reaches /\ in0 # NoAnswer
  /\ \/ stage = "data" /\ stage' = "out"
     \/ stage = "status" /\ stage' = "idle"
  /\ in0' = NoAnswer /\ complete' = complete \cup {"in"}
  /\ crossed' = (crossed \/ in0 # Newest)
  /\ address' = staged
  /\ known' = (IF stage = "status" /\ Request(Newest) = "setAddress" THEN 1 ELSE known)
  /\ UNCHANGED <<step, lifecycle, staged, enabled, armed, pending, buffer, out0, serving, overrun, sent, aborts, plugged>>

\* The status stage of a read.
GiveOut ==
  /\ Reaches /\ stage = "out" /\ out0 # NoAnswer
  /\ stage' = "idle"
  /\ out0' = NoAnswer /\ complete' = complete \cup {"out"}
  /\ UNCHANGED <<step, lifecycle, endpoints, pending, buffer, in0, serving, overrun, sent, known, crossed, aborts, plugged>>

-----------------------------------------------------------------------------
Serves ==
  \/ SetupSeen \/ CopySetup \/ ClearSetup \/ SetAddress \/ SetConfiguration \/ Configure
  \/ ClearFeature \/ Acknowledge \/ Transmit \/ Ignore \/ InDone \/ OutDone
Lives == Start \/ ResetController \/ Connect \/ Restore \/ SaveAgain
UsbNext ==
  \/ Lives \/ Escape \/ SwitchRoot \/ Serves
  \/ Plug \/ BusReset \/ TakeIn \/ GiveOut
  \/ \E r \in Requests : Ask(r) \/ AbortAndAsk(r)

(* The program keeps polling, the host polls EP0 while a request is open.    *)
UsbSpec ==
  /\ UsbInit /\ [][UsbNext]_usbVars
  /\ WF_usbVars(Lives) /\ WF_usbVars(Serves) /\ WF_usbVars(TakeIn \/ GiveOut)

-----------------------------------------------------------------------------
(* The variables have their types; only answers that the code waits for are  *)
(* waited for.                                                               *)
UsbTypeOK ==
  /\ step \in {"off", "save", "reset", "link", "loop", "restore", "restoreSwitch", "copy", "clear",
             "dispatch", "configure", "awaitIn", "awaitOut"}
  /\ regs \in {"native", "reset", "program"} /\ saved \in {"none", "native"}
  /\ address \in 0..1 /\ staged \in 0..1 /\ known \in 0..1
  /\ enabled \in BOOLEAN /\ armed \in BOOLEAN /\ pending \in BOOLEAN
  /\ sent \in Seq(Requests) /\ serving \in 0..Newest /\ buffer \in 0..Newest
  /\ in0 \in 0..Newest /\ out0 \in 0..Newest /\ complete \subseteq {"in", "out"}
  /\ stage \in {"idle", "data", "status", "out"}
  /\ serving > 0 /\ step \in {"awaitIn", "awaitOut"} => Request(serving) \in Delivering \cup Awaited

(* The calculator gets its own controller state back, on every way out, also *)
(* after any number of root switches.                                        *)
NativeBack == step = "off" => regs = "native"

(* The host takes no answer to an earlier request for the answer to its own, *)
(* unless a setup packet came while an earlier one was being dispatched.     *)
AnswersOwn == crossed => overrun

(* Once configured, the program listens for commands whenever it polls.      *)
Listening == step = "loop" /\ enabled => armed

(* A request the program knows ends, whatever was aborted before, unless the *)
(* host aborts it, the device leaves, or its setup was overrun.              *)
RequestsEnd ==
  \A k \in 1..MaxRequests :
    (Newest = k /\ stage # "idle" /\ Request(k) \notin Ignored)
      ~> (stage = "idle" \/ Newest > k \/ overrun)

(* Every request is answered, as the descriptors and handlers suggest; not   *)
(* so the LED report, SET_CONFIGURATION(0) and GET_STATUS.                   *)
EveryRequestAnswered ==
  \A k \in 1..MaxRequests :
    (Newest = k /\ stage # "idle") ~> (stage = "idle" \/ Newest > k \/ overrun)
=============================================================================
