-------------------------------- MODULE Hid --------------------------------
(***************************************************************************)
(* The keyboard and the mouse of the HID programs: once per turn the main  *)
(* loop scans the keys and the touchpad and sends a report on EP2 or EP3   *)
(* when something changed, waiting a bounded time for the host to fetch    *)
(* it.  Keys that stand for text are typed on their rising edge.           *)
(*                                                                         *)
(* The user presses and moves at any moment.  The host fetches reports     *)
(* once it has configured the device, and may stop for a while (suspend).  *)
(*                                                                         *)
(* Abstractions: a scan of the simple and dual keys is one sample; a       *)
(* report is its modifiers and the set of its codes; the touchpad moves in *)
(* one dimension (y, the flipped one), with unit steps for its resolution; *)
(* touchpad_scan succeeds; priming an endpoint that is still primed keeps  *)
(* either transfer, for nothing flushes it.                                *)
(***************************************************************************)
EXTENDS Integers, SequencesExt

CONSTANTS
  KeyOrder,    \* hid_simple_map, then hid_dual_map: the keys in the order of their entries
  Codes,       \* the codes of each
  Shifted,     \* the simple ones that need shift
  TextOrder,   \* hid_string_map
  Text,        \* the characters each of its keys types: a code each, some with shift
  Shift, Ctrl, \* the modifier keys
  Slots,       \* codes in a report: 6
  Clip,        \* largest movement in a report: 127
  Reach,       \* touchpad positions are 0..Reach
  Quick,       \* whether a finger may be lifted and back between two scans
  MaxChanges,  \* bound on what the user does
  MaxSleeps    \* bound on the host's suspensions

Keys == ToSet(KeyOrder)
Texts == ToSet(TextOrder)

Characters == UNION {ToSet(Text[k]) : k \in Texts}

ASSUME KeysAssumption ==
  /\ KeyOrder \in Seq(Keys) /\ TextOrder \in Seq(Texts)
  /\ IsInjective(KeyOrder) /\ IsInjective(TextOrder) /\ Keys \cap Texts = {}
  /\ DOMAIN Codes = Keys /\ DOMAIN Text = Texts /\ Shifted \subseteq Keys
  /\ {Shift, Ctrl} \cap (Keys \cup Texts) = {}
ASSUME TextAssumption ==
  /\ \A k \in Texts : Text[k] \in Seq(Characters) \ {<<>>}
  /\ \A c \in Characters : c.mods \subseteq {Shift} /\ \E x \in c.codes : c.codes = {x}
ASSUME BoundsAssumption ==
  /\ Slots \in Nat /\ Clip \in Nat /\ Reach \in Nat /\ Quick \in BOOLEAN
  /\ MaxChanges \in Nat /\ MaxSleeps \in Nat

VARIABLES
  down,      \* keys held
  finger,    \* the finger: contact, y, click
  unseen,    \* it was lifted since the last scan of the touchpad
  changes,
  pc,        \* scan, keys, strings, type, typed, touch, mouse, turn
  report,    \* hid_kbd_report_buf
  last,      \* hid_last_keyboard_report
  wasDown,   \* hid_string_key_was_down
  left,      \* string keys still to be scanned in this turn
  todo,      \* reports still to be typed for the present one
  prev,      \* have_prev and prev_y
  flip,      \* hid_mouse_flip_y
  combo,     \* toggle_combo_was_down
  idle,      \* last_was_idle
  kbd, mouse,  \* the endpoints: what is primed, and the completion bit
  configured, awake, sleeps,  \* the host
  shown,     \* the keyboard report it saw last
  buttons,   \* the mouse button it saw last
  missed,    \* history: a wait ended by its count
  owed, typed,    \* history: characters of the text keys pressed, and those the host saw go down
  masked,         \* history: the first character of a text was down for the host already
  travel, moved,  \* history: how far the finger moved, and the pointer
  fresh, again    \* history: keys not yet seen since they were pressed; one was seen twice

user == <<down, finger, unseen, changes>>
program == <<report, last, wasDown, left, todo, prev, flip, combo, idle>>
host == <<configured, awake, sleeps>>
seen == <<shown, buttons, typed, moved>>
history == <<missed, owed, masked, travel, fresh, again>>
vars == <<user, pc, program, kbd, mouse, host, seen, history>>

NoReport == [mods |-> {}, codes |-> {}]
Still == [button |-> FALSE, dy |-> 0]
Free == [primed |-> <<>>, done |-> FALSE]

Init ==
  /\ down = {} /\ finger = [contact |-> FALSE, y |-> 0, click |-> FALSE]
  /\ unseen = FALSE /\ changes = 0
  /\ pc = "scan" /\ report = NoReport /\ last = NoReport
  /\ wasDown = {} /\ left = <<>> /\ todo = <<>>
  /\ prev = [have |-> FALSE, y |-> 0] /\ flip = TRUE /\ combo = FALSE /\ idle = TRUE
  /\ kbd = Free /\ mouse = Free
  /\ configured = FALSE /\ awake = TRUE /\ sleeps = 0
  /\ shown = NoReport /\ buttons = FALSE /\ missed = FALSE
  /\ owed = <<>> /\ typed = <<>> /\ masked = FALSE
  /\ travel = 0 /\ moved = 0 /\ fresh = {} /\ again = FALSE

-----------------------------------------------------------------------------
(* Reports.                                                                 *)

Distance(a, b) == IF a < b THEN b - a ELSE a - b
Least(a, b) == IF a < b THEN a ELSE b

Held == SelectSeq(KeyOrder, LAMBDA k : k \in down)
Packed == FlattenSeq([j \in 1..Len(Held) |-> Codes[Held[j]]])

(* The first keys in map order have the slots; a key that finds none, or has *)
(* no turn any more, adds no shift either.                                   *)
CurrentReport ==
  [mods |-> (down \cap {Shift, Ctrl}) \cup
              {m \in {Shift} : \E j \in 1..Least(Slots, Len(Held)) : Held[j] \in Shifted},
   codes |-> ToSet(SubSeq(Packed, 1, Least(Slots, Len(Packed))))]

Typing(k) ==
  [j \in 1..2*Len(Text[k]) |-> IF j % 2 = 1 THEN Text[k][(j + 1) \div 2] ELSE NoReport]

(* A code that the report before holds already does not go down again: a key *)
(* is held whose code is that of the first character.                        *)
Masks(r, k) == Head(Text[k]).codes \subseteq r.codes

(* C division rounds toward zero.                                            *)
Halved(d) == IF d < 0 THEN -((-d) \div 2) ELSE d \div 2
Clipped(d) == IF d > Clip THEN Clip ELSE IF d < -Clip THEN -Clip ELSE d

-----------------------------------------------------------------------------
(* The endpoints: send_keyboard_report and send_mouse_report.               *)

Primed(ep, x) == {[ep EXCEPT !.primed = <<x>>]} \cup (IF ep.primed = <<>> THEN {} ELSE {ep})
Polled == configured /\ awake
Awaited(ep) == ep.done \/ ~Polled
Ended(ep) == [ep EXCEPT !.done = FALSE]

-----------------------------------------------------------------------------
(* hid_scan_keyboard.                                                       *)

ScanKeys ==
  /\ pc = "scan"
  /\ report' = CurrentReport /\ left' = TextOrder
  /\ IF report' = last
       THEN pc' = "strings" /\ UNCHANGED kbd
       ELSE pc' = "keys" /\ kbd' \in Primed(kbd, report')
  /\ UNCHANGED <<user, last, wasDown, todo, prev, flip, combo, idle, mouse, host, seen, history>>

(* The report counts as sent however the wait ended.                         *)
KeysSent ==
  /\ pc = "keys" /\ Awaited(kbd)
  /\ kbd' = Ended(kbd) /\ last' = report /\ pc' = "strings"
  /\ missed' = (missed \/ ~kbd.done)
  /\ UNCHANGED <<user, report, wasDown, left, todo, prev, flip, combo, idle, mouse, host, seen,
                 owed, masked, travel, fresh, again>>

\* Mutant: a text key is typed on every scan while it is held.
ScanStringLevel ==
  /\ pc = "strings" /\ left # <<>>
  /\ LET k == Head(left)
     IN  /\ wasDown' = IF k \in down THEN wasDown \cup {k} ELSE wasDown \ {k}
         /\ todo' = IF k \in down THEN Typing(k) ELSE <<>>
         /\ owed' = IF k \in down \ wasDown THEN owed \o Text[k] ELSE owed
         /\ masked' = (masked \/ (k \in down \ wasDown /\ Masks(last, k)))
         /\ pc' = IF k \in down THEN "type" ELSE "strings"
         /\ Len(typed) < 6
  /\ left' = Tail(left)
  /\ UNCHANGED <<user, report, last, prev, flip, combo, idle, kbd, mouse, host, seen,
                 missed, travel, fresh, again>>

ScanString ==
  /\ pc = "strings" /\ left # <<>>
  /\ LET k == Head(left)
         edge == k \in down /\ k \notin wasDown
     IN  /\ wasDown' = IF k \in down THEN wasDown \cup {k} ELSE wasDown \ {k}
         /\ todo' = IF edge THEN Typing(k) ELSE <<>>
         /\ owed' = IF edge THEN owed \o Text[k] ELSE owed
         /\ masked' = (masked \/ (edge /\ Masks(last, k)))
         /\ pc' = IF edge THEN "type" ELSE "strings"
  /\ left' = Tail(left)
  /\ UNCHANGED <<user, report, last, prev, flip, combo, idle, kbd, mouse, host, seen,
                 missed, travel, fresh, again>>

(* hid_type_string: for each character a report, then an empty one.          *)
Type ==
  /\ pc = "type" /\ todo # <<>>
  /\ kbd' \in Primed(kbd, Head(todo)) /\ pc' = "typed"
  /\ UNCHANGED <<user, program, mouse, host, seen, history>>

\* Mutant: the reports of typed text are not remembered as sent.
TypedUntracked ==
  /\ pc = "typed" /\ Awaited(kbd)
  /\ kbd' = Ended(kbd) /\ todo' = Tail(todo)
  /\ pc' = IF todo' = <<>> THEN "strings" ELSE "type"
  /\ missed' = (missed \/ ~kbd.done)
  /\ UNCHANGED <<user, report, last, wasDown, left, prev, flip, combo, idle, mouse, host, seen,
                 owed, masked, travel, fresh, again>>

Typed ==
  /\ pc = "typed" /\ Awaited(kbd)
  /\ kbd' = Ended(kbd) /\ last' = Head(todo) /\ todo' = Tail(todo)
  /\ pc' = IF todo' = <<>> THEN "strings" ELSE "type"
  /\ missed' = (missed \/ ~kbd.done)
  /\ UNCHANGED <<user, report, wasDown, left, prev, flip, combo, idle, mouse, host, seen,
                 owed, masked, travel, fresh, again>>

StringsScanned ==
  /\ pc = "strings" /\ left = <<>>
  /\ pc' = "touch"
  /\ UNCHANGED <<user, program, kbd, mouse, host, seen, history>>

-----------------------------------------------------------------------------
(* hid_scan_touchpad.                                                       *)

\* Mutant: a lifted finger keeps its last position.
ScanTouchpadHolding ==
  /\ pc = "touch"
  /\ LET toggle == {Shift, Ctrl} \subseteq down /\ finger.click
         flipped == IF toggle /\ ~combo THEN ~flip ELSE flip
         d == IF finger.contact /\ prev.have THEN finger.y - prev.y ELSE 0
         r == [button |-> finger.click, dy |-> Clipped(Halved(IF flipped THEN -d ELSE d))]
     IN  /\ flip' = flipped /\ combo' = toggle
         /\ prev' = IF finger.contact THEN [have |-> TRUE, y |-> finger.y] ELSE prev
         /\ IF r = Still /\ idle
              THEN pc' = "turn" /\ UNCHANGED <<idle, mouse>>
              ELSE pc' = "mouse" /\ idle' = (r = Still) /\ mouse' \in Primed(mouse, r)
  /\ unseen' = FALSE
  /\ UNCHANGED <<down, finger, changes, report, last, wasDown, left, todo, kbd, host, seen, history>>

\* Mutant: an idle report is never sent.
ScanTouchpadSilent ==
  /\ pc = "touch"
  /\ LET toggle == {Shift, Ctrl} \subseteq down /\ finger.click
         flipped == IF toggle /\ ~combo THEN ~flip ELSE flip
         d == IF finger.contact /\ prev.have THEN finger.y - prev.y ELSE 0
         r == [button |-> finger.click, dy |-> Clipped(Halved(IF flipped THEN -d ELSE d))]
     IN  /\ flip' = flipped /\ combo' = toggle
         /\ prev' = IF finger.contact THEN [have |-> TRUE, y |-> finger.y]
                                      ELSE [prev EXCEPT !.have = FALSE]
         /\ idle' = (r = Still)
         /\ IF r = Still
              THEN pc' = "turn" /\ UNCHANGED mouse
              ELSE pc' = "mouse" /\ mouse' \in Primed(mouse, r)
  /\ unseen' = FALSE
  /\ UNCHANGED <<down, finger, changes, report, last, wasDown, left, todo, kbd, host, seen, history>>

ScanTouchpad ==
  /\ pc = "touch"
  /\ LET toggle == {Shift, Ctrl} \subseteq down /\ finger.click
         flipped == IF toggle /\ ~combo THEN ~flip ELSE flip
         d == IF finger.contact /\ prev.have THEN finger.y - prev.y ELSE 0
         r == [button |-> finger.click, dy |-> Clipped(Halved(IF flipped THEN -d ELSE d))]
     IN  /\ flip' = flipped /\ combo' = toggle
         /\ prev' = IF finger.contact THEN [have |-> TRUE, y |-> finger.y]
                                      ELSE [prev EXCEPT !.have = FALSE]
         /\ IF r = Still /\ idle
              THEN pc' = "turn" /\ UNCHANGED <<idle, mouse>>
              ELSE pc' = "mouse" /\ idle' = (r = Still) /\ mouse' \in Primed(mouse, r)
  /\ unseen' = FALSE
  /\ UNCHANGED <<down, finger, changes, report, last, wasDown, left, todo, kbd, host, seen, history>>

MouseSent ==
  /\ pc = "mouse" /\ Awaited(mouse)
  /\ mouse' = Ended(mouse) /\ pc' = "turn"
  /\ missed' = (missed \/ ~mouse.done)
  /\ UNCHANGED <<user, program, kbd, host, seen, owed, masked, travel, fresh, again>>

(* The rest of the turn: the control endpoint, which may configure the       *)
(* device and flushes the endpoints then.                                    *)
Turn ==
  /\ pc = "turn"
  /\ pc' = "scan"
  /\ \/ UNCHANGED <<configured, kbd, mouse>>
     \/ /\ ~configured /\ configured' = TRUE
        /\ kbd' = [kbd EXCEPT !.primed = <<>>] /\ mouse' = [mouse EXCEPT !.primed = <<>>]
  /\ UNCHANGED <<user, program, awake, sleeps, seen, history>>

-----------------------------------------------------------------------------
(* The host.                                                                *)

FetchKeys ==
  /\ Polled /\ kbd.primed # <<>>
  /\ LET r == Head(kbd.primed)
         new == r.codes \ shown.codes
         keys == {k \in Keys : ToSet(Codes[k]) \cap new # {}}
     IN  /\ shown' = r
         /\ typed' = IF pc = "typed" /\ new # {} THEN Append(typed, r) ELSE typed
         /\ again' = (again \/ keys \cap down \cap fresh # keys \cap down)
         /\ fresh' = fresh \ keys
  /\ kbd' = [primed |-> <<>>, done |-> TRUE]
  /\ UNCHANGED <<user, pc, program, mouse, host, buttons, moved, missed, owed, masked, travel>>

FetchMouse ==
  /\ Polled /\ mouse.primed # <<>>
  /\ LET r == Head(mouse.primed)
     IN  buttons' = r.button /\ moved' = moved + Distance(0, r.dy)
  /\ mouse' = [primed |-> <<>>, done |-> TRUE]
  /\ UNCHANGED <<user, pc, program, kbd, host, shown, typed, history>>

Sleep ==
  /\ Polled /\ sleeps < MaxSleeps
  /\ awake' = FALSE /\ sleeps' = sleeps + 1
  /\ UNCHANGED <<user, pc, program, kbd, mouse, configured, seen, history>>

Wake ==
  /\ ~awake /\ awake' = TRUE
  /\ UNCHANGED <<user, pc, program, kbd, mouse, configured, sleeps, seen, history>>

-----------------------------------------------------------------------------
(* The user.                                                                *)

Changing == changes < MaxChanges /\ changes' = changes + 1

Press(k) ==
  /\ Changing /\ k \notin down
  /\ down' = down \cup {k} /\ fresh' = fresh \cup {k}
  /\ UNCHANGED <<finger, unseen, pc, program, kbd, mouse, host, seen, missed, owed, masked, travel, again>>

Release(k) ==
  /\ Changing /\ k \in down
  /\ down' = down \ {k} /\ fresh' = fresh \ {k}
  /\ UNCHANGED <<finger, unseen, pc, program, kbd, mouse, host, seen, missed, owed, masked, travel, again>>

Touch(y) ==
  /\ Changing
  /\ Quick \/ ~unseen
  /\ finger' = [finger EXCEPT !.contact = TRUE, !.y = y]
  /\ travel' = travel + IF finger.contact THEN Distance(finger.y, y) ELSE 0
  /\ UNCHANGED <<down, unseen, pc, program, kbd, mouse, host, seen, missed, owed, masked, fresh, again>>

Lift ==
  /\ Changing /\ finger.contact
  /\ finger' = [finger EXCEPT !.contact = FALSE] /\ unseen' = TRUE
  /\ UNCHANGED <<down, pc, program, kbd, mouse, host, seen, history>>

Click ==
  /\ Changing
  /\ finger' = [finger EXCEPT !.click = ~@]
  /\ UNCHANGED <<down, unseen, pc, program, kbd, mouse, host, seen, history>>

-----------------------------------------------------------------------------
Scans ==
  \/ ScanKeys \/ KeysSent \/ ScanString \/ Type \/ Typed \/ StringsScanned
  \/ ScanTouchpad \/ MouseSent \/ Turn
Next ==
  \/ Scans \/ FetchKeys \/ FetchMouse \/ Sleep \/ Wake
  \/ \E k \in Keys \cup Texts \cup {Shift, Ctrl} : Press(k) \/ Release(k)
  \/ \E y \in 0..Reach : Touch(y)
  \/ Lift \/ Click

(* The loop keeps turning, and a host that is awake polls both endpoints.    *)
Spec ==
  /\ Init /\ [][Next]_vars
  /\ WF_vars(Scans) /\ WF_vars(FetchKeys) /\ WF_vars(FetchMouse)

-----------------------------------------------------------------------------
(* The variables have their types, and a report never has more codes than    *)
(* slots, whatever is held.                                                  *)
TypeOK ==
  /\ pc \in {"scan", "keys", "strings", "type", "typed", "touch", "mouse", "turn"}
  /\ \A r \in {report, last, shown} :
       r.mods \subseteq {Shift, Ctrl} /\ Cardinality(r.codes) <= Slots
  /\ wasDown \subseteq Texts /\ prev.y \in 0..Reach /\ kbd.done \in BOOLEAN
  /\ \A x \in ToSet(mouse.primed) : x.dy \in -Clip..Clip

(* What GET_REPORT would answer in the control part of a turn is what the    *)
(* host has seen, unless a report was ever given up.                         *)
LastIsShown == pc = "turn" /\ ~missed => last = shown

(* Text arrives in full, in order and with its shift, each character once    *)
(* per key press, also when it is typed between other reports; but the host  *)
(* takes no character for typed whose code it saw go down before.            *)
TextArrives == pc = "turn" /\ ~missed /\ ~masked => typed = owed

(* The pointer never moves further than the finger did: lifting it and       *)
(* putting it down elsewhere is no movement, whatever reports were lost.     *)
PointerFollows == 2 * moved <= travel

(* When the user stops, the host comes to see the keys that are held and the *)
(* state of the button, unless a report was given up.                        *)
Settles == <>[](missed \/ (shown = CurrentReport /\ buttons = finger.click))

(* Text is independent of the keys that are held.                            *)
TextWhole == pc = "turn" /\ ~missed => typed = owed

(* A key the user holds goes down once.                                      *)
HeldExactly == ~again
=============================================================================
