----------------------------- MODULE HidProofs ------------------------------
(***************************************************************************)
(* Proofs about Hid, for every key map, every text, every clip and every   *)
(* size of the touchpad: what the program believes it has sent is what the *)
(* host saw, and the pointer does not run ahead of the finger.             *)
(***************************************************************************)
EXTENDS Hid, SequenceTheorems, TLAPS

-----------------------------------------------------------------------------
(* The keyboard's endpoint is free whenever no report is on its way, unless *)
(* a report was given up.                                                   *)

Sending(r) ==
  \/ kbd = [primed |-> <<r>>, done |-> FALSE]
  \/ kbd = [primed |-> <<>>, done |-> TRUE] /\ shown = r
SentInv ==
  ~missed =>
    /\ pc = "keys" => Sending(report)
    /\ pc = "typed" => Sending(Head(todo))
    /\ pc \notin {"keys", "typed"} => kbd = Free /\ last = shown

LEMMA PrimedAnew ==
  ASSUME NEW s, NEW e, NEW ep, ep = [primed |-> e, done |-> FALSE]
  PROVE  [ep EXCEPT !.primed = s] = [primed |-> s, done |-> FALSE]
  OBVIOUS

LEMMA PrimedFree ==
  ASSUME NEW r
  PROVE  Primed(Free, r) = {[primed |-> <<r>>, done |-> FALSE]}
<1>1. Free = [primed |-> <<>>, done |-> FALSE] /\ Free.primed = <<>>
  BY DEF Free
<1>2. [Free EXCEPT !.primed = <<r>>] = [primed |-> <<r>>, done |-> FALSE]
  BY <1>1, PrimedAnew
<1> QED
  BY <1>1, <1>2 DEF Primed

\* A report is sent: only this one can be on the endpoint.
LEMMA SendStep ==
  ASSUME SentInv, ScanKeys \/ Type
  PROVE  SentInv'
<1> SUFFICES ASSUME ~missed PROVE SentInv'
  BY DEF ScanKeys, Type, SentInv, history
<1>1. missed' = missed /\ shown' = shown /\ last' = last /\ kbd = Free /\ last = shown
  BY DEF ScanKeys, Type, SentInv, history, program, seen
<1>2. CASE ScanKeys
  <2>1. \/ pc' = "strings" /\ kbd' = kbd
        \/ pc' = "keys" /\ kbd' = [primed |-> <<report'>>, done |-> FALSE]
    BY <1>1, <1>2, PrimedFree DEF ScanKeys
  <2> QED
    BY <1>1, <2>1 DEF SentInv, Sending
<1>3. CASE Type
  <2>1. pc' = "typed" /\ kbd' = [primed |-> <<Head(todo)>>, done |-> FALSE] /\ todo' = todo
    BY <1>1, <1>3, PrimedFree DEF Type, program
  <2> QED
    BY <1>1, <2>1 DEF SentInv, Sending
<1> QED
  BY <1>2, <1>3

\* A wait that ends with the completion bit ends with the host having the report.
LEMMA SentStep ==
  ASSUME SentInv, KeysSent \/ Typed
  PROVE  SentInv'
<1> SUFFICES ASSUME ~missed' PROVE SentInv'
  BY DEF SentInv
<1>1. ~missed /\ kbd.done /\ kbd' = Ended(kbd) /\ shown' = shown /\ pc' \notin {"keys", "typed"}
  BY DEF KeysSent, Typed, seen
<1>2. \/ pc = "keys" /\ last' = report
      \/ pc = "typed" /\ last' = Head(todo)
  BY DEF KeysSent, Typed
<1>3. kbd = [primed |-> <<>>, done |-> TRUE] /\ shown = last'
  BY <1>1, <1>2 DEF SentInv, Sending
<1>4. kbd' = Free
  BY <1>1, <1>3 DEF Ended, Free
<1> QED
  BY <1>1, <1>3, <1>4 DEF SentInv

LEMMA SentElsewhere ==
  ASSUME SentInv,
         \/ ScanString \/ StringsScanned \/ ScanTouchpad \/ MouseSent \/ Turn
         \/ FetchMouse \/ Sleep \/ Wake \/ Lift \/ Click \/ UNCHANGED vars
         \/ \E k \in Keys \cup Texts \cup {Shift, Ctrl} : Press(k) \/ Release(k)
         \/ \E y \in 0..Reach : Touch(y)
  PROVE  SentInv'
<1>1. CASE MouseSent
  BY <1>1 DEF MouseSent, SentInv, Sending, program, seen
<1>2. CASE Turn
  <2>1. missed' = missed /\ pc = "turn" /\ pc' = "scan" /\ last' = last /\ shown' = shown
        /\ (kbd' = kbd \/ kbd' = [kbd EXCEPT !.primed = <<>>])
    BY <1>2 DEF Turn, program, seen, history
  <2> QED
    BY <2>1 DEF SentInv, Free
<1>3. CASE ScanString \/ StringsScanned \/ ScanTouchpad
  <2>1. missed' = missed /\ last' = last /\ shown' = shown /\ kbd' = kbd
        /\ pc \notin {"keys", "typed"} /\ pc' \notin {"keys", "typed"}
    BY <1>3 DEF ScanString, StringsScanned, ScanTouchpad, program, seen, history
  <2> QED
    BY <2>1 DEF SentInv
<1>4. CASE \/ FetchMouse \/ Sleep \/ Wake \/ Lift \/ Click \/ UNCHANGED vars
           \/ \E k \in Keys \cup Texts \cup {Shift, Ctrl} : Press(k) \/ Release(k)
           \/ \E y \in 0..Reach : Touch(y)
  <2>1. UNCHANGED <<missed, pc, last, shown, kbd, report, todo>>
    BY <1>4 DEF FetchMouse, Sleep, Wake, Lift, Click, Press, Release, Touch, vars, program, seen, history
  <2> QED
    BY <2>1 DEF SentInv, Sending
<1> QED
  BY <1>1, <1>2, <1>3, <1>4

LEMMA SentFetched ==
  ASSUME SentInv, FetchKeys
  PROVE  SentInv'
<1>1. UNCHANGED <<missed, pc, last, report, todo>> /\ kbd.primed # <<>>
      /\ shown' = Head(kbd.primed) /\ kbd' = [primed |-> <<>>, done |-> TRUE]
  BY DEF FetchKeys, program
<1> SUFFICES ASSUME ~missed PROVE SentInv'
  BY <1>1 DEF SentInv
<1>2. pc \in {"keys", "typed"}
  BY <1>1 DEF SentInv, Free
<1>3. \A r : Sending(r) => shown' = r
  BY <1>1 DEF Sending
<1> QED
  BY <1>1, <1>2, <1>3 DEF SentInv, Sending

(* After every turn in which no report was given up, hid_last_keyboard_report *)
(* (which GET_REPORT would return) is what the host saw last, with text typed *)
(* in between and the host suspended at any moment.                          *)
THEOREM LastReportIsShown == Spec => []LastIsShown
<1>1. Init => SentInv
  BY DEF Init, SentInv, Free
<1>2. SentInv /\ [Next]_vars => SentInv'
  BY SendStep, SentStep, SentElsewhere, SentFetched DEF Next, Scans
<1>3. SentInv => LastIsShown
  BY DEF SentInv, LastIsShown
<1> QED
  BY <1>1, <1>2, <1>3, PTL DEF Spec

-----------------------------------------------------------------------------
(* Text: what the host has seen go down and the characters still to be typed *)
(* are together what is owed.                                                *)

Reports(k) == 2 * Len(Text[k])
Rest(k, i) == SubSeq(Typing(k), i, Reports(k))
From(k, c) == SubSeq(Text[k], c, Len(Text[k]))
Odd(i) == i % 2 = 1

\* The i-th report of text k is the next to be sent, or the one on its way or seen.
At(k, i) ==
  /\ i \in 1..Reports(k) /\ todo = Rest(k, i)
  /\ owed = typed \o From(k, IF kbd.done THEN (i + 1) \div 2 + 1 ELSE i \div 2 + 1)
  /\ ~kbd.done /\ Odd(i) => ~(Text[k][(i + 1) \div 2].codes \subseteq shown.codes)
Typewriting ==
  /\ typed \in Seq(Characters)
  /\ IF pc \in {"type", "typed"} THEN \E k \in Texts : \E i \in Int : At(k, i) ELSE typed = owed
TextInv == left \in Seq(Texts) /\ (~missed /\ ~masked => Typewriting)

LEMMA TextsAre ==
  ASSUME NEW k \in Texts
  PROVE  /\ Text[k] \in Seq(Characters) /\ Len(Text[k]) \in Nat \ {0}
         /\ \A c \in 1..Len(Text[k]) : Text[k][c] \in Characters /\ Text[k][c].codes # {}
<1>1. Text[k] \in Seq(Characters) /\ Text[k] # <<>>
  BY TextAssumption
<1>2. \A c \in Characters : c.codes # {}
  BY TextAssumption
<1>3. Len(Text[k]) \in Nat \ {0}
  BY <1>1, EmptySeq
<1> QED
  BY <1>1, <1>2, <1>3, ElementOfSeq

\* The reports of a text alternate.
LEMMA TypingIs ==
  ASSUME NEW k \in Texts
  PROVE  /\ Typing(k) \in Seq(Characters \cup {NoReport})
         /\ Len(Typing(k)) = Reports(k) /\ Reports(k) \in Nat \ {0}
         /\ \A i \in 1..Reports(k) :
              /\ Odd(i) => (i + 1) \div 2 \in 1..Len(Text[k]) /\ Typing(k)[i] = Text[k][(i + 1) \div 2]
              /\ ~Odd(i) => Typing(k)[i] = NoReport
<1>1. Len(Text[k]) \in Nat \ {0} /\ Reports(k) \in Nat \ {0}
  BY TextsAre DEF Reports
<1>2. \A i \in 1..Reports(k) : Odd(i) => (i + 1) \div 2 \in 1..Len(Text[k])
  BY <1>1 DEF Reports, Odd
<1>3. Typing(k) = [i \in 1..Reports(k) |-> IF Odd(i) THEN Text[k][(i + 1) \div 2] ELSE NoReport]
  BY DEF Typing, Reports, Odd
<1>4. \A i \in 1..Reports(k) : Typing(k)[i] \in Characters \cup {NoReport}
  BY <1>2, <1>3, TextsAre
<1>5. Typing(k) \in [1..Reports(k) -> Characters \cup {NoReport}]
  BY <1>3, <1>4
<1>6. Typing(k) \in Seq(Characters \cup {NoReport})
  BY <1>1, <1>5, SeqDef
<1>7. DOMAIN Typing(k) = 1..Reports(k) /\ DOMAIN Typing(k) = 1..Len(Typing(k)) /\ Len(Typing(k)) \in Nat
  BY <1>5, <1>6, LenProperties
<1>8. Len(Typing(k)) = Reports(k)
  BY <1>1, <1>7
<1>9. \A i \in 1..Reports(k) :
        Typing(k)[i] = IF Odd(i) THEN Text[k][(i + 1) \div 2] ELSE NoReport
  BY <1>3
<1> QED
  BY <1>1, <1>2, <1>6, <1>8, <1>9

LEMMA RestIs ==
  ASSUME NEW k \in Texts, NEW i \in 1..Reports(k)
  PROVE  /\ Head(Rest(k, i)) = Typing(k)[i] /\ Tail(Rest(k, i)) = Rest(k, i + 1)
         /\ Rest(k, 1) = Typing(k) /\ Rest(k, Reports(k) + 1) = <<>> /\ Rest(k, i) # <<>>
<1> DEFINE n == Reports(k)
           s == Typing(k)
<1>1. s \in Seq(Characters \cup {NoReport}) /\ Len(s) = n /\ n \in Nat \ {0}
  BY TypingIs
<1> HIDE DEF s, n
<1>2. i \in 1..Len(s) /\ n \in i..Len(s)
  BY <1>1 DEF n
<1>3. Head(SubSeq(s, i, n)) = s[i] /\ Tail(SubSeq(s, i, n)) = SubSeq(s, i + 1, n)
  BY <1>1, <1>2, HeadTailOfSubSeq
<1>4. SubSeq(s, 1, n) = s
  BY <1>1, SubSeqFull
<1>5. SubSeq(s, n + 1, n) = <<>>
  BY <1>1, SubSeqEmpty
<1>6. SubSeq(s, i, n) # <<>>
  <2>1. \A j \in i..n : s[j] \in Characters \cup {NoReport}
    BY <1>1, <1>2, ElementOfSeq
  <2>2. Len(SubSeq(s, i, n)) = n - i + 1
    BY <1>1, <1>2, <2>1, SubSeqProperties
  <2>3. Len(SubSeq(s, i, n)) # 0
    BY <1>1, <1>2, <2>2
  <2> QED
    BY <2>3, EmptySeq
<1> QED
  BY <1>3, <1>4, <1>5, <1>6 DEF Rest, s, n

LEMMA FromIs ==
  ASSUME NEW k \in Texts
  PROVE  /\ From(k, 1) = Text[k] /\ From(k, Len(Text[k]) + 1) = <<>>
         /\ \A c \in 1..Len(Text[k]) :
              From(k, c) = <<Text[k][c]>> \o From(k, c + 1) /\ From(k, c + 1) \in Seq(Characters)
<1> DEFINE n == Len(Text[k])
           s == Text[k]
<1>1. s \in Seq(Characters) /\ Len(s) = n /\ n \in Nat \ {0}
  BY TextsAre
<1> HIDE DEF s, n
<1>2. SubSeq(s, 1, n) = s /\ SubSeq(s, n + 1, n) = <<>>
  BY <1>1, SubSeqFull, SubSeqEmpty
<1>3. ASSUME NEW c \in 1..n
      PROVE  SubSeq(s, c, n) = <<s[c]>> \o SubSeq(s, c + 1, n) /\ SubSeq(s, c + 1, n) \in Seq(Characters)
  <2>1. c \in 1..Len(s) /\ n \in c..Len(s) /\ c + 1 \in Int /\ n \in Int
    BY <1>1
  <2>2. \A j \in (c + 1)..n : s[j] \in Characters
    BY <1>1, ElementOfSeq
  <2>3. SubSeq(s, c, n) = <<s[c]>> \o SubSeq(s, c + 1, n)
    BY <1>1, <2>1, SubSeqRecursiveFirst
  <2>4. SubSeq(s, c + 1, n) \in Seq(Characters)
    BY <2>1, <2>2, SubSeqProperties
  <2> QED
    BY <2>3, <2>4
<1> QED
  BY <1>1, <1>2, <1>3 DEF From, s, n

\* The rising edge of a text key, whose first character no key hides.
LEMMA TextStarts ==
  ASSUME SentInv, TextInv, ScanString
  PROVE  TextInv'
<1>0. PICK k \in Texts : k = Head(left) /\ Tail(left) \in Seq(Texts)
  BY HeadTailProperties DEF ScanString, TextInv
<1> DEFINE edge == k \in down /\ k \notin wasDown
<1>1. /\ pc = "strings" /\ left # <<>> /\ left' = Tail(left)
      /\ pc' = IF edge THEN "type" ELSE "strings"
      /\ todo' = IF edge THEN Typing(k) ELSE <<>>
      /\ owed' = IF edge THEN owed \o Text[k] ELSE owed
      /\ masked' = (masked \/ (edge /\ Masks(last, k)))
      /\ UNCHANGED <<kbd, shown, typed, missed>>
  BY <1>0 DEF ScanString, seen
<1>2. k \in Texts /\ left' \in Seq(Texts)
  BY <1>0, <1>1
<1> HIDE DEF edge
<1>3. SUFFICES ASSUME ~missed', ~masked' PROVE Typewriting'
  BY <1>2 DEF TextInv
<1>4. ~missed /\ ~masked /\ typed \in Seq(Characters) /\ typed = owed /\ kbd = Free /\ last = shown
  BY <1>1, <1>3 DEF TextInv, Typewriting, SentInv
<1>5. CASE ~edge
  BY <1>1, <1>4, <1>5 DEF Typewriting
<1>6. CASE edge
  <2>1. 1 \in 1..Reports(k) /\ todo' = Rest(k, 1)
    BY <1>1, <1>2, <1>6, TypingIs, RestIs
  <2>2. owed' = typed' \o From(k, 1)
    BY <1>1, <1>2, <1>4, <1>6, FromIs
  <2>3. ~kbd'.done
    BY <1>1, <1>4 DEF Free
  <2>4. Head(Text[k]) = Text[k][1]
    OBVIOUS
  <2>5. ~(Text[k][1].codes \subseteq shown.codes)
    BY <1>1, <1>3, <1>4, <1>6, <2>4 DEF Masks
  <2>6. At(k, 1)'
    <3>1. (1 + 1) \div 2 = 1 /\ 1 \div 2 + 1 = 1
      OBVIOUS
    <3> QED
      BY <1>1, <2>1, <2>2, <2>3, <2>5, <3>1 DEF At, Rest, Reports, From, Typing
  <2> QED
    BY <1>1, <1>2, <1>4, <1>6, <2>6 DEF Typewriting
<1> QED
  BY <1>5, <1>6

LEMMA TextSent ==
  ASSUME SentInv, TextInv, Type
  PROVE  TextInv'
<1>1. /\ pc = "type" /\ pc' = "typed" /\ kbd' \in Primed(kbd, Head(todo))
      /\ UNCHANGED <<left, todo, owed, typed, shown, missed, masked>>
  BY DEF Type, program, seen, history
<1> SUFFICES ASSUME ~missed, ~masked PROVE Typewriting'
  BY <1>1 DEF TextInv
<1>2. typed \in Seq(Characters) /\ kbd = Free
  BY <1>1 DEF TextInv, Typewriting, SentInv
<1>3. PICK k \in Texts, i \in Int : At(k, i)
  BY <1>1 DEF TextInv, Typewriting
<1>4. ~kbd.done /\ ~kbd'.done
  BY <1>1, <1>2, PrimedFree DEF Free
<1>5. At(k, i)'
  BY <1>1, <1>3, <1>4 DEF At, Rest, Reports, From, Typing
<1> QED
  BY <1>1, <1>2, <1>3, <1>5 DEF Typewriting

\* The host fetches a report: a character goes down, or what was down is released.
LEMMA TextFetched ==
  ASSUME SentInv, TextInv, FetchKeys
  PROVE  TextInv'
<1> DEFINE r == Head(kbd.primed)
<1>1. /\ UNCHANGED <<left, todo, pc, owed, missed, masked>> /\ kbd.primed # <<>> /\ shown' = r
      /\ typed' = IF pc = "typed" /\ r.codes \ shown.codes # {} THEN Append(typed, r) ELSE typed
      /\ kbd' = [primed |-> <<>>, done |-> TRUE]
  BY DEF FetchKeys, program
<1> SUFFICES ASSUME ~missed, ~masked PROVE Typewriting'
  BY <1>1 DEF TextInv
<1>2. typed \in Seq(Characters)
  BY DEF TextInv, Typewriting
<1>3. pc \in {"keys", "typed"}
  BY <1>1 DEF SentInv, Free
<1>4. CASE pc = "keys"
  BY <1>1, <1>2, <1>4 DEF TextInv, Typewriting
<1>5. CASE pc = "typed"
  <2>1. kbd = [primed |-> <<Head(todo)>>, done |-> FALSE]
    BY <1>1, <1>5 DEF SentInv, Sending
  <2>2. r = Head(todo) /\ ~kbd.done /\ kbd'.done
    BY <1>1, <2>1
  <2> HIDE DEF r
  <2>3. PICK k \in Texts, i \in Int : At(k, i)
    BY <1>5 DEF TextInv, Typewriting
  <2>4. i \in 1..Reports(k) /\ r = Typing(k)[i]
    BY <2>2, <2>3, RestIs DEF At
  <2>5. owed = typed \o From(k, i \div 2 + 1)
    BY <2>2, <2>3 DEF At
  <2>6. typed' \in Seq(Characters) /\ owed = typed' \o From(k, (i + 1) \div 2 + 1)
    <3>1. CASE Odd(i)
      <4> DEFINE c == (i + 1) \div 2
      <4>1. c \in 1..Len(Text[k]) /\ r = Text[k][c] /\ i \div 2 + 1 = c
        BY <2>4, <3>1, TypingIs DEF Odd
      <4>2. ~(r.codes \subseteq shown.codes)
        BY <2>2, <2>3, <3>1, <4>1 DEF At
      <4> HIDE DEF c
      <4>3. typed' = Append(typed, r)
        BY <1>1, <1>5, <4>2
      <4>4. r \in Characters /\ <<r>> \in Seq(Characters)
        BY <4>1, TextsAre
      <4>5. typed' = typed \o <<r>> /\ typed' \in Seq(Characters)
        BY <1>2, <4>3, <4>4
      <4>6. From(k, c) = <<r>> \o From(k, c + 1) /\ From(k, c + 1) \in Seq(Characters)
        BY <4>1, FromIs
      <4>7. (typed \o <<r>>) \o From(k, c + 1) = typed \o (<<r>> \o From(k, c + 1))
        BY <1>2, <4>4, <4>6, ConcatAssociative
      <4> QED
        BY <2>5, <4>1, <4>5, <4>6, <4>7 DEF c
    <3>2. CASE ~Odd(i)
      <4>1. r = NoReport /\ i \div 2 = (i + 1) \div 2
        BY <2>4, <3>2, TypingIs DEF Odd
      <4>2. typed' = typed
        BY <1>1, <4>1 DEF NoReport
      <4> QED
        BY <1>2, <2>5, <4>1, <4>2
    <3> QED
      BY <3>1, <3>2
  <2>7. At(k, i)'
    BY <1>1, <2>2, <2>3, <2>6 DEF At, Rest, Reports, From, Typing
  <2> QED
    BY <1>1, <1>5, <2>6, <2>7 DEF Typewriting
<1> QED
  BY <1>3, <1>4, <1>5

\* A wait ends with the report seen: the next one's turn.
LEMMA TextAdvances ==
  ASSUME SentInv, TextInv, Typed
  PROVE  TextInv'
<1>1. /\ pc = "typed" /\ kbd' = Ended(kbd) /\ todo' = Tail(todo)
      /\ pc' = IF todo' = <<>> THEN "strings" ELSE "type"
      /\ missed' = (missed \/ ~kbd.done)
      /\ UNCHANGED <<left, owed, typed, shown, masked>>
  BY DEF Typed, seen
<1> SUFFICES ASSUME ~missed', ~masked PROVE Typewriting'
  BY <1>1 DEF TextInv
<1>2. ~missed /\ kbd.done /\ typed \in Seq(Characters)
  BY <1>1 DEF TextInv, Typewriting
<1>3. PICK k \in Texts, i \in Int : At(k, i)
  BY <1>1, <1>2 DEF TextInv, Typewriting
<1>4. kbd = [primed |-> <<>>, done |-> TRUE] /\ shown = Head(todo)
  BY <1>1, <1>2 DEF SentInv, Sending
<1>5. ~kbd'.done
  BY <1>1, <1>4 DEF Ended
<1>6. /\ i \in 1..Reports(k) /\ shown = Typing(k)[i] /\ todo' = Rest(k, i + 1)
      /\ owed = typed \o From(k, (i + 1) \div 2 + 1)
  BY <1>1, <1>2, <1>3, <1>4, RestIs DEF At
<1>7. PICK n \in Nat \ {0} : n = Len(Text[k]) /\ Reports(k) = 2 * n
  BY TextsAre DEF Reports
<1>8. CASE i = Reports(k)
  <2>1. todo' = <<>> /\ pc' = "strings"
    BY <1>1, <1>6, <1>8, RestIs
  <2>2. (i + 1) \div 2 + 1 = Len(Text[k]) + 1
    <3>1. i = 2 * n
      BY <1>7, <1>8
    <3>2. (2 * n + 1) \div 2 + 1 = n + 1
      OBVIOUS
    <3> QED
      BY <1>7, <3>1, <3>2
  <2>3. owed = typed
    BY <1>2, <1>6, <2>2, FromIs, ConcatEmptySeq
  <2> QED
    BY <1>1, <1>2, <2>1, <2>3 DEF Typewriting
<1>9. CASE i # Reports(k)
  <2>1. i + 1 \in 1..Reports(k)
    <3>1. i \in 1..(2 * n) /\ i # 2 * n
      BY <1>6, <1>7, <1>9
    <3>2. i + 1 \in 1..(2 * n)
      BY <3>1
    <3> QED
      BY <1>7, <3>2
  <2>2. todo' # <<>> /\ pc' = "type"
    BY <1>1, <1>6, <2>1, RestIs
  <2>3. ASSUME Odd(i + 1)
        PROVE  ~(Text[k][(i + 1 + 1) \div 2].codes \subseteq shown.codes)
    <3>1. ~Odd(i)
      BY <1>6, <2>3 DEF Odd
    <3>2. shown.codes = {}
      BY <1>6, <3>1, TypingIs DEF NoReport
    <3>3. (i + 1 + 1) \div 2 \in 1..Len(Text[k])
      BY <2>1, <2>3, TypingIs
    <3> QED
      BY <3>2, <3>3, TextsAre
  <2>4. At(k, i + 1)'
    BY <1>1, <1>5, <1>6, <2>1, <2>3 DEF At, Rest, Reports, From, Typing
  <2>5. i + 1 \in Int
    BY <2>1
  <2> QED
    BY <1>1, <1>2, <2>2, <2>4, <2>5 DEF Typewriting
<1> QED
  BY <1>8, <1>9

LEMMA TextElsewhere ==
  ASSUME TextInv,
         \/ ScanKeys \/ KeysSent \/ StringsScanned \/ ScanTouchpad \/ MouseSent \/ Turn
         \/ FetchMouse \/ Sleep \/ Wake \/ Lift \/ Click \/ UNCHANGED vars
         \/ \E k \in Keys \cup Texts \cup {Shift, Ctrl} : Press(k) \/ Release(k)
         \/ \E y \in 0..Reach : Touch(y)
  PROVE  TextInv'
<1>1. CASE ScanKeys \/ KeysSent \/ StringsScanned \/ ScanTouchpad \/ MouseSent \/ Turn
  <2>1. pc \notin {"type", "typed"} /\ pc' \notin {"type", "typed"}
    BY <1>1 DEF ScanKeys, KeysSent, StringsScanned, ScanTouchpad, MouseSent, Turn
  <2>2. UNCHANGED <<typed, owed, masked>>
    BY <1>1 DEF ScanKeys, KeysSent, StringsScanned, ScanTouchpad, MouseSent, Turn, seen, history
  <2>3. left' = left \/ left' = TextOrder
    BY <1>1 DEF ScanKeys, KeysSent, StringsScanned, ScanTouchpad, MouseSent, Turn, program
  <2>4. missed => missed'
    BY <1>1 DEF ScanKeys, KeysSent, StringsScanned, ScanTouchpad, MouseSent, Turn, history
  <2> QED
    BY <2>1, <2>2, <2>3, <2>4, KeysAssumption DEF TextInv, Typewriting
<1>2. CASE \/ FetchMouse \/ Sleep \/ Wake \/ Lift \/ Click \/ UNCHANGED vars
           \/ \E k \in Keys \cup Texts \cup {Shift, Ctrl} : Press(k) \/ Release(k)
           \/ \E y \in 0..Reach : Touch(y)
  <2>1. UNCHANGED <<missed, masked, pc, shown, kbd, left, todo, typed, owed>>
    BY <1>2 DEF FetchMouse, Sleep, Wake, Lift, Click, Press, Release, Touch, vars, program, seen, history
  <2> QED
    BY <2>1 DEF TextInv, Typewriting, At, Rest, Reports, From, Typing
<1> QED
  BY <1>1, <1>2

(* After every turn in which no report was given up, each text key pressed   *)
(* has been typed in full, in order and once (hid_type_string), if none had  *)
(* its first character hidden by a key held: the edge of a text key, the     *)
(* reports of the other keys between texts, the host's fetching and its      *)
(* suspensions in any order.                                                 *)
THEOREM TextAlwaysArrives == Spec => []TextArrives
<1>1. Init => SentInv /\ TextInv
  <2> SUFFICES ASSUME Init PROVE SentInv /\ TextInv
    OBVIOUS
  <2>1. SentInv
    BY DEF Init, SentInv, Free
  <2>2. <<>> \in Seq(Texts) /\ <<>> \in Seq(Characters)
    BY EmptySeq
  <2>3. TextInv
    BY <2>2 DEF Init, TextInv, Typewriting
  <2> QED
    BY <2>1, <2>3
<1>2. SentInv /\ [Next]_vars => SentInv'
  BY SendStep, SentStep, SentElsewhere, SentFetched DEF Next, Scans
<1>3. SentInv /\ TextInv /\ [Next]_vars => TextInv'
  BY TextStarts, TextSent, TextFetched, TextAdvances, TextElsewhere DEF Next, Scans
<1>4. TextInv => TextArrives
  BY DEF TextInv, Typewriting, TextArrives
<1> QED
  BY <1>1, <1>2, <1>3, <1>4, PTL DEF Spec

-----------------------------------------------------------------------------
(* The pointer: what it moved, the report on its way and the distance to    *)
(* the position remembered are together no more than the finger's way.      *)

MouseReport == [button : BOOLEAN, dy : Int]
MouseEndpoint == [primed : {<<>>} \cup {<<r>> : r \in MouseReport}, done : BOOLEAN]
MotionTyped ==
  /\ finger \in [contact : BOOLEAN, y : Int, click : BOOLEAN]
  /\ prev \in [have : BOOLEAN, y : Int] /\ unseen \in BOOLEAN
  /\ mouse \in MouseEndpoint /\ moved \in Int /\ travel \in Int

\* A position is remembered across a touch only if the finger stayed on the pad.
Followed ==
  /\ finger.contact => ~unseen
  /\ ~finger.contact /\ ~unseen => ~prev.have

ToRemembered == IF finger.contact /\ prev.have THEN Distance(finger.y, prev.y) ELSE 0
OnItsWay(ep) == IF ep.primed = <<>> THEN 0 ELSE Distance(0, Head(ep.primed).dy)
Covered == 2 * (moved + OnItsWay(mouse)) + ToRemembered <= travel
MotionInv == MotionTyped /\ Followed /\ Covered

LEMMA HalvedClipped ==
  ASSUME NEW d \in Int
  PROVE  Clipped(Halved(d)) \in Int /\ 2 * Distance(0, Clipped(Halved(d))) <= Distance(0, d)
<1>1. Clip \in Nat
  BY BoundsAssumption
<1> DEFINE h == Halved(d)
<1>2. h \in Int /\ 2 * Distance(0, h) <= Distance(0, d)
  BY DEF Halved, Distance
<1> HIDE DEF h
<1>3. Clipped(h) \in Int /\ Distance(0, Clipped(h)) <= Distance(0, h)
  BY <1>1, <1>2 DEF Clipped, Distance
<1>4. Distance(0, h) \in Int /\ Distance(0, Clipped(h)) \in Int /\ Distance(0, d) \in Int
  BY <1>2, <1>3 DEF Distance
<1> QED
  BY <1>2, <1>3, <1>4 DEF h

\* Whatever is primed, one report waits: the new one or the one before.
LEMMA PrimedMouse ==
  ASSUME NEW ep \in MouseEndpoint, NEW r \in MouseReport, NEW new \in Primed(ep, r)
  PROVE  /\ new \in MouseEndpoint
         /\ OnItsWay(new) = Distance(0, r.dy) \/ OnItsWay(new) = OnItsWay(ep)
<1>1. new = [ep EXCEPT !.primed = <<r>>] \/ new = ep
  BY DEF Primed
<1>2. CASE new = [ep EXCEPT !.primed = <<r>>]
  <2>1. new.primed = <<r>> /\ new \in MouseEndpoint
    BY <1>2 DEF MouseEndpoint
  <2>2. <<r>> # <<>> /\ Head(<<r>>) = r
    OBVIOUS
  <2> QED
    BY <2>1, <2>2 DEF OnItsWay
<1> QED
  BY <1>1, <1>2

LEMMA WayOfReport ==
  ASSUME NEW ep \in MouseEndpoint
  PROVE  OnItsWay(ep) \in Nat
<1>1. CASE ep.primed = <<>>
  BY <1>1 DEF OnItsWay
<1>2. CASE ep.primed # <<>>
  <2>1. PICK r \in MouseReport : ep.primed = <<r>>
    BY <1>2 DEF MouseEndpoint
  <2>2. OnItsWay(ep) = Distance(0, r.dy) /\ r.dy \in Int
    BY <1>2, <2>1 DEF OnItsWay, MouseReport
  <2> QED
    BY <2>2 DEF Distance
<1> QED
  BY <1>1, <1>2

LEMMA MotionInit == Init => MotionInv
<1> SUFFICES ASSUME Init PROVE MotionInv
  OBVIOUS
<1>1. Free \in MouseEndpoint /\ OnItsWay(Free) = 0
  BY DEF Free, MouseEndpoint, OnItsWay
<1>2. MotionTyped
  <2>1. /\ [contact |-> FALSE, y |-> 0, click |-> FALSE] \in [contact : BOOLEAN, y : Int, click : BOOLEAN]
        /\ [have |-> FALSE, y |-> 0] \in [have : BOOLEAN, y : Int]
    OBVIOUS
  <2>2. /\ finger \in [contact : BOOLEAN, y : Int, click : BOOLEAN]
        /\ prev \in [have : BOOLEAN, y : Int] /\ mouse \in MouseEndpoint
    BY <1>1, <2>1 DEF Init
  <2> QED
    BY <2>2 DEF Init, MotionTyped
<1>3. Followed /\ ToRemembered = 0
  BY DEF Init, Followed, ToRemembered
<1> QED
  BY <1>1, <1>2, <1>3 DEF Init, MotionInv, Covered

LEMMA ScanMotion ==
  ASSUME MotionInv, ~Quick, ScanTouchpad
  PROVE  MotionInv'
<1> DEFINE d == IF finger.contact /\ prev.have THEN finger.y - prev.y ELSE 0
           e == IF flip' THEN -d ELSE d
           r == [button |-> finger.click, dy |-> Clipped(Halved(e))]
<1>1. MotionTyped
  BY DEF MotionInv
<1>2. /\ UNCHANGED <<finger, moved, travel>> /\ unseen' = FALSE
      /\ prev' = IF finger.contact THEN [have |-> TRUE, y |-> finger.y] ELSE [prev EXCEPT !.have = FALSE]
      /\ mouse' = mouse \/ mouse' \in Primed(mouse, r)
  BY DEF ScanTouchpad, seen, history
<1>3. d \in Int /\ Distance(0, d) = ToRemembered
  BY <1>1 DEF MotionTyped, ToRemembered, Distance
<1>4. e \in Int /\ Distance(0, e) = Distance(0, d)
  BY <1>3 DEF Distance
<1> HIDE DEF d, e
<1>5. r \in MouseReport /\ 2 * Distance(0, r.dy) <= ToRemembered
  BY <1>1, <1>3, <1>4, HalvedClipped DEF MotionTyped, MouseReport
<1> HIDE DEF r
<1>6. mouse' \in MouseEndpoint
      /\ (OnItsWay(mouse') = Distance(0, r.dy) \/ OnItsWay(mouse') = OnItsWay(mouse))
  BY <1>1, <1>2, <1>5, PrimedMouse DEF MotionTyped
<1>7. MotionTyped' /\ Followed' /\ ToRemembered' = 0
  <2>1. prev' \in [have : BOOLEAN, y : Int] /\ (prev'.have => prev'.y = finger.y /\ finger.contact)
    BY <1>1, <1>2 DEF MotionTyped
  <2>2. MotionTyped'
    BY <1>1, <1>2, <1>6, <2>1 DEF MotionTyped
  <2>3. Followed'
    BY <1>2, <2>1 DEF Followed
  <2>4. ToRemembered' = 0
    BY <1>1, <1>2, <2>1 DEF ToRemembered, Distance, MotionTyped
  <2> QED
    BY <2>2, <2>3, <2>4
<1>8. /\ OnItsWay(mouse) \in Nat /\ OnItsWay(mouse') \in Nat /\ ToRemembered \in Nat
      /\ moved \in Int /\ travel \in Int /\ Distance(0, r.dy) \in Int
  BY <1>1, <1>3, <1>5, <1>6, WayOfReport DEF MotionTyped, Distance, MouseReport
<1>9. 2 * (moved + OnItsWay(mouse')) <= travel
  BY <1>5, <1>6, <1>8 DEF MotionInv, Covered
<1> QED
  BY <1>2, <1>7, <1>8, <1>9 DEF MotionInv, Covered

LEMMA TouchMotion ==
  ASSUME MotionInv, ~Quick, NEW y \in 0..Reach, Touch(y)
  PROVE  MotionInv'
<1>1. MotionTyped /\ Followed /\ y \in Int
  BY BoundsAssumption DEF MotionInv
<1>2. /\ ~unseen /\ UNCHANGED <<unseen, prev, mouse, moved>>
      /\ finger' = [finger EXCEPT !.contact = TRUE, !.y = y]
      /\ travel' = travel + IF finger.contact THEN Distance(finger.y, y) ELSE 0
  BY DEF Touch, program, seen
<1>3. finger' \in [contact : BOOLEAN, y : Int, click : BOOLEAN] /\ finger'.contact /\ finger'.y = y
  BY <1>1, <1>2 DEF MotionTyped
<1>4. MotionTyped' /\ Followed'
  BY <1>1, <1>2, <1>3 DEF MotionTyped, Followed, Distance
<1>5. OnItsWay(mouse) \in Nat
  BY <1>1, WayOfReport DEF MotionTyped
<1>6. Covered'
  <2>1. CASE finger.contact /\ prev.have
    <3>1. /\ ToRemembered = Distance(finger.y, prev.y) /\ ToRemembered' = Distance(y, prev.y)
          /\ travel' = travel + Distance(finger.y, y)
      BY <1>2, <1>3, <2>1 DEF ToRemembered
    <3>2. /\ finger.y \in Int /\ prev.y \in Int /\ travel \in Int /\ moved \in Int
      BY <1>1 DEF MotionTyped
    <3>3. Distance(y, prev.y) <= Distance(finger.y, prev.y) + Distance(finger.y, y)
          /\ Distance(y, prev.y) \in Int /\ Distance(finger.y, prev.y) \in Int /\ Distance(finger.y, y) \in Int
      BY <1>1, <3>2 DEF Distance
    <3> QED
      BY <1>2, <1>5, <3>1, <3>2, <3>3 DEF MotionInv, Covered
  <2>2. CASE ~prev.have
    <3>1. ToRemembered = 0 /\ ToRemembered' = 0 /\ travel' >= travel
      BY <1>1, <1>2, <2>2 DEF ToRemembered, MotionTyped, Distance
    <3> QED
      BY <1>1, <1>2, <1>4, <1>5, <3>1 DEF MotionInv, Covered, MotionTyped
  <2>3. CASE ~finger.contact /\ prev.have
    BY <1>1, <1>2, <2>3 DEF Followed
  <2> QED
    BY <1>1, <2>1, <2>2, <2>3 DEF MotionTyped
<1> QED
  BY <1>4, <1>6 DEF MotionInv

LEMMA MouseMotion ==
  ASSUME MotionInv, MouseSent \/ Turn \/ FetchMouse
  PROVE  MotionInv'
<1>1. MotionTyped /\ OnItsWay(mouse) \in Nat
  BY WayOfReport DEF MotionInv, MotionTyped
<1>2. UNCHANGED <<finger, prev, unseen, travel>>
  BY DEF MouseSent, Turn, FetchMouse, user, program, seen, history
<1>3. Followed' /\ ToRemembered' = ToRemembered
  BY <1>2 DEF MotionInv, Followed, ToRemembered
<1>4. mouse' \in MouseEndpoint /\ moved' + OnItsWay(mouse') <= moved + OnItsWay(mouse) /\ moved' \in Int
  <2>1. CASE MouseSent \/ Turn
    <3>1. moved' = moved
      BY <2>1 DEF MouseSent, Turn, seen
    <3>2. \/ mouse' = mouse
          \/ mouse' = [mouse EXCEPT !.done = FALSE]
          \/ mouse' = [mouse EXCEPT !.primed = <<>>]
      BY <2>1 DEF MouseSent, Turn, Ended
    <3>3. mouse' \in MouseEndpoint /\ (OnItsWay(mouse') = OnItsWay(mouse) \/ OnItsWay(mouse') = 0)
      <4>1. mouse' \in MouseEndpoint /\ (mouse'.primed = mouse.primed \/ mouse'.primed = <<>>)
        BY <1>1, <3>2 DEF MotionTyped, MouseEndpoint
      <4> QED
        BY <4>1 DEF OnItsWay
    <3> QED
      BY <1>1, <3>1, <3>3 DEF MotionTyped
  <2>2. CASE FetchMouse
    <3>1. /\ mouse.primed # <<>> /\ mouse' = [primed |-> <<>>, done |-> TRUE]
          /\ moved' = moved + OnItsWay(mouse)
      BY <2>2 DEF FetchMouse, OnItsWay
    <3>2. mouse' \in MouseEndpoint /\ OnItsWay(mouse') = 0
      BY <3>1 DEF MouseEndpoint, OnItsWay
    <3> QED
      BY <1>1, <3>1, <3>2 DEF MotionTyped
  <2> QED
    BY <2>1, <2>2
<1>5. MotionTyped'
  BY <1>1, <1>2, <1>4 DEF MotionTyped
<1>6. /\ OnItsWay(mouse') \in Nat /\ ToRemembered \in Int /\ moved \in Int /\ travel \in Int
  BY <1>1, <1>4, WayOfReport DEF MotionTyped, ToRemembered, Distance
<1>7. Covered'
  BY <1>1, <1>2, <1>3, <1>4, <1>6 DEF MotionInv, Covered
<1> QED
  BY <1>3, <1>5, <1>7 DEF MotionInv

LEMMA LiftMotion ==
  ASSUME MotionInv, Lift \/ Click
  PROVE  MotionInv'
<1>1. MotionTyped /\ Followed /\ OnItsWay(mouse) \in Nat
  BY WayOfReport DEF MotionInv, MotionTyped
<1>2. UNCHANGED <<prev, mouse, moved, travel>>
  BY DEF Lift, Click, program, seen, history
<1>3. CASE Lift
  <2>1. finger' = [finger EXCEPT !.contact = FALSE] /\ unseen' = TRUE
    BY <1>3 DEF Lift
  <2>2. finger' \in [contact : BOOLEAN, y : Int, click : BOOLEAN] /\ ~finger'.contact
    BY <1>1, <2>1 DEF MotionTyped
  <2>3. MotionTyped' /\ Followed' /\ ToRemembered' = 0
    BY <1>1, <1>2, <2>1, <2>2 DEF MotionTyped, Followed, ToRemembered
  <2>4. ToRemembered \in Nat
    BY <1>1 DEF MotionTyped, ToRemembered, Distance
  <2>5. Covered'
    BY <1>1, <1>2, <2>3, <2>4 DEF MotionInv, Covered, MotionTyped
  <2> QED
    BY <2>3, <2>5 DEF MotionInv
<1>4. CASE Click
  <2>1. finger' = [finger EXCEPT !.click = ~finger.click] /\ unseen' = unseen
    BY <1>4 DEF Click
  <2>2. finger' \in [contact : BOOLEAN, y : Int, click : BOOLEAN]
        /\ finger'.contact = finger.contact /\ finger'.y = finger.y
    BY <1>1, <2>1 DEF MotionTyped
  <2> QED
    BY <1>2, <2>1, <2>2 DEF MotionInv, MotionTyped, Followed, Covered, ToRemembered
<1> QED
  BY <1>3, <1>4

LEMMA MotionElsewhere ==
  ASSUME MotionInv,
         \/ ScanKeys \/ KeysSent \/ ScanString \/ Type \/ Typed \/ StringsScanned
         \/ FetchKeys \/ Sleep \/ Wake \/ UNCHANGED vars
         \/ \E k \in Keys \cup Texts \cup {Shift, Ctrl} : Press(k) \/ Release(k)
  PROVE  MotionInv'
<1>1. UNCHANGED <<finger, prev, unseen, mouse, moved, travel>>
  BY DEF ScanKeys, KeysSent, ScanString, Type, Typed, StringsScanned, FetchKeys, Sleep, Wake,
         Press, Release, vars, user, program, seen, history
<1> QED
  BY <1>1 DEF MotionInv, MotionTyped, Followed, Covered, ToRemembered

(* While no finger is lifted and put down again between two scans, the       *)
(* pointer never moves further than the finger, at half speed: whatever is   *)
(* clipped, given up, overwritten on the endpoint or flushed with it         *)
(* (have_prev, and the halving of hid_scan_touchpad).                        *)
THEOREM PointerNeverLeads ==
  ASSUME ~Quick
  PROVE  Spec => []PointerFollows
<1>1. Init => MotionInv
  BY MotionInit
<1>2. MotionInv /\ [Next]_vars => MotionInv'
  BY ScanMotion, TouchMotion, MouseMotion, LiftMotion, MotionElsewhere DEF Next, Scans
<1>3. MotionInv => PointerFollows
  <2> SUFFICES ASSUME MotionInv PROVE PointerFollows
    OBVIOUS
  <2>1. OnItsWay(mouse) \in Nat /\ ToRemembered \in Nat /\ moved \in Int /\ travel \in Int
    BY WayOfReport DEF MotionInv, MotionTyped, ToRemembered, Distance
  <2> QED
    BY <2>1 DEF MotionInv, Covered, PointerFollows
<1> QED
  BY <1>1, <1>2, <1>3, PTL DEF Spec
=============================================================================
