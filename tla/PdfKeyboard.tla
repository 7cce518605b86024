---------------------------- MODULE PdfKeyboard ----------------------------
(***************************************************************************)
(* The keyboard of the PDF (src/pdflinux.js, with the buttons and the text *)
(* box that src/gen_pdf.py creates), on top of the VirtIO keyboard.        *)
(*                                                                         *)
(* Each handler of the PDF is one action: JavaScript runs to completion,   *)
(* and the guest does not run meanwhile.  The guest (external) turns key   *)
(* events into characters with a US layout.                                *)
(***************************************************************************)
EXTENDS Integers, Sequences, FiniteSets, SequencesExt

CONSTANTS
    RxMax,       \* buffers of the guest's keyboard driver
    TextChars,   \* characters typed in the text box
    ButtonKeys,  \* keys pressed with the buttons
    ListMax      \* bound on the length of pressed_list

\* Keys of key_to_input_map, and code 0 for one it does not know (undefined
\* becomes 0 when it is passed to C).
key_to_input_map(k) ==
    CASE k = "3" -> 4 [] k = "4" -> 5 [] k = "a" -> 30 [] k = "Space" -> 57
      [] k = "Shift" -> 42 [] k = "Ctrl" -> 29 [] OTHER -> 0
ShiftCode == key_to_input_map("Shift")

\* Keys whose button is made with toggle=True.
ToggleKeys == {"Shift", "Ctrl"}

\* The character of a key in the guest's layout, or "" for a modifier.
Layout(code, shift) ==
    CASE code = 30 -> IF shift THEN "A" ELSE "a"
      [] code = 4  -> IF shift THEN "#" ELSE "3"
      [] code = 5  -> IF shift THEN "$" ELSE "4"
      [] code = 57 -> " "
      [] OTHER -> ""

Codes  == {key_to_input_map(k) : k \in {"3", "4", "a", "Space", "Shift", "Ctrl", ""}}
Types  == {"keyboard"}
KeyEvents == [type : {"KEY", "SYN"}, code : Codes, value : BOOLEAN]

KeyboardAssumption ==
    /\ TextChars \subseteq {"a", "A", "3", "4", " "}  \* "#" and "$" have no right key
    /\ RxMax \in Nat
    /\ ButtonKeys \subseteq {"a", "3", "4", "Shift", "Ctrl"}

VARIABLES
    ready, posted, filled, type, buttons_state, ret, pressed, unsure,  \* VirtioInput
    global_vm,        \* the machine has been started
    key_status_map,   \* codes recorded as down
    pressed_list,     \* the list shown after "Pressed: "
    lost,             \* history: some event did not reach the device
    expect            \* history: characters the user means and the guest has
                      \* not seen, as long as nothing was lost

inputVars  == <<type, buttons_state, ret, pressed, unsure>>
deviceVars == <<ready, posted, filled, inputVars>>
keyVars    == <<global_vm, key_status_map, pressed_list, lost, expect>>
vars == <<deviceVars, keyVars>>

Dev == INSTANCE VirtioInput WITH Data <- KeyEvents, Buttons <- 0

TypeOK ==
    /\ Dev!TypeOK
    /\ global_vm \in BOOLEAN /\ lost \in BOOLEAN
    /\ key_status_map \subseteq Codes
    /\ pressed_list \in Seq(ToggleKeys)
    /\ \A i \in DOMAIN expect : expect[i] \in {"a", "A", "3", "#", "4", "$", " "}

Init ==
    /\ Dev!Init
    /\ global_vm = FALSE /\ lost = FALSE
    /\ key_status_map = {}
    /\ pressed_list = << >> /\ expect = << >>

-----------------------------------------------------------------------------
(* Key events                                                              *)

\* The events of key_down and key_up calls: a call that would not change
\* key_status_map sends nothing.
DownEvents(c) == IF c \in key_status_map THEN << >> ELSE <<Dev!Key(c, TRUE), Dev!Syn>>
UpEvents(c)   == IF c \in key_status_map THEN <<Dev!Key(c, FALSE), Dev!Syn>> ELSE << >>

\* display_key_event for each event; its result is not looked at.
display_key_events(events, chars) ==
    /\ IF global_vm
       THEN Dev!virtio_input_queue_events(events)
       ELSE UNCHANGED <<ready, posted, filled, ret>>
    /\ lost' = (lost \/ (events # << >> /\ (~global_vm \/ Dev!Accepted(events) < Len(events))))
    /\ expect' = IF lost' THEN << >> ELSE expect \o chars
    /\ UNCHANGED <<type, buttons_state, pressed, unsure, global_vm>>

\* What the user means with key c: the character the layout gives it.
Meant(c) ==
    LET x == Layout(c, ShiftCode \in key_status_map)
    IN  IF x = "" THEN << >> ELSE <<x>>

\* button_down and button_up: an ordinary button of the PDF.
button_down(k) ==
    LET c == key_to_input_map(k)
    IN  /\ k \in ButtonKeys \ ToggleKeys
        /\ display_key_events(DownEvents(c), IF c \in key_status_map THEN << >> ELSE Meant(c))
        /\ key_status_map' = key_status_map \cup {c}
        /\ UNCHANGED pressed_list

button_up(k) ==
    LET c == key_to_input_map(k)
    IN  /\ k \in ButtonKeys \ ToggleKeys
        /\ display_key_events(UpEvents(c), << >>)
        /\ key_status_map' = key_status_map \ {c}
        /\ UNCHANGED pressed_list

\* button_toggle: indexOf gives -1 for a key that is not in the list, and
\* splice(-1, 1) then removes the last entry.
Spliced(k) ==
    LET at == {i \in DOMAIN pressed_list : pressed_list[i] = k}
    IN  IF at # {} THEN RemoveAt(pressed_list, CHOOSE i \in at : \A j \in at : i <= j)
        ELSE IF pressed_list = << >> THEN << >> ELSE Front(pressed_list)

button_toggle(k) ==
    LET c == key_to_input_map(k)
    IN  /\ k \in ButtonKeys \cap ToggleKeys
        /\ IF c \in key_status_map
           THEN /\ pressed_list' = Spliced(k)
                /\ display_key_events(UpEvents(c), << >>)
                /\ key_status_map' = key_status_map \ {c}
           ELSE /\ Len(pressed_list) < ListMax
                /\ pressed_list' = Append(pressed_list, k)
                /\ display_key_events(DownEvents(c), << >>)
                /\ key_status_map' = key_status_map \cup {c}

\* keys_shifted_map and toLowerCase: the key of a character that is typed
\* with shift, or "" if they do not know it.
ShiftedKey(c) == CASE c = "A" -> "a" [] c = "#" -> "4" [] OTHER -> ""
PlainKey(c)   == IF c = " " THEN "Space" ELSE c

\* Mutation: shift is not pressed for a character that needs it.
ShiftForgotten(c) ==
    LET shifted == ShiftedKey(c) # ""
        k == key_to_input_map(IF shifted THEN ShiftedKey(c) ELSE PlainKey(c))
    IN  /\ c \in TextChars
        /\ display_key_events(
               << >>
                   \o DownEvents(k) \o <<Dev!Key(k, FALSE), Dev!Syn>>
                   \o (IF shifted THEN <<Dev!Key(ShiftCode, FALSE), Dev!Syn>> ELSE << >>),
               IF k \in key_status_map THEN << >> ELSE IF shifted THEN <<c>> ELSE Meant(k))
        /\ key_status_map' = key_status_map \ (IF shifted THEN {k, ShiftCode} ELSE {k})
        /\ UNCHANGED pressed_list

\* key_pressed: a character was typed in the text box.  press_input presses
\* and releases its key, between shift down and shift up if it needs shift.
key_pressed(c) ==
    LET shifted == ShiftedKey(c) # ""
        k == key_to_input_map(IF shifted THEN ShiftedKey(c) ELSE PlainKey(c))
    IN  /\ c \in TextChars
        /\ display_key_events(
               (IF shifted THEN DownEvents(ShiftCode) ELSE << >>)
                   \o DownEvents(k) \o <<Dev!Key(k, FALSE), Dev!Syn>>
                   \o (IF shifted THEN <<Dev!Key(ShiftCode, FALSE), Dev!Syn>> ELSE << >>),
               IF k \in key_status_map THEN << >> ELSE IF shifted THEN <<c>> ELSE Meant(k))
        /\ key_status_map' = key_status_map \ (IF shifted THEN {k, ShiftCode} ELSE {k})
        /\ UNCHANGED pressed_list

\* init_vm: the machine exists.
init_vm ==
    /\ ~global_vm
    /\ global_vm' = TRUE
    /\ UNCHANGED <<deviceVars, key_status_map, pressed_list, lost, expect>>

-----------------------------------------------------------------------------
(* The guest (external)                                                    *)

\* The characters the guest makes of events e when it holds p to be pressed.
CharsOf(p, e) ==
    IF e.type = "KEY" /\ e.value THEN LET x == Layout(e.code, ShiftCode \in p)
                                      IN  IF x = "" THEN << >> ELSE <<x>>
    ELSE << >>

\* The driver takes an event and posts the buffer again.
GuestTake ==
    /\ filled # << >>
    /\ filled' = Tail(filled)
    /\ posted' = posted + 1
    /\ pressed' = Dev!Apply(pressed, Head(filled))
    /\ expect' = IF lost THEN << >>
                 ELSE SubSeq(expect, 1 + Len(CharsOf(pressed, Head(filled))), Len(expect))
    /\ UNCHANGED <<ready, type, buttons_state, ret, unsure, global_vm, key_status_map, pressed_list, lost>>

\* The driver starts: it posts all of its buffers.
GuestReady ==
    /\ global_vm
    /\ ~ready
    /\ ready' = TRUE
    /\ posted' = RxMax
    /\ UNCHANGED <<filled, inputVars, keyVars>>

Next ==
    \/ \E k \in ButtonKeys : button_down(k) \/ button_up(k) \/ button_toggle(k)
    \/ \E c \in TextChars : key_pressed(c)
    \/ init_vm \/ GuestTake \/ GuestReady

Spec == Init /\ [][Next]_vars

\* The runs follow a behaviour up to its first lost event.
UpToFirstLoss == ~lost
-----------------------------------------------------------------------------
(* Properties                                                              *)

\* What the guest holds to be pressed after each of the events on their way.
Held ==
    LET after[i \in 0 .. Len(filled)] ==
            IF i = 0 THEN pressed ELSE Dev!Apply(after[i - 1], filled[i])
    IN  after

\* The characters the guest will make of those events.
Coming ==
    LET from[i \in 0 .. Len(filled)] ==
            IF i = Len(filled) THEN << >> ELSE CharsOf(Held[i], filled[i + 1]) \o from[i + 1]
    IN  from[0]

(* As long as no event was lost, what is typed in the text box, or pressed *)
(* with the buttons, arrives in the guest as the characters that were      *)
(* meant, in order, and the guest holds exactly those keys to be pressed   *)
(* that the PDF has recorded as down, whatever mixture of buttons, toggles *)
(* and typing the user produces.  A toggle key that is down is in the list *)
(* shown after "Pressed:".                                                 *)
TypedArrives ==
    /\ ~lost => Coming = expect /\ Held[Len(filled)] = key_status_map
    /\ \A k \in ToggleKeys :
          key_to_input_map(k) \in key_status_map => k \in ToSet(pressed_list)
=============================================================================
