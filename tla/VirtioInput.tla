---------------------------- MODULE VirtioInput ----------------------------
(***************************************************************************)
(* The VirtIO keyboard, mouse and tablet of src/tinyemu/virtio.c, on top   *)
(* of the receive queue of RxQueue.                                        *)
(*                                                                         *)
(* A key or a movement is a report of several events, each of which takes  *)
(* one buffer of the guest.  When the buffers run out the report is cut    *)
(* off, and none of the callers looks at the result.                       *)
(***************************************************************************)
EXTENDS RxQueue, SequencesExt

CONSTANTS
    Types,     \* VIRTIO_INPUT_TYPE_x: "keyboard", "mouse" or "tablet"
    Codes,     \* key codes of the keyboard
    Buttons    \* countof(buttons_list); the buttons are 1 .. Buttons

InputAssumption ==
    /\ Types \subseteq {"keyboard", "mouse", "tablet"}
    /\ Codes \subseteq Nat
    /\ Buttons \in Nat

Inputs == Codes \cup 1 .. Buttons

VARIABLES
    type,           \* VIRTIOInputDevice.type
    buttons_state,  \* VIRTIOInputDevice.buttons_state
    ret,            \* what the last send_x_event returned
    pressed,        \* keys or buttons the guest holds to be pressed (external)
    unsure          \* history: buttons whose change went out in a report that
                    \* was then cut off, or that were held during a reset

inputVars == <<type, buttons_state, ret, pressed, unsure>>
vars == <<rxVars, inputVars>>

Motion(t) == [type |-> t, code |-> 0, value |-> FALSE]
Key(c, v) == [type |-> "KEY", code |-> c, value |-> v]
Syn       == Motion("SYN")
Events    == {Motion(t) : t \in {"X", "Y", "WHEEL", "SYN"}}
                 \cup {Key(c, v) : c \in Inputs, v \in BOOLEAN}

TypeOK ==
    /\ RxTypeOK
    /\ \A i \in DOMAIN filled : filled[i] \in Events
    /\ type \in Types /\ ret \in {0, -1}
    /\ \A s \in {buttons_state, pressed, unsure} : s \subseteq Inputs

Init ==
    /\ RxInit
    /\ type \in Types /\ ret = 0
    /\ buttons_state = {} /\ pressed = {} /\ unsure = {}

-----------------------------------------------------------------------------
(* Sending a report                                                        *)

\* virtio_input_queue_event, for one event of the report after the other:
\* the first one that finds no buffer ends the report.
Accepted(report) ==
    IF ~ready THEN 0 ELSE IF posted < Len(report) THEN posted ELSE Len(report)

virtio_input_queue_events(report) ==
    LET n == Accepted(report)
    IN  /\ posted' = posted - n
        /\ filled' = filled \o SubSeq(report, 1, n)
        /\ ret' = IF n = Len(report) THEN 0 ELSE -1
        /\ UNCHANGED ready

\* virtio_input_send_key_event: the key, then SYN.
virtio_input_send_key_event(is_down, code) ==
    /\ type = "keyboard"
    /\ virtio_input_queue_events(<<Key(code, is_down), Syn>>)
    /\ UNCHANGED <<type, buttons_state, pressed, unsure>>

\* The buttons that differ from buttons_state, in the order of buttons_list.
ButtonEvents(b) ==
    LET upto[i \in 0 .. Buttons] ==
            IF i = 0 THEN << >>
            ELSE IF i \in b <=> i \in buttons_state THEN upto[i - 1]
            ELSE Append(upto[i - 1], Key(i, i \in b))
    IN  upto[Buttons]

\* Both axes, the wheel if it moved, the changed buttons, SYN.
Report(dz, b) ==
    <<Motion("X"), Motion("Y")>>
        \o (IF dz THEN <<Motion("WHEEL")>> ELSE << >>)
        \o ButtonEvents(b) \o <<Syn>>

\* Mutation: buttons_state is updated although the report was cut off.
CommitAlways(dz, b) ==
    /\ type # "keyboard"
    /\ virtio_input_queue_events(Report(dz, b))
    /\ LET n      == Accepted(Report(dz, b))
           gone   == {e.code : e \in {e \in ToSet(SubSeq(Report(dz, b), 1, n)) : e.type = "KEY"}}
           commit == n + 1 >= Len(Report(dz, b))
       IN  /\ buttons_state' = b
           /\ unsure' = IF commit THEN unsure \ gone ELSE unsure \cup gone
    /\ UNCHANGED <<type, pressed>>

\* virtio_input_send_mouse_event.  buttons_state is updated after the last
\* button and before SYN: a report cut off earlier leaves it as it was.
virtio_input_send_mouse_event(dz, b) ==
    /\ type # "keyboard"
    /\ virtio_input_queue_events(Report(dz, b))
    /\ LET n      == Accepted(Report(dz, b))
           gone   == {e.code : e \in {e \in ToSet(SubSeq(Report(dz, b), 1, n)) : e.type = "KEY"}}
           commit == n + 1 >= Len(Report(dz, b))
       IN  /\ buttons_state' = IF commit THEN b ELSE buttons_state
           /\ unsure' = IF commit THEN unsure \ gone ELSE unsure \cup gone
    /\ UNCHANGED <<type, pressed>>

-----------------------------------------------------------------------------
(* The guest (external)                                                    *)

\* The effect of an event on what the guest holds to be pressed.
Apply(p, e) ==
    IF e.type # "KEY" THEN p ELSE IF e.value THEN p \cup {e.code} ELSE p \ {e.code}

Take ==
    /\ RxTake
    /\ pressed' = Apply(pressed, Head(filled))
    /\ UNCHANGED <<type, buttons_state, ret, unsure>>

Post == RxPost /\ UNCHANGED inputVars

\* A reset leaves buttons_state; the new driver knows of no button.
Reset ==
    /\ RxReset
    /\ pressed' = {}
    /\ unsure' = buttons_state
    /\ UNCHANGED <<type, buttons_state, ret>>

SetReady == RxReady /\ UNCHANGED inputVars

Host ==
    \/ \E d \in BOOLEAN, c \in Codes : virtio_input_send_key_event(d, c)
    \/ \E dz \in BOOLEAN, b \in SUBSET (1 .. Buttons) : virtio_input_send_mouse_event(dz, b)

Next == Host \/ Take \/ Post \/ Reset \/ SetReady

Spec == Init /\ [][Next]_vars
-----------------------------------------------------------------------------
(* Properties                                                              *)

IsKey(e, b) == e.type = "KEY" /\ e.code = b

\* Whether b is pressed after events es if p are pressed before them: the
\* last event of b says so, or there is none.
HeldAfter(b, p, es) ==
    \/ \E i \in DOMAIN es : /\ IsKey(es[i], b) /\ es[i].value
                           /\ \A j \in DOMAIN es : j > i => ~IsKey(es[j], b)
    \/ b \in p /\ \A i \in DOMAIN es : ~IsKey(es[i], b)

\* What the guest will hold to be pressed once it has taken every event.
PressedAfterFilled == {b \in Inputs : HeldAfter(b, pressed, filled)}

(* The guest's view of a button differs from buttons_state only if the     *)
(* button's last change went out in a report that was cut off, or it was   *)
(* held during a reset: everything else is repaired by later reports.      *)
ViewsAgree ==
    type # "keyboard" =>
        \A b \in (1 .. Buttons) \ unsure : b \in PressedAfterFilled <=> b \in buttons_state
=============================================================================
