----------------------------- MODULE Frontends -----------------------------
(***************************************************************************)
(* The three front ends that feed the guest, as one run: the console ring  *)
(* of the browser build, the keyboard of the PDF and the main loop of the  *)
(* native program.  They are alternatives: a program has one of them, and  *)
(* unit says which.                                                        *)
(***************************************************************************)
EXTENDS JsConsole

CONSTANTS
    KeyBuffers, TextChars, ButtonKeys, ListMax,      \* of PdfKeyboard
    \* of TemuLoop
    TermChars, TypeMax, ReadMax, Packets, PacketMax, NetBuf, TermRxMax, ResizeMax

VARIABLES
    unit,
    kready, kposted, kfilled,                        \* PdfKeyboard
    type, buttons_state, ret, pressed, unsure,
    global_vm, key_status_map, pressed_list, lost, expect,
    pc, exited, rfds, width, typed, nread,           \* TemuLoop
    console_esc_state, resize_pending,
    cready, cposted, cfilled, config_size, delivered,
    term_size, missed, tun, ntaken,
    nready, nposted, nfilled, received

pdfVars == <<kready, kposted, kfilled, type, buttons_state, ret, pressed, unsure,
             global_vm, key_status_map, pressed_list, lost, expect>>
temuVars == <<pc, exited, rfds, width, typed, nread, console_esc_state, resize_pending,
              cready, cposted, cfilled, config_size, delivered, term_size, missed,
              tun, ntaken, nready, nposted, nfilled, received>>

Pdf == INSTANCE PdfKeyboard WITH
    ready <- kready, posted <- kposted, filled <- kfilled, RxMax <- KeyBuffers

Temu == INSTANCE TemuLoop WITH
    Chars <- TermChars, BufSize <- ReadMax, RxMax <- TermRxMax

ASSUME FrontendAssumption == Pdf!KeyboardAssumption /\ Temu!LoopAssumption

JsStep   == unit = "js" /\ Next /\ UNCHANGED <<unit, pdfVars, temuVars>>
PdfStep  == unit = "pdf" /\ Pdf!Next /\ UNCHANGED <<unit, vars, temuVars>>
TemuStep == unit = "temu" /\ Temu!Next /\ UNCHANGED <<unit, vars, pdfVars>>

FrontInit ==
    unit \in {"js", "pdf", "temu"} /\ Init /\ Pdf!Init /\ Temu!Init

FrontSpec ==
    /\ FrontInit /\ [][JsStep \/ PdfStep \/ TemuStep]_<<unit, vars, pdfVars, temuVars>>
    /\ WF_temuVars(unit = "temu" /\ exited = "no" /\ Temu!Loop)

UpToFirstLoss == Pdf!UpToFirstLoss
-----------------------------------------------------------------------------
(* The properties of PdfKeyboard and TemuLoop, for this composition        *)

(* What the user types or presses in the PDF arrives in the guest as the   *)
(* characters that were meant, and no key gets stuck.                      *)
TypedArrives == Pdf!TypedArrives

(* The guest gets what was typed at the terminal, without the escapes of   *)
(* console_read, however it is cut into reads.                             *)
InputIntact == Temu!InputIntact

(* A packet read from the tap interface reaches the guest.                 *)
NoPacketDropped == Temu!NoPacketDropped

(* The guest learns of the last resize of the terminal.                    *)
ResizeArrives == Temu!ResizeArrives
=============================================================================
