------------------------------ MODULE TemuLoop ------------------------------
(***************************************************************************)
(* The main loop of the native program (virt_machine_run in                *)
(* src/tinyemu/temu.c) with what it drives: the terminal as the guest's    *)
(* console, and a tap interface as its network.                            *)
(*                                                                         *)
(* The guest runs in one step of the loop only (virt_machine_interp); the  *)
(* user, the network and the SIGWINCH handler may act between any two.     *)
(***************************************************************************)
EXTENDS Integers, Sequences

CONSTANTS
    Chars,        \* what the user types: "^A", "x", "h", "a"
    TypeMax,      \* bound on the characters typed
    BufSize,      \* bytes read into a console buffer at once
    Packets,      \* sizes of the packets the network delivers
    PacketMax,    \* bound on their number
    NetBuf,       \* largest packet a network buffer of the guest takes
    RxMax,        \* buffers of each of the guest's drivers
    ResizeMax     \* bound on the resizes of the terminal

Points == {"top", "gotsize", "select", "interp"}

LoopAssumption ==
    /\ {TypeMax, PacketMax, ResizeMax, NetBuf} \subseteq Nat
    /\ {BufSize, RxMax} \subseteq Nat \ {0}
    /\ Packets \subseteq Nat

VARIABLES
    pc,               \* the point the loop has reached
    exited,           \* "no", or why the program ended
    rfds, width,      \* locals of virt_machine_run
    typed, nread,     \* all that was typed, and how much of it was read
    console_esc_state, resize_pending,      \* STDIODevice
    cready, cposted, cfilled, config_size,  \* VIRTIOConsoleDevice
    delivered,        \* history: the characters given to the guest
    term_size,        \* size of the terminal, by number of resize
    missed,           \* history: the last signal fell between reading the
                      \* size and clearing resize_pending
    tun, ntaken,      \* all packets that arrived, and how many were read
    nready, nposted, nfilled,               \* VIRTIONetDevice
    received          \* history: the packets given to the guest

conVars  == <<cready, cposted, cfilled>>
netVars  == <<nready, nposted, nfilled>>
ttyVars  == <<typed, nread, console_esc_state, delivered>>
sizeVars == <<resize_pending, width, config_size, term_size, missed>>
tunVars  == <<tun, ntaken, received>>
loopVars == <<pc, exited, rfds>>
vars == <<loopVars, conVars, netVars, ttyVars, sizeVars, tunVars>>

Con == INSTANCE RxQueue WITH ready <- cready, posted <- cposted, filled <- cfilled,
                             Data <- Seq(Chars)
Net == INSTANCE RxQueue WITH ready <- nready, posted <- nposted, filled <- nfilled,
                             Data <- Packets

TypeOK ==
    /\ pc \in Points /\ exited \in {"no", "command", "hangup"}
    /\ rfds \subseteq {"stdin", "tun"}
    /\ typed \in Seq(Chars) /\ nread \in 0 .. Len(typed)
    /\ delivered \in Seq(Chars)
    /\ {console_esc_state, resize_pending, missed} \subseteq BOOLEAN
    /\ {width, config_size, term_size} \subseteq 0 .. (ResizeMax + 1)
    /\ tun \in Seq(Packets) /\ ntaken \in 0 .. Len(tun)
    /\ received \in Seq(Packets)
    /\ Con!RxTypeOK /\ Net!RxTypeOK

\* console_init, and the devices as virtio_init leaves them.
Init ==
    /\ pc = "top" /\ exited = "no" /\ rfds = {}
    /\ typed = << >> /\ nread = 0 /\ delivered = << >>
    /\ console_esc_state = FALSE
    /\ resize_pending = TRUE
    /\ width = 0 /\ config_size = 0 /\ term_size = 1 /\ missed = FALSE
    /\ tun = << >> /\ ntaken = 0 /\ received = << >>
    /\ Con!RxInit /\ Net!RxInit

-----------------------------------------------------------------------------
(* One turn of virt_machine_run                                            *)

\* Mutation: the tap interface is read whether or not the guest has a buffer.
AlwaysSelectTun == {"tun"}

\* tun_select_fill: read packets only when the guest has a buffer for one.
tun_select_fill == IF Net!CanPut THEN {"tun"} ELSE {}

\* Up to select.  A pending resize is looked at only when the guest has a
\* console buffer; console_get_size reads the size of the terminal here.
FillSets ==
    /\ pc = "top"
    /\ rfds' = (IF Con!CanPut THEN {"stdin"} ELSE {}) \cup tun_select_fill
    /\ IF Con!CanPut /\ resize_pending
       THEN pc' = "gotsize" /\ width' = term_size /\ missed' = FALSE
       ELSE pc' = "select" /\ UNCHANGED <<width, missed>>
    /\ UNCHANGED <<exited, conVars, netVars, ttyVars, resize_pending, config_size,
                   term_size, tunVars>>

\* Mutation: the configuration space is not written.
SizeNotStored ==
    /\ pc = "gotsize"
    /\ UNCHANGED config_size
    /\ resize_pending' = FALSE
    /\ pc' = "select"
    /\ UNCHANGED <<exited, rfds, conVars, netVars, ttyVars, width, term_size, missed, tunVars>>

\* virtio_console_resize_event, then resize_pending = FALSE.
virtio_console_resize_event ==
    /\ pc = "gotsize"
    /\ config_size' = width
    /\ resize_pending' = FALSE
    /\ pc' = "select"
    /\ UNCHANGED <<exited, rfds, conVars, netVars, ttyVars, width, term_size, missed, tunVars>>

\* console_read's filter, for one character after the other.
Filter(s, ch) ==
    IF s.esc
    THEN [s EXCEPT !.esc = FALSE,
                   !.exit = s.exit \/ ch = "x",
                   !.out = IF ch = "^A" THEN Append(@, ch) ELSE @]
    ELSE IF ch = "^A" THEN [s EXCEPT !.esc = TRUE]
    ELSE [s EXCEPT !.out = Append(@, ch)]

FilterFrom(esc, chars) ==
    LET after[i \in 0 .. Len(chars)] ==
            IF i = 0 THEN [esc |-> esc, exit |-> FALSE, out |-> << >>]
            ELSE Filter(after[i - 1], chars[i])
    IN  after[Len(chars)]

\* Mutation: the escape state does not outlive the read.
EscapePerRead(chars) == FilterFrom(FALSE, chars)

Filtered(chars) == FilterFrom(console_esc_state, chars)

virtio_console_get_write_len == IF Con!CanPut THEN BufSize ELSE 0

\* console_read and virtio_console_write_data, when read returns n bytes.
\* Without a buffer the length is 0 and nothing is read.
console_read(n) ==
    LET r == Filtered(SubSeq(typed, nread + 1, nread + n))
    IN  /\ nread' = nread + n
        /\ console_esc_state' = r.esc
        /\ exited' = IF r.exit THEN "command" ELSE "no"
        /\ IF r.exit \/ r.out = << >> \/ ~Con!CanPut
           THEN UNCHANGED <<conVars, delivered>>
           ELSE Con!Put(r.out) /\ delivered' = delivered \o r.out
        /\ UNCHANGED typed

\* The bytes one read may return.
ReadSizes ==
    LET unread == Len(typed) - nread
        len    == virtio_console_get_write_len
        most   == IF unread < len THEN unread ELSE len
    IN  IF most = 0 THEN {0} ELSE 1 .. most

\* tun_select_poll and virtio_net_write_packet: a packet too large for the
\* buffer is dropped, and the buffer stays.
tun_select_poll(readable) ==
    IF readable
    THEN /\ ntaken' = ntaken + 1
         /\ IF Net!CanPut /\ tun[ntaken + 1] <= NetBuf
            THEN Net!Put(tun[ntaken + 1]) /\ received' = Append(received, tun[ntaken + 1])
            ELSE UNCHANGED <<netVars, received>>
         /\ UNCHANGED tun
    ELSE UNCHANGED <<netVars, tunVars>>

Readable ==
    {f \in rfds : \/ f = "stdin" /\ nread < Len(typed)
                  \/ f = "tun" /\ ntaken < Len(tun)}

\* select and what follows it.  stdin_fd is not set when stdin was not
\* asked for: FD_ISSET of it gives either answer.
Poll ==
    /\ pc = "select"
    /\ tun_select_poll("tun" \in Readable)
    /\ \E isset \in IF "stdin" \in rfds THEN {"stdin" \in Readable} ELSE BOOLEAN :
          IF Readable # {} /\ isset
          THEN \E n \in ReadSizes : console_read(n)
          ELSE UNCHANGED <<ttyVars, conVars, exited>>
    /\ pc' = "interp" /\ rfds' = {}
    /\ UNCHANGED sizeVars

\* A signal ends select before anything is looked at.
SelectInterrupted ==
    /\ pc = "select"
    /\ pc' = "interp" /\ rfds' = {}
    /\ UNCHANGED <<exited, conVars, netVars, ttyVars, sizeVars, tunVars>>

\* console_read meets the end of the input.
Hangup ==
    /\ pc = "select" /\ "stdin" \in rfds
    /\ nread = Len(typed)
    /\ exited' = "hangup"
    /\ UNCHANGED <<pc, rfds, conVars, netVars, ttyVars, sizeVars, tunVars>>

\* virt_machine_interp returns, and the loop of main calls again.
InterpEnds ==
    /\ pc = "interp"
    /\ pc' = "top"
    /\ UNCHANGED <<exited, rfds, conVars, netVars, ttyVars, sizeVars, tunVars>>

-----------------------------------------------------------------------------
(* The guest, while virt_machine_interp runs (external)                    *)

InGuest == pc = "interp" /\ UNCHANGED <<loopVars, ttyVars, sizeVars, tunVars>>

ConPost  == InGuest /\ Con!RxPost /\ UNCHANGED netVars
ConTake  == InGuest /\ Con!RxTake /\ UNCHANGED netVars
ConReady == InGuest /\ Con!RxReady /\ UNCHANGED netVars
ConReset == InGuest /\ Con!RxReset /\ UNCHANGED netVars
NetStep  == InGuest /\ (Net!RxPost \/ Net!RxTake \/ Net!RxReady \/ Net!RxReset)
                    /\ UNCHANGED conVars

-----------------------------------------------------------------------------
(* The outside (external)                                                  *)

Type(c) ==
    /\ Len(typed) < TypeMax
    /\ typed' = Append(typed, c)
    /\ UNCHANGED <<loopVars, conVars, netVars, nread, console_esc_state, delivered,
                   sizeVars, tunVars>>

Arrive(p) ==
    /\ Len(tun) < PacketMax
    /\ tun' = Append(tun, p)
    /\ UNCHANGED <<loopVars, conVars, netVars, ttyVars, sizeVars, ntaken, received>>

\* The terminal is resized, and term_resize_handler runs.
term_resize_handler ==
    /\ term_size <= ResizeMax
    /\ term_size' = term_size + 1
    /\ resize_pending' = TRUE
    /\ missed' = (pc = "gotsize")
    /\ UNCHANGED <<loopVars, conVars, netVars, ttyVars, width, config_size, tunVars>>

Loop == FillSets \/ virtio_console_resize_event \/ Poll \/ SelectInterrupted \/ InterpEnds

Next ==
    /\ exited = "no"
    /\ \/ Loop \/ Hangup
       \/ ConPost \/ ConTake \/ ConReady \/ ConReset \/ NetStep
       \/ \E c \in Chars : Type(c)
       \/ \E p \in Packets : Arrive(p)
       \/ term_resize_handler

\* main calls virt_machine_run for ever, and select waits for 10 ms at most.
Spec == Init /\ [][Next]_vars /\ WF_vars(exited = "no" /\ Loop)
-----------------------------------------------------------------------------
(* Properties                                                              *)

\* Character i of s is a C-a that starts an escape: an odd number of C-a in
\* a row end with it.
StartsEscape(s, i) ==
    i > 0 /\ \E k \in 1 .. i :
        /\ \A j \in k .. i : s[j] = "^A"
        /\ k > 1 => s[k - 1] # "^A"
        /\ (i - k) % 2 = 0

IsData(s, i) == ~StartsEscape(s, i) /\ (StartsEscape(s, i - 1) => s[i] = "^A")

AsksToExit(s, n) == \E i \in 1 .. n : s[i] = "x" /\ StartsEscape(s, i - 1)

\* out is what s holds at the places in P, each once and in order.
IsSelection(out, s, P) ==
    \E place \in [DOMAIN out -> P] :
        /\ P = {place[k] : k \in DOMAIN out}
        /\ \A j, k \in DOMAIN out : j < k => place[j] < place[k]
        /\ \A k \in DOMAIN out : out[k] = s[place[k]]

(* The guest gets what the user typed, each character once and in order,   *)
(* without the escapes, however the input is cut into reads and even when  *)
(* a read ends between C-a and its command; and C-a x, and nothing else,   *)
(* ends the program.                                                       *)
InputIntact ==
    /\ exited = "command" <=> AsksToExit(typed, nread)
    /\ exited = "no" => IsSelection(delivered, typed, {i \in 1 .. nread : IsData(typed, i)})

(* A packet read from the tap interface reaches the guest, in order: only  *)
(* those that fit no buffer are lost, although a full queue drops any.     *)
NoPacketDropped == IsSelection(received, tun, {i \in 1 .. ntaken : tun[i] <= NetBuf})

(* The guest is told of the last resize, if the loop finds a console       *)
(* buffer of it again and again.  The one resize that is lost is one whose *)
(* signal falls between reading the size and clearing resize_pending.      *)
ResizeArrives ==
    []<>(pc = "top" /\ Con!CanPut) => <>[](config_size = term_size \/ missed)
=============================================================================
