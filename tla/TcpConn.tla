------------------------------- MODULE TcpConn -------------------------------
(***************************************************************************)
(* One TCP connection of the user-mode network: the control block and the  *)
(* socket of slirp/tcp_subr.c, what tcp_output sends for it, what          *)
(* tcp_input does with a segment of the guest, and the four timers.        *)
(*                                                                         *)
(* A connection is a record; every operator takes one and returns the      *)
(* connection after the call, with the segments it sent appended to "out". *)
(* Sequence numbers are taken modulo Mod, 2^32 in the code.  Timers are    *)
(* on or off: how long they run is left to the environment, and with it    *)
(* the round-trip estimate.  Urgent data is left out.                      *)
(***************************************************************************)
EXTENDS Sbuf, FiniteSets

CONSTANTS
    Mod,            \* sequence numbers are taken modulo Mod
    Iss, GuestIss,  \* initial sequence numbers of slirp and of the guest
    Mss, MinMss,    \* segment size, and the size at which a sender gives up
    BufLen,         \* TCP_SNDSPACE and TCP_RCVSPACE
    MaxWin,         \* TCP_MAXWIN
    MaxRxtShift     \* TCP_MAXRXTSHIFT

ASSUME TcpAssumption ==
    /\ {Mod, Mss, MinMss, BufLen, MaxWin, MaxRxtShift} \subseteq Nat \ {0}
    /\ {Iss, GuestIss} \subseteq 0 .. Mod - 1
    /\ MaxWin * 2 < Mod /\ BufLen * 2 < Mod

NONE == -1      \* no socket for the connection
CLOSED == 0         LISTEN == 1         SYN_SENT == 2       SYN_RECEIVED == 3
ESTABLISHED == 4    CLOSE_WAIT == 5     FIN_WAIT_1 == 6     CLOSING == 7
LAST_ACK == 8       FIN_WAIT_2 == 9     TIME_WAIT == 10

TCPREXMTTHRESH == 3

(* The signed difference of two sequence numbers, (int)(a - b).            *)
Diff(a, b) == LET d == (a - b) % Mod IN IF 2 * d >= Mod THEN d - Mod ELSE d

SEQ_LT(a, b) == Diff(a, b) < 0
SEQ_LEQ(a, b) == Diff(a, b) <= 0
SEQ_GT(a, b) == Diff(a, b) > 0
Plus(a, n) == (a + n) % Mod

-----------------------------------------------------------------------------
(* The control block and the socket                                        *)

tcp_newtcpcb ==
    [t_state |-> CLOSED, t_timer |-> {}, t_rxtshift |-> 0, t_dupacks |-> 0,
     t_maxseg |-> Mss, t_flags |-> {}, t_rtseq |-> NONE, idle |-> FALSE,
     snd_una |-> 0, snd_nxt |-> 0, snd_max |-> 0, snd_wnd |-> 0,
     snd_wl1 |-> 0, snd_wl2 |-> 0, max_sndwnd |-> 0,
     snd_cwnd |-> MaxWin, snd_ssthresh |-> MaxWin,
     rcv_nxt |-> 0, rcv_adv |-> 0, segs |-> <<>>,
     so_state |-> {"NOFDREF"}, so_snd |-> sbreserve(BufLen),
     so_rcv |-> sbreserve(BufLen), out |-> <<>>, written |-> <<>>,
     shut |-> FALSE, broken |-> FALSE, accept |-> 0]

NoConn == [tcp_newtcpcb EXCEPT !.t_state = NONE]

(* tcp_close frees everything; what was already sent is on its way.        *)
tcp_close(c) == [NoConn EXCEPT !.out = c.out, !.written = c.written,
                               !.shut = c.shut]

tcp_sendseqinit(c) ==
    [c EXCEPT !.snd_una = Iss, !.snd_nxt = Iss, !.snd_max = Iss]

tcp_rcvseqinit(c, irs) ==
    [c EXCEPT !.rcv_adv = Plus(irs, 1), !.rcv_nxt = Plus(irs, 1)]

soisfconnected(c) ==
    [c EXCEPT !.so_state =
        (@ \ {"ISFCONNECTING", "FWDRAIN", "NOFDREF"}) \cup {"ISFCONNECTED"}]

sofcantrcvmore(c) ==
    [c EXCEPT !.so_state =
        IF "FCANTSENDMORE" \in @ THEN {"NOFDREF"}
        ELSE (@ \ {"ISFCONNECTING"}) \cup {"FCANTRCVMORE"}]

(* shutdown(s, 1): the host sees the end of the stream, unless the socket  *)
(* is broken.                                                              *)
sofcantsendmore(c) ==
    [c EXCEPT !.shut = @ \/ ("NOFDREF" \notin c.so_state /\ ~ c.broken),
              !.so_state =
        IF "FCANTRCVMORE" \in @ THEN {"NOFDREF"}
        ELSE (@ \ {"ISFCONNECTING"}) \cup {"FCANTSENDMORE"}]

sofwdrain(c) ==
    IF c.so_rcv.cc > 0 THEN [c EXCEPT !.so_state = @ \cup {"FWDRAIN"}]
    ELSE sofcantsendmore(c)

-----------------------------------------------------------------------------
(* tcp_output                                                              *)

tcp_outflags(state) ==
    CASE state = CLOSED       -> {"RST", "ACK"}
      [] state = LISTEN       -> {}
      [] state = SYN_SENT     -> {"SYN"}
      [] state = SYN_RECEIVED -> {"SYN", "ACK"}
      [] state \in {FIN_WAIT_1, CLOSING, LAST_ACK} -> {"FIN", "ACK"}
      [] OTHER                -> {"ACK"}

tcp_setpersist(c) ==
    [c EXCEPT !.t_timer = @ \cup {"PERSIST"},
              !.t_rxtshift = Lesser(@ + 1, MaxRxtShift)]

(* The window to advertise: nothing when it is small, and never less than  *)
(* was advertised before.                                                  *)
AdvertisedWindow(c) ==
    LET space == sbspace(c.so_rcv)
        win == IF space < c.so_rcv.datalen \div 4 /\ space < c.t_maxseg
               THEN 0 ELSE Lesser(space, MaxWin)
    IN  Greater(win, Diff(c.rcv_adv, c.rcv_nxt))

(* Sequence numbers and timers after a segment of len bytes was sent.      *)
Transmitted(c, flags, len, force) ==
    IF force /\ "PERSIST" \in c.t_timer
    THEN [c EXCEPT !.snd_max =
            IF SEQ_GT(Plus(c.snd_nxt, len), @) THEN Plus(c.snd_nxt, len) ELSE @]
    ELSE LET nxt == Plus(c.snd_nxt, len + Cardinality(flags \cap {"SYN", "FIN"}))
             fresh == SEQ_GT(nxt, c.snd_max)
             start == "REXMT" \notin c.t_timer /\ nxt # c.snd_una
         IN  [c EXCEPT
                !.snd_nxt = nxt,
                !.t_flags = @ \cup (IF "FIN" \in flags THEN {"SENTFIN"} ELSE {}),
                !.snd_max = IF fresh THEN nxt ELSE @,
                !.t_rtseq = IF fresh /\ @ = NONE THEN c.snd_nxt ELSE @,
                !.t_timer = IF start THEN (@ \ {"PERSIST"}) \cup {"REXMT"} ELSE @,
                !.t_rxtshift = IF start /\ "PERSIST" \in c.t_timer THEN 0 ELSE @]

(* Build the segment, send it, and remember what it advertised.            *)
Built(c, flags, win, data) ==
    [flags |-> flags, ack |-> c.rcv_nxt, win |-> win, data |-> data,
     seq |-> IF \/ data # <<>> \/ flags \cap {"SYN", "FIN"} # {}
                \/ "PERSIST" \in c.t_timer
             THEN c.snd_nxt ELSE c.snd_max]

Announced(c, seg) ==
    LET edge == Plus(seg.ack, seg.win)
    IN  [c EXCEPT !.out = Append(@, seg),
                  !.rcv_adv = IF seg.win > 0 /\ SEQ_GT(edge, @) THEN edge ELSE @,
                  !.t_flags = @ \ {"ACKNOW", "DELACK"}]

(* A SYN starts at the initial number; a FIN that is sent again is taken   *)
(* back first.                                                             *)
Numbered(c, flags) ==
    CASE "SYN" \in flags -> [c EXCEPT !.snd_nxt = Iss, !.snd_cwnd = Mss]
      [] "FIN" \in flags /\ "SENTFIN" \in c.t_flags /\ c.snd_nxt = c.snd_max ->
            [c EXCEPT !.snd_nxt = Plus(@, -1)]
      [] OTHER -> c

SendSegment(c, flags, off, len, force) ==
    LET c1 == Numbered(c, flags)
    IN  Announced(Transmitted(c1, flags, len, force),
                  Built(c1, flags, AdvertisedWindow(c1), sbcopy(c.so_snd, off, len)))

(* The reasons to send a segment of len bytes.                             *)
MustSend(c, flags, off, len, force) ==
    LET space == sbspace(c.so_rcv)
        adv == Lesser(space, MaxWin) - Diff(c.rcv_adv, c.rcv_nxt)
    IN  \/ /\ len > 0
           /\ \/ len = c.t_maxseg \/ len + off >= c.so_snd.cc \/ force
              \/ len >= c.max_sndwnd \div 2 /\ c.max_sndwnd > 0
              \/ SEQ_LT(c.snd_nxt, c.snd_max)
        \/ space > 0 /\ (adv >= 2 * c.t_maxseg \/ 2 * adv >= c.so_rcv.datalen)
        \/ "ACKNOW" \in c.t_flags \/ flags \cap {"SYN", "RST"} # {}
        \/ /\ "FIN" \in flags
           /\ "SENTFIN" \notin c.t_flags \/ c.snd_nxt = c.snd_una

PersistIfStuck(c) ==
    IF c.so_snd.cc > 0 /\ c.t_timer \cap {"REXMT", "PERSIST"} = {}
    THEN tcp_setpersist([c EXCEPT !.t_rxtshift = 0]) ELSE c

SendOrWait(c, flags, off, len, want, force) ==
    IF MustSend(c, flags, off, len, force)
    THEN [more |-> want > c.t_maxseg, c |-> SendSegment(c, flags, off, len, force)]
    ELSE [more |-> FALSE, c |-> PersistIfStuck(c)]

(* A FIN goes with the last byte only.                                     *)
FlagsFor(c, len, probe) ==
    tcp_outflags(c.t_state) \
        (IF probe \/ SEQ_LT(Plus(c.snd_nxt, len), Plus(c.snd_una, c.so_snd.cc))
         THEN {"FIN"} ELSE {})

Sized(c, off, want, force, probe) ==
    LET len == Greater(0, Lesser(want, c.t_maxseg))
    IN  SendOrWait(c, FlagsFor(c, len, probe), off, len, want, force)

(* A window that has shrunk to nothing takes back what was sent into it.   *)
Within(c, off, win, force, probe) ==
    LET want == Lesser(c.so_snd.cc, win) - off
    IN  Sized(IF want < 0 /\ win = 0
              THEN [c EXCEPT !.t_timer = @ \ {"REXMT"}, !.snd_nxt = c.snd_una]
              ELSE c, off, want, force, probe)

(* One round of tcp_output, from the label "again".  force: the persist    *)
(* timer has run out, and a closed window is probed with one byte.         *)
OutputRound(c, force) ==
    LET usable == Lesser(c.snd_wnd, c.snd_cwnd)
        off == Diff(c.snd_nxt, c.snd_una)
    IN  IF force /\ usable = 0 THEN Within(c, off, 1, TRUE, off < c.so_snd.cc)
        ELSE Within(IF force THEN [c EXCEPT !.t_timer = @ \ {"PERSIST"}, !.t_rxtshift = 0]
                    ELSE c, off, usable, force, FALSE)

RECURSIVE OutputFrom(_, _)
OutputFrom(r, force) ==
    IF r.more THEN OutputFrom(OutputRound(r.c, force), force) ELSE r.c

(* After a while without segments, slow start opens the window again.      *)
Output(c, force) ==
    OutputFrom([more |-> TRUE,
                c |-> IF c.snd_max = c.snd_una /\ c.idle
                      THEN [c EXCEPT !.snd_cwnd = c.t_maxseg] ELSE c], force)

tcp_output(c) == Output(c, FALSE)

(* A bare segment outside the normal flow: a reset.                        *)
tcp_respond(c, seq, ack, flags) ==
    [c EXCEPT !.out = Append(@, [flags |-> flags, seq |-> seq, ack |-> ack,
                                 win |-> 0, data |-> <<>>])]

tcp_drop(c) ==
    tcp_close(IF c.t_state >= SYN_RECEIVED
              THEN tcp_output([c EXCEPT !.t_state = CLOSED]) ELSE c)

tcp_sockclosed(c) ==
    IF c.t_state \in {CLOSED, LISTEN, SYN_SENT} THEN tcp_close(c)
    ELSE tcp_output([c EXCEPT !.t_state =
            CASE @ \in {SYN_RECEIVED, ESTABLISHED} -> FIN_WAIT_1
              [] @ = CLOSE_WAIT -> LAST_ACK
              [] OTHER -> @])

-----------------------------------------------------------------------------
(* From the guest to the host                                              *)

(* Mutant: the bytes are written at once although others wait.             *)
sbappend_Overtakes(c, bytes) ==
    LET n == Lesser(Len(bytes), c.accept)
    IN  [c EXCEPT !.written = @ \o SubSeq(bytes, 1, n),
                  !.so_rcv = sbappendsb(@, SubSeq(bytes, n + 1, Len(bytes)))]

(* slirp_send takes c.accept bytes at most, and only when nothing waits in *)
(* the buffer before them.                                                 *)
sbappend(c, bytes) ==
    LET n == IF c.so_rcv.cc = 0 THEN Lesser(Len(bytes), c.accept) ELSE 0
    IN  [c EXCEPT !.written = @ \o SubSeq(bytes, 1, n),
                  !.so_rcv = sbappendsb(@, SubSeq(bytes, n + 1, Len(bytes)))]

(* Insert a segment between those queued: its own bytes give way to the    *)
(* segment before it, the bytes of the segments after it to its own.       *)
Inserted(segs, s) ==
    LET before == SelectSeq(segs, LAMBDA q : ~ SEQ_GT(q.seq, s.seq))
        after == SelectSeq(segs, LAMBDA q : SEQ_GT(q.seq, s.seq))
        cut(q, n) == [q EXCEPT !.seq = Plus(@, n),
                               !.data = SubSeq(@, n + 1, Len(@))]
        End(q) == Plus(q.seq, Len(q.data))
        known == IF before = <<>> THEN 0
                 ELSE Greater(0, Diff(End(before[Len(before)]), s.seq))
        new == cut(s, known)
        over(q) == Diff(End(new), q.seq)
        kept == SelectSeq(after,
                          LAMBDA q : over(q) <= 0 \/ over(q) < Len(q.data))
    IN  IF known > 0 /\ known >= Len(s.data) THEN segs
        ELSE Append(before, new)
             \o [i \in DOMAIN kept |-> cut(kept[i], Greater(0, over(kept[i])))]

(* Hand the bytes at the left edge to the socket.  (At the end of the list *)
(* the loop of the code takes the control block for one more segment; the  *)
(* word it reads as a sequence number is zero there, so that it ends as    *)
(* long as rcv_nxt is not zero.)                                           *)
RECURSIVE Present(_)
Present(c) ==
    LET s == Head(c.segs)
        c1 == [c EXCEPT !.rcv_nxt = Plus(@, Len(s.data)), !.segs = Tail(@)]
        c2 == IF "FCANTSENDMORE" \in c.so_state \/ s.data = <<>> THEN c1
              ELSE sbappend(c1, s.data)
    IN  IF c2.segs # <<>> /\ Head(c2.segs).seq = c2.rcv_nxt THEN Present(c2)
        ELSE [c |-> c2, fin |-> s.fin]

tcp_reass(c, s) ==
    LET c1 == [c EXCEPT !.segs = Inserted(@, s)]
    IN  IF /\ c1.t_state >= ESTABLISHED
           /\ c1.segs # <<>> /\ Head(c1.segs).seq = c1.rcv_nxt
        THEN Present(c1) ELSE [c |-> c1, fin |-> FALSE]

(* The macro TCP_REASS: the next segment of an established connection goes *)
(* straight to the socket.  The FIN is the one of the segment as it came.  *)
TCP_REASS(c, s) ==
    LET seg == [seq |-> s.seq, data |-> s.data, fin |-> s.fin]
    IN  IF s.seq = c.rcv_nxt /\ c.segs = <<>> /\ c.t_state = ESTABLISHED
        THEN [c |-> sbappend([c EXCEPT !.t_flags = @ \cup {"DELACK"},
                                       !.rcv_nxt = Plus(@, Len(s.data))], s.data),
              fin |-> s.fin]
        ELSE LET r == tcp_reass(c, seg)
             IN  [r EXCEPT !.c.t_flags = @ \cup {"ACKNOW"}]
=============================================================================
