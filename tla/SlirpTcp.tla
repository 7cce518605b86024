------------------------------ MODULE SlirpTcp ------------------------------
(***************************************************************************)
(* The user-mode network between a guest and a host: one TCP connection,   *)
(* opened by the guest or accepted from outside for it, the poll loop of   *)
(* slirp/slirp.c that moves bytes between the socket and the buffers, and  *)
(* the timers of slirp/tcp_timer.c.                                        *)
(*                                                                         *)
(* Guest and host are external.  The guest is a TCP that keeps to the      *)
(* windows it was offered: it may send any piece of its stream again, and  *)
(* acknowledge late.  The host reads and writes as it likes.  At most      *)
(* MaxFaults segments are lost, or sent too late, or sockets broken.       *)
(***************************************************************************)
EXTENDS TcpInput, SequencesExt

CONSTANTS
    MaxBytes,               \* length of the two streams together
    GuestWindows,           \* windows that the guest advertises
    MaxQueued,              \* segments kept for reassembly
    MaxFaults

VARIABLES
    c,          \* the connection of slirp
    g,          \* the guest
    h,          \* the host
    faults

vars == <<c, g, h, faults>>

ASSUME EnvAssumption ==
    /\ {MaxBytes, MaxQueued, MaxFaults} \subseteq Nat
    /\ GuestWindows \subseteq 0 .. MaxWin
    /\ 2 * (MaxBytes + MaxWin + 2) < Mod

-----------------------------------------------------------------------------
(* The guest                                                               *)

Init ==
    /\ c = NoConn
    /\ \E n \in 0 .. MaxBytes :
         /\ g = [up |-> "closed", len |-> n, rnxt |-> 0, got |-> <<>>,
                 gotfin |-> FALSE, acked |-> 0, limit |-> 0, put |-> 0,
                 closed |-> FALSE, owes |-> FALSE]
         /\ h = [len |-> MaxBytes - n, read |-> 0, closed |-> FALSE]
    /\ faults = 0

(* What the guest does with a segment of slirp.  Positions count from the  *)
(* SYN, which has position 0.                                              *)
Received(gg, seg) ==
    LET isSyn == "SYN" \in seg.flags
        p == Diff(seg.seq, Iss) + (IF isSyn THEN 1 ELSE 0)
        at == IF isSyn /\ gg.rnxt = 0 THEN 1 ELSE gg.rnxt
        end == p + Len(seg.data)
        fresh == p <= at /\ end >= at
        upto == IF fresh THEN end ELSE at
        fin == fresh /\ "FIN" \in seg.flags /\ ~ gg.gotfin
        ack == Diff(seg.ack, GuestIss)
        isAck == "ACK" \in seg.flags
    IN  IF gg.up \in {"closed", "gone"} /\ ~ isSyn THEN gg
        ELSE IF "RST" \in seg.flags
        THEN IF gg.up = "syn" \/ p = at THEN [gg EXCEPT !.up = "gone", !.owes = FALSE]
             ELSE gg
        ELSE [gg EXCEPT
                !.up = IF isSyn /\ @ \in {"closed", "syn"} THEN "open" ELSE @,
                !.rnxt = upto + (IF fin THEN 1 ELSE 0),
                !.got = IF fresh THEN @ \o SubSeq(seg.data, at - p + 1, Len(seg.data))
                        ELSE @,
                !.gotfin = @ \/ fin,
                !.acked = IF isAck THEN Greater(@, ack) ELSE @,
                !.limit = IF isAck THEN Greater(@, ack + seg.win) ELSE @,
                !.owes = @ \/ isSyn \/ seg.data # <<>> \/ "FIN" \in seg.flags]

(* The segments that a call has sent reach the guest g1, except those that *)
(* are lost; extra is the number of other faults of the step.              *)
Emit(c1, g1, extra) ==
    \E lost \in SUBSET DOMAIN c1.out :
        /\ faults' = faults + extra + Cardinality(lost)
        /\ faults' <= MaxFaults
        /\ c' = [c1 EXCEPT !.out = <<>>, !.accept = 0]
        /\ g' = FoldLeftDomain(
                    LAMBDA gg, i : IF i \in lost THEN gg ELSE Received(gg, c1.out[i]),
                    g1, c1.out)

(* The host takes n bytes at most of what is written in this step.         *)
Accepting(n) == [c EXCEPT !.accept = n]

GuestSeg(flags, pos, n, ack, win) ==
    [flags |-> flags, seq |-> Plus(GuestIss, pos), ack |-> Plus(Iss, ack),
     win |-> win, data |-> [k \in 1 .. n |-> pos + k - 1], fin |-> "FIN" \in flags]

TheSyn == GuestSeg({"SYN"}, 0, 0, 0, 0)

(* The guest opens the connection, or repeats the SYN of one.              *)
GuestOpens ==
    /\ g.up \in {"closed", "syn"}
    /\ g.up = "closed" => c.t_state = NONE
    /\ \E refused \in BOOLEAN :
         Emit(tcp_input(c, TheSyn, refused), [g EXCEPT !.up = "syn"],
              IF g.up = "syn" \/ refused THEN 1 ELSE 0)
    /\ UNCHANGED h

(* The guest sends a piece of its stream that the window allows, with the  *)
(* FIN behind the last byte if it has closed.  A segment that repeats what *)
(* was acknowledged comes late, a fault of the network.                    *)
GuestSends ==
    /\ g.up = "open" 
    /\ \E pos \in 1 .. g.len + 1, n \in 0 .. Mss, fin \in BOOLEAN :
        LET end == pos + n
        IN  /\ end <= g.len + 1 /\ end <= g.limit
            /\ Len(c.segs) < MaxQueued \/ pos = g.acked
            /\ n > 0 \/ fin
            /\ fin => end = g.len + 1
            /\ \E room \in {0, Lesser(1, n), n} :
                 Emit(tcp_input(Accepting(room),
                        GuestSeg({"ACK"} \cup (IF fin THEN {"FIN"} ELSE {}),
                                 pos, n, g.rnxt, MaxWin), FALSE),
                      [g EXCEPT !.put = Greater(@, end - 1), !.closed = @ \/ fin,
                                !.owes = FALSE],
                      IF pos < g.acked THEN 1 ELSE 0)
    /\ UNCHANGED h

(* A pure acknowledgement.  A closed window is opened by another one,      *)
(* which may get lost.                                                     *)
AckFrom(win) ==
    GuestSeg(IF c.t_state = SYN_SENT THEN {"SYN", "ACK"} ELSE {"ACK"},
             IF c.t_state = SYN_SENT THEN 0
             ELSE Greater(g.put, IF g.closed THEN g.len + 1 ELSE 0) + 1,
             0, g.rnxt, win)

GuestAnswers(win) ==
    /\ g.up = "open" /\ g.owes
    /\ Emit(tcp_input(Accepting(0), AckFrom(win), FALSE), [g EXCEPT !.owes = win = 0], 0)
    /\ UNCHANGED h

AnswerLost ==
    /\ g.up = "open" /\ g.owes /\ faults < MaxFaults
    /\ g' = [g EXCEPT !.owes = FALSE] /\ faults' = faults + 1
    /\ UNCHANGED <<c, h>>

(* An acknowledgement from before the last segment comes late.             *)
LateAnswer ==
    /\ g.up = "open" /\ g.rnxt > 1 /\ c.t_state # SYN_SENT
    /\ Emit(tcp_input(Accepting(0), [AckFrom(MaxWin) EXCEPT !.ack = Plus(@, -1)],
                      FALSE), g, 1)
    /\ UNCHANGED h

-----------------------------------------------------------------------------
(* The poll loop of slirp                                                  *)

(* A host connects to a forwarded port: tcp_connect accepts it and sends   *)
(* a SYN to the guest.                                                     *)
tcp_connect ==
    /\ c.t_state = NONE /\ g.up = "closed"
    /\ Emit(tcp_output(tcp_sendseqinit(
              [tcp_newtcpcb EXCEPT !.t_state = SYN_SENT, !.t_timer = {"KEEP"},
                                   !.snd_cwnd = Mss])), g, 0)
    /\ UNCHANGED h

(* The socket for which the guest has sent a SYN is writable: it is        *)
(* connected, has failed, or (send says so) is neither.                    *)
ConnectEnds ==
    /\ "ISFCONNECTING" \in c.so_state
    /\ \E outcome \in {"connected", "failed", "again"} :
        LET c1 == [c EXCEPT !.so_state = IF outcome = "failed" THEN {"NOFDREF"}
                                         ELSE @ \ {"ISFCONNECTING"}]
        IN  Emit(IF outcome = "again" THEN c1 ELSE ContConn(c1, TheSyn), g,
                 IF outcome = "connected" THEN 0 ELSE 1)
    /\ UNCHANGED h

CONN_CANFSEND(cc) ==
    "ISFCONNECTED" \in cc.so_state /\ "FCANTSENDMORE" \notin cc.so_state
CONN_CANFRCV(cc) ==
    "ISFCONNECTED" \in cc.so_state /\ "FCANTRCVMORE" \notin cc.so_state

(* slirp_select_fill                                                       *)
SelectRead == CONN_CANFRCV(c) /\ c.so_snd.cc < c.so_snd.datalen \div 2
SelectWrite == CONN_CANFSEND(c) /\ c.so_rcv.cc > 0

(* soread with n bytes from the host, or with none: the end of the stream, *)
(* or an error.  What was read is sent.                                    *)
soread(cc, n) ==
    IF n = 0 THEN tcp_sockclosed(sofcantrcvmore(cc))
    ELSE tcp_output([cc EXCEPT !.so_snd =
                        PutBytes(@, [k \in 1 .. n |-> h.read + k])])

(* sowrite with n bytes taken by the host, or an error.                    *)
sowrite(cc, n) ==
    LET bytes == sbcopy(cc.so_rcv, 0, n)
        c1 == [cc EXCEPT !.written = @ \o bytes, !.so_rcv = sbdrop(@, n)]
    IN  IF n = 0 THEN tcp_sockclosed(sofcantsendmore(cc))
        ELSE IF "FWDRAIN" \in c1.so_state /\ c1.so_rcv.cc = 0
        THEN sofcantsendmore(c1) ELSE c1

Written(cc, n) == IF "NOFDREF" \in cc.so_state THEN cc ELSE sowrite(cc, n)

(* The part of slirp_select_poll that serves the socket.  The descriptor   *)
(* sets were filled before; a shutdown for reading clears the write set.   *)
slirp_select_poll ==
    \E readable \in BOOLEAN, writable \in BOOLEAN :
    \E n \in 0 .. sopreprbuf(c.so_snd, c.t_maxseg), k \in 0 .. c.so_rcv.cc,
      err \in BOOLEAN :
        LET c0 == [c EXCEPT !.broken = @ \/ err]
            ends == readable /\ n = 0
            still == writable /\ ~ ends
            fails == still /\ k = 0
        IN  /\ readable \/ writable
            /\ readable => SelectRead /\ h.read + n <= h.len
            /\ ~ readable \/ c.broken => n = 0
            /\ writable => SelectWrite
            /\ ~ still => k = 0
            /\ err <=> (ends /\ h.read < h.len /\ ~ c.broken) \/ fails
            /\ \E c1 \in {IF readable THEN soread(c0, n) ELSE c0} :
                 Emit(IF still THEN Written(c1, k) ELSE c1, g, IF err THEN 1 ELSE 0)
            /\ h' = [h EXCEPT !.read = @ + n, !.closed = @ \/ ends \/ fails]

-----------------------------------------------------------------------------
(* Timers                                                                  *)

tcp_fasttimo ==
    /\ "DELACK" \in c.t_flags
    /\ Emit(tcp_output([c EXCEPT !.t_flags = (@ \ {"DELACK"}) \cup {"ACKNOW"}]), g, 0)
    /\ UNCHANGED h

(* Too many retransmissions halve the segment size, and end the connection *)
(* when it cannot be halved any more.                                      *)
Retransmit(cc) ==
    LET tooMany == cc.t_rxtshift + 1 > MaxRxtShift
        mss == IF tooMany THEN cc.t_maxseg \div 2 ELSE cc.t_maxseg
        c1 == [cc EXCEPT !.t_maxseg = mss,
                 !.t_rxtshift = IF tooMany THEN MaxRxtShift \div 2 ELSE @ + 1]
    IN  IF mss < MinMss THEN tcp_drop(cc)
        ELSE tcp_output([c1 EXCEPT
                !.t_timer = @ \cup {"REXMT"}, !.snd_nxt = c1.snd_una,
                !.t_rtseq = NONE, !.snd_cwnd = mss, !.snd_ssthresh = Halved(c1),
                !.t_dupacks = 0])

(* longIdle: nothing was received for TCP_MAXIDLE.                         *)
tcp_timers(cc, timer, longIdle) ==
    CASE timer = "2MSL" /\ cc.t_state # TIME_WAIT /\ ~ longIdle ->
            [cc EXCEPT !.t_timer = @ \cup {"2MSL"}]
      [] timer = "2MSL" /\ (cc.t_state = TIME_WAIT \/ longIdle) -> tcp_close(cc)
      [] timer = "REXMT" -> Retransmit(cc)
      [] timer = "PERSIST" -> Output(tcp_setpersist(cc), TRUE)
      [] timer = "KEEP" /\ cc.t_state < ESTABLISHED -> tcp_drop(cc)
      [] timer = "KEEP" /\ cc.t_state >= ESTABLISHED ->
            [cc EXCEPT !.t_timer = @ \cup {"KEEP"}]

(* One timer runs out.  Timers that run out in the same tick are served    *)
(* one after the other.                                                    *)
tcp_slowtimo(timer) ==
    /\ timer \in c.t_timer
    /\ \E longIdle \in BOOLEAN :
         LET c1 == tcp_timers([c EXCEPT !.t_timer = @ \ {timer}], timer, longIdle)
         IN  Emit([c1 EXCEPT !.idle = c1.t_state # NONE /\ (@ \/ longIdle)], g, 0)
    /\ UNCHANGED h

Timers == {"REXMT", "PERSIST", "KEEP", "2MSL"}

Next ==
    \/ GuestOpens \/ GuestSends \/ (\E win \in GuestWindows : GuestAnswers(win)) \/ AnswerLost \/ LateAnswer
    \/ tcp_connect \/ ConnectEnds \/ slirp_select_poll
    \/ tcp_fasttimo \/ \E timer \in Timers : tcp_slowtimo(timer)

Spec == Init /\ [][Next]_vars

-----------------------------------------------------------------------------
Up == INSTANCE BytePipe WITH put <- g.put, closed <- g.closed,
                             got <- c.written, eof <- c.shut
Down == INSTANCE BytePipe WITH put <- h.read, closed <- h.closed,
                               got <- g.got, eof <- g.gotfin

(* Both streams arrive in order and once each, and the end of a stream     *)
(* only behind its last byte: that of the guest (the shutdown of           *)
(* sofcantsendmore) whatever tcp_input, tcp_reass, sbappend and sowrite    *)
(* have to reorder, trim and buffer on the way, and that of the host       *)
(* through soread, tcp_output and its retransmissions.                     *)
StreamsIntact == Up!PipeSpec /\ Down!PipeSpec

(* Whatever was sent and not acknowledged will be sent again, as long as   *)
(* the guest offers a window: the retransmission timer runs, or the        *)
(* persist timer does and snd_nxt was taken back to the first such byte.   *)
SentIsCovered ==
    c.t_state >= ESTABLISHED /\ c.snd_una # c.snd_max /\ c.snd_wnd > 0
        => \/ "REXMT" \in c.t_timer
           \/ "PERSIST" \in c.t_timer /\ c.snd_nxt = c.snd_una
=============================================================================
