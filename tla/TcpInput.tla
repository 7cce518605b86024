------------------------------ MODULE TcpInput ------------------------------
(***************************************************************************)
(* tcp_input of slirp/tcp_input.c: what a segment of the guest does to a   *)
(* connection.  The segment s has the fields of the header, its data, and  *)
(* "fin", the FIN bit as it arrived (ti_flags): s.flags is the local copy  *)
(* tiflags, from which bits are removed on the way.                        *)
(*                                                                         *)
(* The function is cut at its labels.  A part returns the connection and   *)
(* says whether the segment is finished with ("done"), which stands for    *)
(* the jumps to drop, dropafterack and dropwithreset.                      *)
(***************************************************************************)
EXTENDS TcpConn

Goes(c, s) == [done |-> FALSE, c |-> c, s |-> s, needoutput |-> FALSE]
Drop(c) == [done |-> TRUE, c |-> c, needoutput |-> FALSE]

DropAfterAck(c, s) ==
    Drop(IF "RST" \in s.flags THEN c
         ELSE tcp_output([c EXCEPT !.t_flags = @ \cup {"ACKNOW"}]))

DropWithReset(c, s) ==
    Drop(IF "ACK" \in s.flags THEN tcp_respond(c, s.ack, 0, {"RST"})
         ELSE tcp_respond(c, 0,
                Plus(s.seq, Len(s.data) + Cardinality(s.flags \cap {"SYN"})),
                {"RST", "ACK"}))

(* A measurement of the round-trip time ends the back-off.                 *)
tcp_xmit_timer(c) == [c EXCEPT !.t_rtseq = NONE, !.t_rxtshift = 0]

Measured(c, ack) ==
    IF c.t_rtseq # NONE /\ SEQ_GT(ack, c.t_rtseq) THEN tcp_xmit_timer(c) ELSE c

-----------------------------------------------------------------------------
(* Header prediction                                                       *)

Expected(c, s) ==
    /\ c.t_state = ESTABLISHED
    /\ s.flags \cap {"SYN", "FIN", "RST", "ACK"} = {"ACK"}
    /\ s.seq = c.rcv_nxt
    /\ s.win > 0 /\ s.win = c.snd_wnd
    /\ c.snd_nxt = c.snd_max

PureAck(c, s) ==
    /\ s.data = <<>>
    /\ SEQ_GT(s.ack, c.snd_una) /\ SEQ_LEQ(s.ack, c.snd_max)
    /\ c.snd_cwnd >= c.snd_wnd

(* Mutant: any acknowledgement stops the retransmission timer.             *)
PredictedAck_Stops(c, s) ==
    LET c1 == [Measured(c, s.ack) EXCEPT
                 !.so_snd = sbdrop(@, Diff(s.ack, c.snd_una)),
                 !.snd_una = s.ack, !.t_timer = @ \ {"REXMT"}]
    IN  IF c1.so_snd.cc > 0 THEN tcp_output(c1) ELSE c1

PredictedAck(c, s) ==
    LET c1 == [Measured(c, s.ack) EXCEPT
                 !.so_snd = sbdrop(@, Diff(s.ack, c.snd_una)),
                 !.snd_una = s.ack,
                 !.t_timer = IF s.ack = c.snd_max THEN @ \ {"REXMT"}
                             ELSE IF "PERSIST" \notin @ THEN @ \cup {"REXMT"}
                             ELSE @]
    IN  IF c1.so_snd.cc > 0 THEN tcp_output(c1) ELSE c1

PureData(c, s) ==
    /\ s.data # <<>> /\ s.ack = c.snd_una /\ c.segs = <<>>
    /\ Len(s.data) <= sbspace(c.so_rcv)

PredictedData(c, s) ==
    LET c1 == sbappend([c EXCEPT !.rcv_nxt = Plus(@, Len(s.data))], s.data)
    IN  tcp_output([c1 EXCEPT !.t_flags = @ \cup {"ACKNOW"}])

-----------------------------------------------------------------------------
(* Cut the segment to the receive window                                   *)

rcv_wnd(c) == Greater(sbspace(c.so_rcv), Diff(c.rcv_adv, c.rcv_nxt))

(* Bytes, SYN and FIN that were received before.                           *)
TrimLeft(c, s0) ==
    LET s == IF "SYN" \in s0.flags
             THEN [s0 EXCEPT !.flags = @ \ {"SYN"}, !.seq = Plus(@, 1)] ELSE s0
        todrop == Diff(c.rcv_nxt, s.seq)
        len == Len(s.data)
        old == todrop > len \/ (todrop = len /\ "FIN" \notin s.flags)
        n == IF old THEN len ELSE todrop
        cut == [s EXCEPT !.seq = Plus(@, n), !.data = SubSeq(@, n + 1, len),
                         !.flags = IF old THEN @ \ {"FIN"} ELSE @]
    IN  IF Diff(c.rcv_nxt, s0.seq) <= 0 THEN Goes(c, s0)
        ELSE Goes(IF old THEN [c EXCEPT !.t_flags = @ \cup {"ACKNOW"}] ELSE c, cut)

(* Data for a host that is gone resets the connection; what lies beyond    *)
(* the window is cut off.  The guest opens one connection, so that a new   *)
(* SYN that ends TIME_WAIT is not met.                                     *)
TrimRight(c, s) ==
    LET wnd == rcv_wnd(c)
        len == Len(s.data)
        todrop == Diff(Plus(s.seq, len), Plus(c.rcv_nxt, wnd))
        atEdge == wnd = 0 /\ s.seq = c.rcv_nxt
    IN  IF "NOFDREF" \in c.so_state /\ c.t_state > CLOSE_WAIT /\ len > 0
        THEN DropWithReset(tcp_close(c), s)
        ELSE IF todrop <= 0 THEN Goes(c, s)
        ELSE IF todrop >= len /\ ~ atEdge THEN DropAfterAck(c, s)
        ELSE Goes(IF todrop >= len
                  THEN [c EXCEPT !.t_flags = @ \cup {"ACKNOW"}] ELSE c,
                  [s EXCEPT !.data = SubSeq(@, 1, len - todrop),
                            !.flags = @ \ {"FIN"}])

(* RST, a SYN in the window, and a segment without ACK.                    *)
CheckFlags(c, s) ==
    IF "RST" \in s.flags THEN Drop(tcp_close(c))
    ELSE IF "SYN" \in s.flags THEN DropWithReset(tcp_drop(c), s)
    ELSE IF "ACK" \notin s.flags THEN Drop(c)
    ELSE Goes(c, s)

-----------------------------------------------------------------------------
(* Acknowledgements                                                        *)

Halved(c) ==
    c.t_maxseg * Greater(2, (Lesser(c.snd_wnd, c.snd_cwnd) \div 2) \div c.t_maxseg)

(* The third duplicate: send the missing segment again, and only that.     *)
FastRetransmit(c, ack) ==
    LET half == Halved(c)
        c1 == tcp_output([c EXCEPT !.snd_ssthresh = half, !.t_rtseq = NONE,
                            !.t_timer = @ \ {"REXMT"}, !.snd_nxt = ack,
                            !.snd_cwnd = c.t_maxseg])
    IN  [c1 EXCEPT
           !.snd_cwnd = half + c1.t_maxseg * TCPREXMTTHRESH,
           !.snd_nxt = IF SEQ_GT(c.snd_nxt, @) THEN c.snd_nxt ELSE @]

(* t_dupacks counts no further than the threshold plus one: only what is   *)
(* above the threshold is told apart.                                      *)
DuplicateAck(c, s) ==
    LET n == Lesser(c.t_dupacks + 1, TCPREXMTTHRESH + 1)
        c1 == [c EXCEPT !.t_dupacks = n]
    IN  IF \/ s.data # <<>> \/ s.win # c.snd_wnd
           \/ "REXMT" \notin c.t_timer \/ s.ack # c.snd_una
        THEN Goes([c EXCEPT !.t_dupacks = 0], s)
        ELSE IF n = TCPREXMTTHRESH THEN Drop(FastRetransmit(c1, s.ack))
        ELSE IF n > TCPREXMTTHRESH
        THEN Drop(tcp_output([c1 EXCEPT
                    !.snd_cwnd = @ + c.t_maxseg]))
        ELSE Goes(c1, s)

(* The state after our FIN was acknowledged, or not.                       *)
FinAcked(c, s, ourfinisacked) ==
    CASE c.t_state = FIN_WAIT_1 /\ ourfinisacked ->
            Goes([c EXCEPT !.t_state = FIN_WAIT_2,
                    !.t_timer = @ \cup (IF "FCANTRCVMORE" \in c.so_state
                                        THEN {"2MSL"} ELSE {})], s)
      [] c.t_state = CLOSING /\ ourfinisacked ->
            Goes([c EXCEPT !.t_state = TIME_WAIT, !.t_timer = {"2MSL"}], s)
      [] c.t_state = LAST_ACK /\ ourfinisacked -> Drop(tcp_close(c))
      [] c.t_state = TIME_WAIT ->
            DropAfterAck([c EXCEPT !.t_timer = @ \cup {"2MSL"}], s)
      [] OTHER -> Goes(c, s)

(* From the label synrx_to_est.                                            *)
NewAck(c0, s) ==
    LET c1 == [c0 EXCEPT !.t_dupacks = 0,
                 !.snd_cwnd = IF /\ c0.t_dupacks > TCPREXMTTHRESH
                                 /\ @ > c0.snd_ssthresh
                              THEN c0.snd_ssthresh ELSE @]
        acked == Diff(s.ack, c1.snd_una)
        n == Lesser(acked, c1.so_snd.cc)
        incr == IF c1.snd_cwnd > c1.snd_ssthresh
                THEN (c1.t_maxseg * c1.t_maxseg) \div c1.snd_cwnd ELSE c1.t_maxseg
        c2 == [Measured(c1, s.ack) EXCEPT
                 !.t_timer = IF s.ack = c1.snd_max THEN @ \ {"REXMT"}
                             ELSE IF "PERSIST" \notin @ THEN @ \cup {"REXMT"}
                             ELSE @,
                 !.snd_cwnd = Lesser(@ + incr, MaxWin),
                 !.snd_wnd = (@ - n) % Mod,
                 !.so_snd = sbdrop(@, n),
                 !.snd_una = s.ack,
                 !.snd_nxt = IF SEQ_LT(@, s.ack) THEN s.ack ELSE @]
    IN  IF SEQ_GT(s.ack, c1.snd_max) THEN DropAfterAck(c1, s)
        ELSE [FinAcked(c2, s, acked > c1.so_snd.cc) EXCEPT
                !.needoutput = s.ack = c1.snd_max]

Connected(c, s) ==
    IF c.t_state # SYN_RECEIVED THEN c
    ELSE soisfconnected([c EXCEPT !.t_state = ESTABLISHED, !.snd_una = s.ack,
                                  !.snd_wl1 = Plus(s.seq, -1)])

AckProcessing(c, s) ==
    CASE c.t_state = SYN_RECEIVED /\ (SEQ_GT(c.snd_una, s.ack) \/ SEQ_GT(s.ack, c.snd_max)) ->
            DropWithReset(c, s)
      [] c.t_state # SYN_RECEIVED /\ SEQ_LEQ(s.ack, c.snd_una) -> DuplicateAck(c, s)
      [] OTHER -> NewAck(Connected(c, s), s)

-----------------------------------------------------------------------------
(* Window, data and FIN: from the label step6 to the end                   *)

NewerWindow(c, s) ==
    /\ "ACK" \in s.flags
    /\ \/ SEQ_LT(c.snd_wl1, s.seq)
       \/ c.snd_wl1 = s.seq /\ SEQ_LT(c.snd_wl2, s.ack)
       \/ c.snd_wl1 = s.seq /\ c.snd_wl2 = s.ack /\ s.win > c.snd_wnd

(* TCPS_HAVERCVDFIN holds in TIME_WAIT only.                               *)
ProcessFin(c) ==
    LET c1 == IF c.t_state >= TIME_WAIT THEN c
              ELSE LET d == sofwdrain(c)
                   IN  [d EXCEPT !.t_flags = @ \cup {"ACKNOW"},
                                 !.rcv_nxt = Plus(@, 1)]
    IN  CASE c1.t_state \in {SYN_RECEIVED, ESTABLISHED} ->
                [c1 EXCEPT !.t_state = CLOSE_WAIT]
          [] c1.t_state = FIN_WAIT_1 -> [c1 EXCEPT !.t_state = CLOSING]
          [] c1.t_state \in {FIN_WAIT_2, TIME_WAIT} ->
                [c1 EXCEPT !.t_state = TIME_WAIT, !.t_timer =
                    IF c1.t_state = TIME_WAIT THEN @ \cup {"2MSL"} ELSE {"2MSL"}]
          [] OTHER -> c1

(* What the data brought: the segment that the FIN came with is complete.   *)
FinAfter(r) == IF r.fin THEN ProcessFin(r.c) ELSE r.c

DoData(c, s) ==
    IF (s.data # <<>> \/ "FIN" \in s.flags) /\ c.t_state < TIME_WAIT
    THEN FinAfter(TCP_REASS(c, s)) ELSE c

OutputIf(c, needoutput) ==
    IF needoutput \/ "ACKNOW" \in c.t_flags THEN tcp_output(c) ELSE c

step6(c, s, needoutput) ==
    LET newer == NewerWindow(c, s)
        c1 == IF newer
              THEN [c EXCEPT !.snd_wnd = s.win, !.snd_wl1 = s.seq, !.snd_wl2 = s.ack,
                             !.max_sndwnd = Greater(@, s.win)]
              ELSE c
    IN  OutputIf(DoData(c1, s), needoutput \/ newer)

Ended(r) == IF r.done THEN r.c ELSE step6(r.c, r.s, r.needoutput)

(* The label trimthenstep6: the SYN takes one sequence number.             *)
TrimThenStep6(c, s, wnd) ==
    LET fits == Len(s.data) <= wnd
        cut == [s EXCEPT !.seq = Plus(@, 1),
                         !.data = SubSeq(@, 1, Lesser(Len(@), wnd)),
                         !.flags = IF fits THEN @ ELSE @ \ {"FIN"}]
    IN  step6([c EXCEPT !.snd_wl1 = s.seq], cut, FALSE)

-----------------------------------------------------------------------------
(* Connecting                                                              *)

(* A SYN for a connection that does not exist: a socket is created, and    *)
(* the connection to the host begun.  Anything else is reset.              *)
Listen(c, s, refused) ==
    LET new == [tcp_newtcpcb EXCEPT !.t_state = LISTEN, !.t_timer = {"KEEP"}]
    IN  IF s.flags \cap {"SYN", "FIN", "RST", "ACK"} # {"SYN"}
        THEN DropWithReset(c, s).c
        ELSE IF refused
        THEN tcp_close(tcp_respond(new, 0, Plus(s.seq, 1), {"RST", "ACK"}))
        ELSE [new EXCEPT !.t_state = SYN_RECEIVED, !.so_state = {"ISFCONNECTING"}]

(* The label cont_conn: the host has answered the connection begun for s.  *)
(* rcv_wnd is the one computed when s arrived; nothing changed it since.   *)
ContConn(c, s) ==
    IF "NOFDREF" \in c.so_state THEN DropWithReset(tcp_close(c), s).c
    ELSE LET c1 == tcp_rcvseqinit(tcp_sendseqinit(c), s.seq)
         IN  TrimThenStep6([c1 EXCEPT !.t_flags = @ \cup {"ACKNOW"},
                              !.t_state = SYN_RECEIVED,
                              !.t_timer = @ \cup {"KEEP"}], s, rcv_wnd(c))

(* The answer to the SYN of a connection that a host has opened.           *)
SynSent(c, s) ==
    LET acks == "ACK" \in s.flags
        c1 == tcp_rcvseqinit(
                [c EXCEPT !.t_timer = @ \ {"REXMT"}, !.t_flags = @ \cup {"ACKNOW"},
                   !.snd_una = IF acks THEN s.ack ELSE @,
                   !.snd_nxt = IF acks /\ SEQ_LT(@, s.ack) THEN s.ack ELSE @], s.seq)
        up == acks /\ SEQ_GT(c1.snd_una, Iss)
        c2 == IF up THEN [soisfconnected(c1) EXCEPT !.t_state = ESTABLISHED]
              ELSE [c1 EXCEPT !.t_state = SYN_RECEIVED]
    IN  IF acks /\ (SEQ_LEQ(s.ack, Iss) \/ SEQ_GT(s.ack, c.snd_max))
        THEN DropWithReset(c, s).c
        ELSE IF "RST" \in s.flags THEN IF acks THEN tcp_drop(c) ELSE c
        ELSE IF "SYN" \notin s.flags THEN c
        ELSE TrimThenStep6(IF up /\ c2.t_rtseq # NONE THEN tcp_xmit_timer(c2) ELSE c2,
                           s, rcv_wnd(c))

-----------------------------------------------------------------------------
(* States other than LISTEN and SYN_SENT.                                  *)
Unless(r, part(_, _)) == IF r.done THEN r ELSE part(r.c, r.s)

Synchronized(c, s) ==
    Ended(Unless(Unless(Unless(TrimLeft(c, s), TrimRight), CheckFlags), AckProcessing))

tcp_input(c0, s, refused) ==
    LET c == [c0 EXCEPT !.idle = FALSE, !.t_timer = @ \cup {"KEEP"}]
    IN  IF c0.t_state = NONE THEN Listen(c0, s, refused)
        ELSE IF "ISFCONNECTING" \in c0.so_state \/ c0.t_state = CLOSED THEN c0
        ELSE IF Expected(c, s) /\ PureAck(c, s) THEN PredictedAck(c, s)
        ELSE IF Expected(c, s) /\ PureData(c, s) THEN PredictedData(c, s)
        ELSE IF c.t_state = SYN_SENT THEN SynSent(c, s)
        ELSE Synchronized(c, s)
=============================================================================
