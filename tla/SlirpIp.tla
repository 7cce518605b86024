------------------------------ MODULE SlirpIp ------------------------------
(***************************************************************************)
(* The packet side of the user-mode network at work: the guest sends       *)
(* frames, whole or in fragments that arrive in any order, overlap or are  *)
(* repeated, and posts receive buffers; one turn of the main loop expires  *)
(* sockets (slirp_select_fill), runs the slow timer, reads the host's      *)
(* answers and restarts the output (slirp_select_poll).  The loop skips    *)
(* the network while the guest has no receive buffer (temu.c).             *)
(***************************************************************************)
EXTENDS IpStack, FiniteSets

CONSTANTS
  Menus,       \* sets of datagrams [id, h, len, rf, frags], frags as <<offset, length>>;
               \* the guest keeps to one of them
  Arps,        \* ARP frames of the guest: [op, mac, ip]
  Answers,     \* lengths of the host's answers, 0 for an error
  MaxFrames,   \* bound: frames the guest sends
  MaxAnswers   \* bound: answers of the host

VARIABLES
  sl,        \* struct Slirp
  menu,      \* the datagrams this guest sends
  frames,    \* frames sent so far
  answers    \* answers given so far
vars == <<sl, menu, frames, answers>>

Quiet == [attach |-> TRUE, send |-> TRUE, misread |-> FALSE]
Outcomes == {Quiet, [Quiet EXCEPT !.attach = FALSE], [Quiet EXCEPT !.send = FALSE]}
Begin(e) == [sl EXCEPT !.env = e, !.up = <<>>]
Done(S) == [S EXCEPT !.env = Quiet]

slirp_init ==
  [mb |-> [m \in Mbufs |-> Unallocated], dofree |-> {}, ipq |-> <<>>,
   so |-> [s \in Sockets |-> NoSocket], udb |-> <<>>, udp_last_so |-> 0,
   if_fastq |-> <<>>, if_batchq |-> <<>>, next_m |-> 0, ip_id |-> 0,
   clients |-> [a \in 1..NbBootpClients |-> [allocated |-> FALSE, mac |-> "zero"]],
   client_ethaddr |-> "zero", client_ipaddr |-> "none", room |-> 0, env |-> Quiet,
   lost |-> {}, up |-> <<>>, last |-> [s \in Sockets \union {0} |-> <<0, -1>>]]

Init == sl = slirp_init /\ menu \in Menus /\ frames = 0 /\ answers = 0

Units(d) == [k \in 1..d.len |-> <<d.id, k>>]
Frame(d, f) == [Packet(d.h, SubSeq(Units(d), f[1] + 1, f[1] + f[2])) EXCEPT
                  !.id = d.id, !.off = f[1], !.mf = f[1] + f[2] < d.len, !.rf = d.rf]

(* enough mbufs and socket structures are left for any step *)
Roomy == Cardinality(Mbufs \ Allocated(sl)) + Cardinality(FreeList(sl)) >= 5

GuestFrame ==
  /\ frames < MaxFrames /\ Roomy
  /\ \E s \in Sockets : sl.so[s].lport = 0
  /\ \E d \in menu, e \in Outcomes : \E f \in d.frags :
       sl' = Done(slirp_input(Begin(e), Frame(d, f)))
  /\ frames' = frames + 1
  /\ UNCHANGED <<menu, answers>>

GuestArp ==
  /\ frames < MaxFrames
  /\ \E a \in Arps : sl' = Done(arp_input(Begin(Quiet), a.op, a.mac, a.ip))
  /\ frames' = frames + 1
  /\ UNCHANGED <<menu, answers>>

GuestPost ==
  /\ sl.room < MaxRoom
  /\ sl' = [sl EXCEPT !.room = @ + 1, !.up = <<>>]
  /\ UNCHANGED <<menu, frames, answers>>

Readable(S) == {s \in Range(S.udb) : S.so[s].conn /\ S.so[s].queued <= SessionLimit}
Poll ==
  /\ sl.room > 0 /\ Roomy
  /\ \E expired \in SUBSET Range(sl.udb), misread \in BOOLEAN, tick \in BOOLEAN :
       LET Fill == FoldSet(LAMBDA s, S : udp_detach(S, s), Begin([Quiet EXCEPT !.misread = misread]),
                           expired)
           Slow == IF tick THEN ip_slowtimo(Fill) ELSE Fill
       IN \E ready \in SUBSET Readable(Fill) : \E n \in [ready -> Answers] :
            LET order == SelectSeq(Fill.udb, LAMBDA s : s \in ready)
                Read == FoldLeft(LAMBDA S, s : sorecvfrom(S, s, n[s]), Slow, order)
            IN /\ answers + Cardinality(ready) <= MaxAnswers
               /\ sl' = Done(if_start(Read))
               /\ answers' = answers + Cardinality(ready)
  /\ UNCHANGED <<menu, frames>>

Next == GuestFrame \/ GuestArp \/ GuestPost \/ Poll
Spec == Init /\ [][Next]_vars

-----------------------------------------------------------------------------
Holders ==
  FlattenSeq([k \in DOMAIN sl.ipq |-> Append(sl.ipq[k].frags, sl.ipq[k].hd)])
  \o SelectSeq([k \in DOMAIN sl.udb |-> sl.so[sl.udb[k]].som], LAMBDA m : m # 0)
  \o Packets(sl.if_fastq) \o Packets(sl.if_batchq) \o SetToSeq(sl.lost)

(* Every mbuf in use is held in exactly one place: a reassembly queue, a    *)
(* socket's so_m or an output queue; a freed one in none.  (Two returns of  *)
(* the code, for a packet too short for an IP header and for a BOOTP        *)
(* request when no address is left, forget theirs.)  What the free list can *)
(* hold is bounded by MBUF_THRESH.                                          *)
MbufsAccounted ==
  /\ IsInjective(Holders)
  /\ Range(Holders) = {m \in Mbufs : sl.mb[m].at = "used"}
  /\ Cardinality(Allocated(sl) \ sl.dofree) <= MbufThresh

(* Fragments of one datagram, in any order, overlapping or repeated, become *)
(* that datagram: what ip_input hands on is one the guest sent, complete;   *)
(* the fragments that wait are disjoint, in order, and do not make one yet. *)
ReassemblyExact ==
  /\ sl.up # <<>> => \E d \in menu : sl.up = Units(d)
  /\ \A k \in DOMAIN sl.ipq :
       LET frags == sl.ipq[k].frags
       IN /\ frags # <<>>
          /\ \A j \in 2..Len(frags) : End(sl.mb[frags[j - 1]]) <= sl.mb[frags[j]].off
          /\ ~Covers(sl, frags)

(* The packets of a session leave in the order they were queued, although   *)
(* it moves between if_fastq and if_batchq ("We mustn't put this packet     *)
(* back on the fastq (or we'll send it out of order)").                     *)
Before(x, y) == x[1] < y[1] \/ (x[1] = y[1] /\ x[2] < y[2])
SessionOrder ==
  \A s \in Sockets \union {0} :
    LET of(q) == Packets(SelectSeq(q, LAMBDA l : l.so = s))
        ms == of(sl.if_fastq) \o of(sl.if_batchq)
        key == <<sl.last[s]>> \o [k \in DOMAIN ms |-> <<sl.mb[ms[k]].id, sl.mb[ms[k]].off>>]
    IN \A k \in 2..Len(key) : Before(key[k - 1], key[k])
=============================================================================
