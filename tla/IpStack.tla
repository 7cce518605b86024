------------------------------ MODULE IpStack ------------------------------
(***************************************************************************)
(* The packet side of the user-mode network (slirp/mbuf.c, if.c,           *)
(* ip_input.c, ip_output.c, udp.c, ip_icmp.c, bootp.c and the Ethernet     *)
(* layer of slirp.c), as operators on the Slirp structure S:               *)
(*   mb      the mbufs, each with the packet it holds                      *)
(*   dofree  the mbufs flagged M_DOFREE                                    *)
(*   ipq     the reassembly queues: key, time to live, header mbuf hd and  *)
(*           the mbufs of the fragments, by offset                         *)
(*   so, udb, udp_last_so   the sockets, their list, the cached one        *)
(*   if_fastq, if_batchq    lists of packets, one per session              *)
(*   next_m  the list to serve next, by its first mbuf (0: the queue head) *)
(*   ip_id, clients, client_ethaddr, client_ipaddr  as in the code         *)
(*   room    receive buffers the guest has posted (slirp_can_output)       *)
(*   env     what the host's next socket calls return                      *)
(* and, for the properties, the mbufs two early returns forget (lost), the *)
(* payload last handed to a protocol (up) and the last packet each session *)
(* sent (last).  A payload is a sequence of units of eight bytes; the      *)
(* checks of lengths and checksums are the flags good (IP) and ok          *)
(* (transport) of a header.                                                *)
(***************************************************************************)
EXTENDS Integers, Sequences, SequencesExt, FiniteSetsExt

CONSTANTS
  Mbufs,            \* mbufs malloc can return, as numbers
  MbufThresh,       \* MBUF_THRESH
  Sockets,          \* struct socket addresses, as numbers
  Mtu,              \* payload units in a packet of IF_MTU bytes
  IpFragTtl,        \* IPFRAGTTL
  HogQueued,        \* if_output downgrades a session that queued so many (6)
  HogSent,          \* ... of which so many were sent (3)
  SessionLimit,     \* a UDP session with more packets queued is not read (4)
  NbBootpClients,   \* NB_BOOTP_CLIENTS
  MaxRoom           \* receive buffers the guest posts at most

ASSUME IpConstants ==
  /\ Mbufs \subseteq Nat \ {0} /\ Sockets \subseteq Nat \ {0}
  /\ Mtu \in Nat \ {0} /\ IpFragTtl \in Nat \ {0} /\ NbBootpClients \in Nat \ {0}

-----------------------------------------------------------------------------
(* mbuf.c *)
NoHdr == [p |-> "none", typ |-> "none", src |-> "none", dst |-> "none", sport |-> 0, dport |-> 0,
          tos |-> "bulk", mac |-> "none", req |-> 0, good |-> TRUE, ok |-> TRUE, ttl |-> 0]
Unallocated == [at |-> "none", h |-> NoHdr, id |-> 0, off |-> 0, mf |-> FALSE, rf |-> FALSE,
                data |-> <<>>, shifted |-> FALSE]
OnFreelist == [Unallocated EXCEPT !.at = "free"]
Packet(h, data) == [Unallocated EXCEPT !.at = "used", !.h = h, !.data = data]

FreeList(S) == {m \in Mbufs : S.mb[m].at = "free"}
Allocated(S) == {m \in Mbufs : S.mb[m].at # "none"}
(* the mbuf the next m_get returns *)
Next_mbuf(S) == IF FreeList(S) # {} THEN Min(FreeList(S)) ELSE Min(Mbufs \ Allocated(S))

m_get(S, pkt) ==
  [S EXCEPT !.mb[Next_mbuf(S)] = pkt,
            !.dofree = IF FreeList(S) = {} /\ Cardinality(Allocated(S)) >= MbufThresh
                       THEN @ \union {Next_mbuf(S)} ELSE @]

m_free(S, m) ==
  IF m = 0 THEN S
  ELSE [S EXCEPT !.mb[m] = IF m \in S.dofree THEN Unallocated ELSE OnFreelist,
                 !.dofree = @ \ {m}]

-----------------------------------------------------------------------------
(* Ethernet: slirp_output drops a frame the guest has no buffer for *)
slirp_output(S) == [S EXCEPT !.room = IF @ > 0 THEN @ - 1 ELSE 0]

(* without the guest's address an ARP request goes out instead of the packet *)
if_encap(S, pkt) ==
  slirp_output(IF S.client_ethaddr = "zero" THEN [S EXCEPT !.client_ipaddr = pkt.h.dst] ELSE S)

arp_input(S, op, mac, ip) ==
  CASE op = "request" /\ ip \in {"vhost", "dns"} ->
         slirp_output([S EXCEPT !.client_ethaddr = mac])
    [] op = "reply" /\ S.client_ethaddr = "zero" /\ ip = S.client_ipaddr ->
         [S EXCEPT !.client_ethaddr = mac]
    [] OTHER -> S

-----------------------------------------------------------------------------
(* if.c *)
Packets(q) == FlattenSeq([k \in DOMAIN q |-> q[k].pk])
IfQueued(S) == Len(Packets(S.if_fastq)) + Len(Packets(S.if_batchq))

(* one turn of if_start's loop.  A packet may outlive its socket: the code  *)
(* then counts in freed memory, or in the socket that took its place.       *)
if_start_one(S) ==
  LET fast == S.if_fastq # <<>>
      q == IF fast THEN S.if_fastq ELSE S.if_batchq
      i == IF fast \/ S.next_m = 0 THEN 1 ELSE CHOOSE k \in DOMAIN q : Head(q[k].pk) = S.next_m
      m == Head(q[i].pk)
      so == q[i].so
      rest == Tail(q[i].pk)
      q2 == IF rest = <<>> THEN RemoveAt(q, i) ELSE [q EXCEPT ![i].pk = rest]
      T == [S EXCEPT !.if_fastq = IF fast THEN q2 ELSE @,
                     !.if_batchq = IF fast THEN @ ELSE q2,
                     !.next_m = IF fast THEN @
                                ELSE IF i < Len(q) THEN Head(q[i + 1].pk) ELSE 0,
                     !.last[so] = <<S.mb[m].id, S.mb[m].off>>]
      U == IF so = 0 \/ T.so[so].lport = 0 THEN T
           ELSE [T EXCEPT !.so[so].queued = @ - 1,
                          !.so[so].nqueued = IF T.so[so].queued = 1 THEN 0 ELSE @]
  IN m_free(if_encap(U, S.mb[m]), m)
if_start(S) ==
  FoldLeft(LAMBDA T, k : IF T.room > 0 /\ IfQueued(T) > 0 THEN if_start_one(T) ELSE T,
           S, [k \in 1..IfQueued(S) |-> k])

(* a packet of a downgraded session goes back to if_fastq *)
Queue_packet_Promotes(S, so, m) ==
  IF so # 0 /\ S.so[so].tos = "lowdelay"
  THEN [S EXCEPT !.if_fastq = Append(@, [so |-> so, pk |-> <<m>>])]
  ELSE [S EXCEPT !.if_batchq = Append(@, [so |-> so, pk |-> <<m>>])]
(* the list a packet of session so joins *)
Queue_packet(S, so, m) ==
  LET inBatch == {k \in DOMAIN S.if_batchq : S.if_batchq[k].so = so}
      fast == so # 0 /\ S.so[so].tos = "lowdelay"
      lastFast == Len(S.if_fastq)
      new == [so |-> so, pk |-> <<m>>]
  IN CASE inBatch # {} -> [S EXCEPT !.if_batchq[Max(inBatch)].pk = Append(@, m)]
       [] inBatch = {} /\ fast /\ lastFast > 0 /\ S.if_fastq[lastFast].so = so ->
            [S EXCEPT !.if_fastq[lastFast].pk = Append(@, m)]
       [] inBatch = {} /\ fast -> [S EXCEPT !.if_fastq = Append(@, new)]
       [] OTHER -> [S EXCEPT !.if_batchq = Append(@, new)]
(* a session that hogs the link: its list moves to the head of if_batchq, *)
(* also when it is there already (on_fastq is never cleared)              *)
Downgrade(S, m) ==
  LET l == CHOOSE x \in Range(S.if_fastq) \union Range(S.if_batchq) : m \in Range(x.pk)
      other(q) == SelectSeq(q, LAMBDA x : x # l)
  IN [S EXCEPT !.if_fastq = other(@), !.if_batchq = <<l>> \o other(@)]
if_output(S, so, m) ==
  LET T == Queue_packet(S, so, m)
      U == IF so = 0 THEN T
           ELSE [T EXCEPT !.so[so].queued = @ + 1, !.so[so].nqueued = @ + 1]
      hog == so # 0 /\ U.so[so].nqueued >= HogQueued
                    /\ U.so[so].nqueued - U.so[so].queued >= HogSent
  IN if_start(IF hog THEN Downgrade(U, m) ELSE U)

(* ip_output.c: a packet of its own, or the first and new mbufs as fragments *)
ip_output(S, so, m) ==
  LET pkt == S.mb[m]
      n == IF pkt.data = <<>> THEN 1 ELSE (Len(pkt.data) + Mtu - 1) \div Mtu
      frag(k) == [pkt EXCEPT !.id = S.ip_id, !.off = (k - 1) * Mtu, !.mf = k < n,
                             !.data = SubSeq(@, (k - 1) * Mtu + 1, Min({k * Mtu, Len(@)}))]
      A == FoldLeft(LAMBDA a, k : [S |-> m_get(a.S, frag(k + 1)), ms |-> Append(a.ms, Next_mbuf(a.S))],
                    [S |-> [S EXCEPT !.ip_id = @ + 1, !.mb[m] = frag(1)], ms |-> <<m>>],
                    [k \in 1..(n - 1) |-> k])
  IN FoldLeft(LAMBDA T, f : if_output(T, so, f), A.S, A.ms)

-----------------------------------------------------------------------------
(* ip_input.c, reassembly *)
End(pkt) == pkt.off + Len(pkt.data)
Trim(pkt, n) == [pkt EXCEPT !.off = @ + n, !.data = SubSeq(@, n + 1, Len(@))]

(* frees the fragments and the header *)
ip_freef(S, k) ==
  FoldLeft(m_free, [S EXCEPT !.ipq = RemoveAt(@, k)], Append(S.ipq[k].frags, S.ipq[k].hd))

Covers(S, frags) ==
  /\ \A k \in DOMAIN frags : S.mb[frags[k]].off = (IF k = 1 THEN 0 ELSE End(S.mb[frags[k - 1]]))
  /\ ~S.mb[Last(frags)].mf
(* the fragments as one packet in the first mbuf: m_cat frees the others *)
Concatenate(S, k) ==
  LET frags == S.ipq[k].frags
      data == FlattenSeq([j \in DOMAIN frags |-> S.mb[frags[j]].data])
      T == FoldLeft(m_free, [S EXCEPT !.ipq = RemoveAt(@, k)], Append(Tail(frags), S.ipq[k].hd))
  IN [S |-> [T EXCEPT !.mb[Head(frags)].data = data, !.mb[Head(frags)].mf = FALSE],
      m |-> Head(frags)]

(* a fragment that begins before its predecessor ends keeps all its data *)
Insert_fragment_Overlap(S, k, m) ==
  LET frags == S.ipq[k].frags
      later == {j \in DOMAIN frags : S.mb[frags[j]].off > S.mb[m].off}
      at == IF later = {} THEN Len(frags) + 1 ELSE Min(later)
  IN [S EXCEPT !.ipq[k].frags = InsertAt(@, at, m)]
(* what an earlier fragment has of m is dropped from m, what m has of later *)
(* fragments is dropped from them; m itself is dropped if nothing is left   *)
Insert_fragment(S, k, m) ==
  LET frags == S.ipq[k].frags
      later == {j \in DOMAIN frags : S.mb[frags[j]].off > S.mb[m].off}
      at == IF later = {} THEN Len(frags) + 1 ELSE Min(later)
      over == IF at = 1 THEN 0 ELSE End(S.mb[frags[at - 1]]) - S.mb[m].off
      pkt == IF over > 0 THEN Trim(S.mb[m], over) ELSE S.mb[m]
      covered == {j \in later : End(S.mb[frags[j]]) <= End(pkt)}
      cut == {frags[j] : j \in {i \in later \ covered : S.mb[frags[i]].off < End(pkt)}}
      T == [S EXCEPT !.mb = [x \in Mbufs |-> IF x = m THEN pkt
                               ELSE IF x \in cut THEN Trim(@[x], End(pkt) - @[x].off) ELSE @[x]],
                     !.ipq[k].frags = SubSeq(frags, 1, at - 1) \o <<m>>
                                      \o SubSeq(frags, at + Cardinality(covered), Len(frags))]
  IN IF over > 0 /\ over >= Len(S.mb[m].data) THEN m_free(S, m)
     ELSE FoldSet(LAMBDA j, U : m_free(U, frags[j]), T, covered)

(* the new state, and the mbuf of the complete datagram or 0 *)
ip_reass(S, m) ==
  LET pkt == S.mb[m]
      mine == {k \in DOMAIN S.ipq : S.ipq[k].id = pkt.id /\ S.ipq[k].h = pkt.h}
      fp == [id |-> pkt.id, h |-> pkt.h, ttl |-> IpFragTtl, hd |-> Next_mbuf(S), frags |-> <<m>>]
      T == IF mine = {} THEN [m_get(S, Packet(NoHdr, <<>>)) EXCEPT !.ipq = <<fp>> \o @]
           ELSE Insert_fragment(S, Min(mine), m)
      k == IF mine = {} THEN 1 ELSE Min(mine)
  IN IF T.mb[m].at = "used" /\ Covers(T, T.ipq[k].frags) THEN Concatenate(T, k)
     ELSE [S |-> T, m |-> 0]

(* frees from the last, so that the earlier positions stay valid *)
ip_slowtimo(S) ==
  LET T == [S EXCEPT !.ipq = [k \in DOMAIN @ |-> [@[k] EXCEPT !.ttl = @ - 1]]]
  IN FoldRight(LAMBDA k, U : IF U.ipq[k].ttl = 0 THEN ip_freef(U, k) ELSE U,
               [k \in DOMAIN T.ipq |-> k], T)

-----------------------------------------------------------------------------
(* socket.c and udp.c *)
NoSocket == [lport |-> 0, faddr |-> "none", fport |-> 0, type |-> "none", som |-> 0, tos |-> "bulk",
             queued |-> 0, nqueued |-> 0, conn |-> FALSE]
Next_socket(S) == Min({s \in Sockets : S.so[s].lport = 0})
udp_attach(S, sock) ==
  [S EXCEPT !.so[Next_socket(S)] = sock, !.udb = <<Next_socket(S)>> \o @]
udp_detach(S, s) ==
  m_free([S EXCEPT !.so[s] = NoSocket, !.udb = SelectSeq(@, LAMBDA x : x # s),
                   !.udp_last_so = IF @ = s THEN 0 ELSE @],
         S.so[s].som)

(* ip_icmp.c: an error about the packet in m, which stays; ICMP errors and  *)
(* later fragments get none.  A packet whose start was moved (see           *)
(* udp_input) is misread, as the environment chooses.                       *)
icmp_error(S, m, typ) ==
  LET src == S.mb[m]
      h == [NoHdr EXCEPT !.p = "icmp", !.typ = typ, !.src = "vhost", !.dst = src.h.src]
      answered == IF src.shifted THEN S.env.misread
                  ELSE src.off = 0 /\ (src.h.p = "icmp" => src.h.typ \in {"echo", "echoreply"})
  IN IF m = 0 \/ ~answered THEN S
     ELSE ip_output(m_get(S, Packet(h, <<<<"error", 1>>>>)), 0, Next_mbuf(S))

icmp_reflect(S, m) ==
  ip_output([S EXCEPT !.mb[m].h.src = S.mb[m].h.dst, !.mb[m].h.dst = S.mb[m].h.src], 0, m)

icmp_input(S, m) ==
  LET h == S.mb[m].h
      T == [S EXCEPT !.mb[m].h.typ = "echoreply"]
      s == Next_socket(T)
      U == udp_attach(T, [NoSocket EXCEPT !.lport = 9, !.faddr = h.dst, !.fport = 7, !.type = "icmp",
                                          !.som = m, !.tos = h.tos, !.conn = TRUE])
  IN CASE ~h.ok \/ h.typ # "echo" -> m_free(S, m)
       [] h.ok /\ h.typ = "echo" /\ h.dst = "vhost" -> icmp_reflect(T, m)
       [] OTHER -> IF ~S.env.attach THEN m_free(T, m)
                   ELSE IF S.env.send THEN U
                   ELSE udp_detach(icmp_error(U, m, "unreach"), s)

(* the address a datagram for the guest comes from: an alias is restored *)
Vnetwork == {"vhost", "dns", "bcast"}
udp_source(so) == IF so.faddr = "bcast" THEN "vhost" ELSE so.faddr
udp_output(S, s, m) ==
  ip_output([S EXCEPT !.mb[m].h = [NoHdr EXCEPT !.p = "udp", !.src = udp_source(S.so[s]),
                                     !.dst = "guest", !.sport = S.so[s].fport, !.dport = S.so[s].lport]],
            s, m)

(* bootp.c: the address (0: none) a request gets and the reply's type *)
Owner(S, a) == S.clients[a].mac
May(S, a, mac) == ~S.clients[a].allocated \/ Owner(S, a) = mac
get_new_addr(S, mac) ==
  LET ok == {a \in 1..NbBootpClients : May(S, a, mac)} IN IF ok = {} THEN 0 ELSE Min(ok)
request_addr(S, a, mac) == IF a \in 1..NbBootpClients /\ May(S, a, mac) THEN a ELSE 0
find_addr(S, mac) ==
  LET ok == {a \in 1..NbBootpClients : Owner(S, a) = mac} IN IF ok = {} THEN 0 ELSE Min(ok)
bootp_lease(S, h) ==
  LET asked == request_addr(S, h.req, h.mac)
      known == find_addr(S, h.mac)
  IN CASE h.typ = "discover" -> IF asked # 0 THEN asked ELSE get_new_addr(S, h.mac)
       [] h.typ = "request" /\ h.req # 0 -> asked
       [] OTHER -> IF known # 0 THEN known ELSE get_new_addr(S, h.mac)
bootp_reply(S, h) ==
  LET lease == bootp_lease(S, h)
      nak == h.typ = "request" /\ h.req # 0
      rh == [NoHdr EXCEPT !.p = "udp", !.src = "vhost", !.dst = "bcast", !.sport = 67, !.dport = 68,
               !.typ = IF lease = 0 THEN "nak" ELSE IF h.typ = "discover" THEN "offer" ELSE "ack",
               !.mac = h.mac, !.req = lease]
      m == Next_mbuf(S)
      T == [m_get(S, Packet(rh, <<<<"bootp", 1>>>>)) EXCEPT !.client_ethaddr = h.mac]
  IN CASE h.typ \notin {"discover", "request"} -> S
       [] h.typ \in {"discover", "request"} /\ lease = 0 /\ ~nak -> [T EXCEPT !.lost = @ \union {m}]
       [] OTHER ->
            ip_output(IF lease = 0 THEN T
                      ELSE [T EXCEPT !.clients[lease] = [allocated |-> TRUE, mac |-> h.mac]], 0, m)

(* the socket of a guest port; the one used last is tried first *)
udp_lookup(S, lport) ==
  LET match == {k \in DOMAIN S.udb : S.so[S.udb[k]].lport = lport}
  IN CASE S.udp_last_so # 0 /\ S.so[S.udp_last_so].lport = lport -> S.udp_last_so
       [] match = {} -> 0
       [] OTHER -> S.udb[Min(match)]

(* the packet is kept in so_m for ICMP; after a failed sendto its start is  *)
(* moved back a second time                                                 *)
udp_input(S, m) ==
  LET h == S.mb[m].h
      found == udp_lookup(S, h.sport)
      new == [NoSocket EXCEPT !.lport = h.sport, !.type = "udp", !.tos = h.tos]
      s == IF found = 0 THEN Next_socket(S) ELSE found
      T == IF found = 0 THEN udp_attach(S, new) ELSE [S EXCEPT !.udp_last_so = s]
      U == [T EXCEPT !.so[s].faddr = h.dst, !.so[s].fport = h.dport]
      V == IF S.env.send THEN [U EXCEPT !.so[s].conn = TRUE] ELSE icmp_error(U, m, "unreach")
  IN CASE ~h.ok -> m_free(S, m)
       [] h.ok /\ h.dport = 67 -> m_free(bootp_reply(S, h), m)
       [] h.ok /\ h.dport # 67 /\ found = 0 /\ ~S.env.attach -> m_free(S, m)
       [] OTHER -> [m_free(V, V.so[s].som) EXCEPT !.so[s].som = m,
                                                  !.mb[m].shifted = ~S.env.send]

(* the mbuf of an answered ping is freed with its socket as well *)
sorecvfrom_Twice(S, s, n) ==
  LET m == Next_mbuf(S)
      T == m_get(S, Packet(NoHdr, [k \in 1..n |-> <<"host", k>>]))
  IN CASE S.so[s].type = "icmp" -> udp_detach(icmp_reflect(S, S.so[s].som), s)
       [] n = 0 -> m_free(icmp_error(T, S.so[s].som, "unreach"), m)
       [] OTHER -> udp_output(T, s, m)
(* sorecvfrom: the host's answer of n units, or an error *)
sorecvfrom(S, s, n) ==
  LET som == S.so[s].som
      m == Next_mbuf(S)
      T == m_get(S, Packet(NoHdr, [k \in 1..n |-> <<"host", k>>]))
  IN CASE S.so[s].type = "icmp" /\ n = 0 -> udp_detach(icmp_error(S, som, "unreach"), s)
       [] S.so[s].type = "icmp" /\ n > 0 ->
            udp_detach([icmp_reflect(S, som) EXCEPT !.so[s].som = 0], s)
       [] S.so[s].type = "udp" /\ n = 0 -> m_free(icmp_error(T, som, "unreach"), m)
       [] OTHER -> udp_output(T, s, m)

-----------------------------------------------------------------------------
(* ip_input: a packet shorter than a header is neither handled nor freed *)
Protocol_input(S, m) ==
  LET T == [S EXCEPT !.up = S.mb[m].data]
  IN CASE S.mb[m].h.p = "udp" -> udp_input(T, m)
       [] S.mb[m].h.p = "icmp" -> icmp_input(T, m)
       [] OTHER -> m_free(T, m)
ip_input(S, m) ==
  LET pkt == S.mb[m]
      r == ip_reass(S, m)
      mine == {k \in DOMAIN S.ipq : S.ipq[k].id = pkt.id /\ S.ipq[k].h = pkt.h}
  IN CASE pkt.h.p = "short" -> [S EXCEPT !.lost = @ \union {m}]
       [] pkt.h.p # "short" /\ ~pkt.h.good -> m_free(S, m)
       [] pkt.h.p # "short" /\ pkt.h.good /\ pkt.h.ttl = 0 -> m_free(icmp_error(S, m, "timxceed"), m)
       [] OTHER -> IF pkt.mf \/ pkt.off > 0
                   THEN IF r.m = 0 THEN r.S ELSE Protocol_input(r.S, r.m)
                   ELSE Protocol_input(IF pkt.rf /\ mine # {} THEN ip_freef(S, Min(mine)) ELSE S, m)

slirp_input(S, pkt) == ip_input(m_get(S, pkt), Next_mbuf(S))
=============================================================================
