----------------------------- MODULE MCSlirpIp -----------------------------
(* Guests that send: a datagram of three units in overlapping fragments;   *)
(* low-delay sessions and pings of the host; pings of the outside that     *)
(* share port 9 with a UDP session; BOOTP requests and broken packets.     *)
EXTENDS SlirpIp

H(p, dst, sport, dport) ==
  [NoHdr EXCEPT !.p = p, !.src = "guest", !.dst = dst, !.sport = sport, !.dport = dport, !.ttl = 1]
D(id, h, len, frags) == [id |-> id, h |-> h, len |-> len, rf |-> FALSE, frags |-> frags]
Whole(id, h) == D(id, h, 1, {<<0, 1>>})
Boot(id, typ, mac, req) ==
  Whole(id, [H("udp", "bcast", 68, 67) EXCEPT !.typ = typ, !.mac = mac, !.req = req])

Big == D(1, H("udp", "vhost", 5, 7), 3, {<<0, 1>>, <<0, 2>>, <<1, 1>>, <<1, 2>>, <<2, 1>>})
Fast == Whole(2, [H("udp", "dns", 6, 53) EXCEPT !.tos = "lowdelay"])
Fast2 == Whole(3, [H("udp", "outside", 8, 7) EXCEPT !.tos = "lowdelay"])
Reserved == [Whole(1, H("udp", "vhost", 5, 7)) EXCEPT !.rf = TRUE]
Ping == Whole(4, [H("icmp", "vhost", 0, 0) EXCEPT !.typ = "echo"])
PingOut == Whole(5, [H("icmp", "outside", 0, 0) EXCEPT !.typ = "echo"])
Echo == Whole(16, H("udp", "vhost", 9, 7))
Expired == D(6, [H("udp", "outside", 5, 7) EXCEPT !.ttl = 0], 2, {<<0, 1>>, <<1, 1>>})
Short == Whole(7, H("short", "vhost", 0, 0))
Other == Whole(8, H("other", "vhost", 0, 0))
Bad == {Whole(9, [H("udp", "vhost", 5, 7) EXCEPT !.good = FALSE]),
        Whole(10, [H("udp", "vhost", 5, 7) EXCEPT !.ok = FALSE])}
Boots == {Boot(11, "discover", "a", 0), Boot(12, "request", "b", 1), Boot(13, "discover", "b", 2),
          Boot(14, "request", "c", 0), Boot(15, "other", "a", 0)}

MCMenus == {{Big, Reserved, Expired}, {Fast, Fast2}, {Ping, PingOut, Echo, Other},
            Boots \union Bad \union {Short}}
MCArps == {[op |-> "request", mac |-> "a", ip |-> "vhost"], [op |-> "reply", mac |-> "a", ip |-> "guest"],
           [op |-> "request", mac |-> "a", ip |-> "outside"]}
=============================================================================
