----------------------------- MODULE BsdPackets -----------------------------
(***************************************************************************)
(* The datagram part of usockets/src/bsd.c: a buffer of LIBUS_UDP_MAX_NUM  *)
(* packets is filled and sent with one call, or received into with one     *)
(* call, on one UDP socket.  The layout differs between the platforms:     *)
(* Linux keeps the kernel's message headers, whose lengths the kernel both *)
(* reads and writes; the others keep a pointer, a length and an address.   *)
(* The kernel is external.                                                 *)
(***************************************************************************)
EXTENDS Integers, Sequences

CONSTANTS LIBUS_UDP_MAX_NUM,    \* packets in a buffer
          LIBUS_UDP_MAX_SIZE,   \* bytes of a packet
          Payloads,             \* what programs send: sequences of bytes
          Hosts,                \* the first sizeof(sockaddr_in) bytes of an address
          Tails,                \* the rest of an IPv6 address
          Tos,                  \* the type-of-service byte of a packet
          Junk                  \* memory nobody wrote

Index == 1 .. LIBUS_UDP_MAX_NUM

VARIABLES platform,   \* "linux", "apple" or "windows"
          family,     \* of the socket: "inet" or "inet6"
          buffer,     \* the packets of the buffer
          meant,      \* what each packet holds in its user's eyes, or Junk
          written,    \* the packets ever prepared for sending in this buffer
          last        \* the last call on the socket: what it returned and moved

vars == <<platform, family, buffer, meant, written, last>>

Linux == platform = "linux"

\* An address: only IPv6 has bytes beyond sizeof(sockaddr_in).
Addresses == IF family = "inet" THEN [host : Hosts, tail : {Junk}] ELSE [host : Hosts, tail : Tails]

NoCall == [op |-> "none", num |-> 0, ret |-> 0, moved |-> <<>>]

Least(a, b) == IF a < b THEN a ELSE b

\* The bytes of a packet's memory after copying data to an offset.
Memory(base, offset, data) ==
    [i \in 1 .. LIBUS_UDP_MAX_SIZE |->
        IF i \in offset + 1 .. offset + Len(data) THEN data[i - offset] ELSE base[i]]

\* bsd_create_udp_packet_buffer: room is iov_len, len is msg_len or len.
bsd_create_udp_packet_buffer ==
    [i \in Index |-> [name |-> [host |-> Junk, tail |-> Junk], room |-> LIBUS_UDP_MAX_SIZE,
                      len |-> Junk, controllen |-> 256, control |-> {},
                      base |-> [k \in 1 .. LIBUS_UDP_MAX_SIZE |-> Junk]]]

Init ==
    /\ platform \in {"linux", "apple", "windows"}
    /\ family \in {"inet", "inet6"}
    /\ buffer = bsd_create_udp_packet_buffer
    /\ meant = [i \in Index |-> Junk]
    /\ written = {}
    /\ last = NoCall
-----------------------------------------------------------------------------
(* What the user reads from a packet.                                      *)

bsd_udp_packet_buffer_peer(i) == buffer[i].name

bsd_udp_packet_buffer_payload_length(i) == buffer[i].len

bsd_udp_packet_buffer_payload(i) == SubSeq(buffer[i].base, 1, bsd_udp_packet_buffer_payload_length(i))

\* The control messages of a packet the kernel had room for.
Control(i) == IF Linux /\ buffer[i].controllen > 0 THEN buffer[i].control ELSE {}

\* The length of the address copied out, 0 for none.
bsd_udp_packet_buffer_local_ip(i) ==
    CASE \E m \in Control(i) : m.type = "IP_PKTINFO"   -> 4
      [] \E m \in Control(i) : m.type = "IPV6_PKTINFO" -> 16
      [] OTHER -> 0

bsd_udp_packet_buffer_ecn(i) ==
    IF \E m \in Control(i) : m.type \in {"IP_TOS", "IPV6_TCLASS"}
      THEN (CHOOSE m \in Control(i) : m.type \in {"IP_TOS", "IPV6_TCLASS"}).tos % 4
      ELSE 0
-----------------------------------------------------------------------------
(* Sending.                                                                *)

\* Linux copies sizeof(sockaddr_in) bytes of the peer's address, the others
\* sizeof(sockaddr_storage).
SetName(old, peer) == IF Linux THEN [old EXCEPT !.host = peer.host] ELSE peer

\* Linux appends at the offset, the others ignore it.
bsd_udp_buffer_set_packet_payload(i, offset, payload, peer) ==
    /\ buffer' = [buffer EXCEPT
         ![i].name = SetName(@, peer),
         ![i].base = Memory(@, IF Linux THEN offset ELSE 0, payload),
         ![i].room = IF Linux THEN Len(payload) + offset ELSE @,
         ![i].controllen = IF Linux THEN 0 ELSE @,
         ![i].len = IF Linux THEN @ ELSE Len(payload)]
    /\ meant' = [meant EXCEPT ![i] =
         [by |-> IF offset = 0 THEN "set" ELSE "append", peer |-> peer,
          data |-> IF offset = 0 THEN payload ELSE SubSeq(meant[i].data, 1, offset) \o payload]]
    /\ written' = written \cup {i}
    /\ last' = NoCall
    /\ UNCHANGED <<platform, family>>

\* A packet the user has prepared and no receive has overwritten since.
Prepared(i) == meant[i] # Junk /\ meant[i].by \in {"set", "append"}

\* What the kernel is handed for packet i: Windows passes sizeof(sockaddr_in)
\* bytes of the address.  A length nobody set is arbitrary.
Outgoing(i) ==
    [data |-> CASE Linux -> SubSeq(buffer[i].base, 1, buffer[i].room)
                [] ~Linux /\ buffer[i].len # Junk -> SubSeq(buffer[i].base, 1, buffer[i].len)
                [] OTHER -> Junk,
     peer |-> IF Linux THEN buffer[i].name ELSE [buffer[i].name EXCEPT !.tail = Junk]]

\* The kernel takes the first n packets and refuses the next, if there is one.
\* Windows sends the whole buffer whatever num is; Apple reads the buffer as
\* message headers it does not hold, so anything may be sent.
bsd_sendmmsg(num) ==
    LET all == IF platform = "windows" THEN LIBUS_UDP_MAX_NUM ELSE num
    IN  /\ \E n \in 0 .. all :
             last' = [op |-> "send", num |-> num,
                      ret |-> IF n = 0 /\ platform # "windows" THEN -1 ELSE n,
                      moved |-> [i \in 1 .. n |-> IF platform = "apple" THEN Junk ELSE Outgoing(i)]]
        /\ UNCHANGED <<platform, family, buffer, meant, written>>
-----------------------------------------------------------------------------
(* Receiving.                                                              *)

Datagrams == [data : Payloads, peer : Addresses, tos : Tos]

\* What the kernel tells about a packet, where bsd_create_udp_socket asked.
ControlOf(d) ==
    {[type |-> IF family = "inet" THEN "IP_PKTINFO" ELSE "IPV6_PKTINFO", tos |-> 0],
     [type |-> IF family = "inet" THEN "IP_TOS" ELSE "IPV6_TCLASS", tos |-> d.tos]}

\* Mutant: the room for control messages is what the last call left.
Rearm_none(s) == s

\* bsd_recvmmsg gives the kernel the room for control messages again.
Rearm(s) == IF Linux THEN [s EXCEPT !.controllen = 256] ELSE s

\* The kernel stores a datagram: at most room bytes of it on Linux, at most
\* LIBUS_UDP_MAX_SIZE elsewhere.
Stored(s, d) ==
    LET n == Least(Len(d.data), IF Linux THEN s.room ELSE LIBUS_UDP_MAX_SIZE)
    IN  [s EXCEPT !.name = d.peer, !.len = n,
                  !.base = Memory(@, 0, SubSeq(d.data, 1, n)),
                  !.control = IF Linux /\ s.controllen > 0 THEN ControlOf(d) ELSE {}]

\* The waiting datagrams fill the buffer from its start.
bsd_recvmmsg(ds) ==
    /\ Len(ds) <= LIBUS_UDP_MAX_NUM
    /\ buffer' = [i \in Index |->
         IF i <= Len(ds) THEN Stored(Rearm(buffer[i]), ds[i]) ELSE Rearm(buffer[i])]
    /\ meant' = [i \in Index |-> 
         IF i <= Len(ds) THEN [by |-> "receive", peer |-> ds[i].peer, data |-> ds[i].data]
         ELSE meant[i]]
    /\ last' = [op |-> "receive", num |-> LIBUS_UDP_MAX_NUM,
                ret |-> IF Linux /\ ds = <<>> THEN -1 ELSE Len(ds), moved |-> ds]
    /\ UNCHANGED <<platform, family, written>>
-----------------------------------------------------------------------------
(* The user's side, as libusockets.h offers it: what is appended to or     *)
(* sent was prepared before, and a packet fits its slot, which the code    *)
(* does not check.                                                         *)

us_udp_buffer_set_packet_payload(i, offset, payload, peer) ==
    /\ offset > 0 => Prepared(i) /\ Len(meant[i].data) >= offset
    /\ offset + Len(payload) <= LIBUS_UDP_MAX_SIZE
    /\ bsd_udp_buffer_set_packet_payload(i, offset, payload, peer)

us_udp_socket_send(num) ==
    /\ \A i \in 1 .. num : Prepared(i)
    /\ bsd_sendmmsg(num)

us_udp_socket_receive ==
    \E n \in 0 .. LIBUS_UDP_MAX_NUM : \E ds \in [1 .. n -> Datagrams] : bsd_recvmmsg(ds)

\* What the user reads of a received packet.
us_udp_packet(i) ==
    [peer |-> bsd_udp_packet_buffer_peer(i), payload |-> bsd_udp_packet_buffer_payload(i),
     local_ip |-> bsd_udp_packet_buffer_local_ip(i), ecn |-> bsd_udp_packet_buffer_ecn(i)]

Next ==
    \/ \E i \in Index, offset \in 0 .. LIBUS_UDP_MAX_SIZE, p \in Payloads, a \in Addresses :
         us_udp_buffer_set_packet_payload(i, offset, p, a)
    \/ \E num \in Index : us_udp_socket_send(num)
    \/ us_udp_socket_receive

Spec == Init /\ [][Next]_vars
-----------------------------------------------------------------------------
(* Properties.                                                             *)

\* The packets a send reports as sent are the ones its caller prepared, in
\* order: each with its own payload, also after the buffer was received into
\* or filled before, and, for IPv4, to its own peer.  Appending at an offset
\* is left out where the code ignores the offset, and Apple altogether.
SentAsSet ==
    last.op = "send" /\ platform # "apple" =>
        \A k \in 1 .. Least(last.num, Len(last.moved)) :
            Linux \/ meant[k].by = "set" =>
                /\ last.moved[k].data = meant[k].data
                /\ last.moved[k].peer.host = meant[k].peer.host
                /\ family = "inet" => last.moved[k].peer = meant[k].peer

\* A packet that was received reads as its sender sent it: its peer, and on
\* Linux its destination address and congestion mark, also in a buffer that
\* was sent from before; its payload in a packet no send was prepared in.
ReceivedWhole ==
    last.op = "receive" =>
        \A k \in 1 .. Len(last.moved) :
            /\ us_udp_packet(k).peer = last.moved[k].peer
            /\ k \notin written \/ ~Linux => us_udp_packet(k).payload = last.moved[k].data
            /\ Linux => /\ us_udp_packet(k).local_ip = IF family = "inet" THEN 4 ELSE 16
                        /\ us_udp_packet(k).ecn = last.moved[k].tos % 4
=============================================================================
