----------------------------- MODULE MCUsockets -----------------------------
(***************************************************************************)
(* The usockets server and the socket layer below it for TLC, on small     *)
(* instances.  The parts share no state; a behaviour exercises one of      *)
(* them, so that their states add up and do not multiply.                  *)
(***************************************************************************)
EXTENDS BsdSockets, TLC

CONSTANTS LIBUS_UDP_MAX_NUM, LIBUS_UDP_MAX_SIZE, Payloads, Hosts, Tails, Tos,
          Room, Headers, Bodies, MaxBytes, Sockets, PortNumbers,
          Kinds, OutRoom, MaxRequests, MaxPieces

VARIABLES part,                                              \* the part exercised
          family, buffer, meant, written, last,              \* of BsdPackets
          windows, pending, submitted, wire, half, corked, shut, deaf, got, eof, \* of BsdStreams
          names, alive, addr, asked,                         \* of BsdAddresses
          server, conn, polite, inbox, sent, leaving, taken, read, cut, answers,
          stream                                             \* of UsocketsServer

\* Bytes that occur in datagrams.
DatagramBytes == UNION {{p[i] : i \in DOMAIN p} : p \in Payloads}

\* A packet has room for every datagram: 64 KB, more than UDP carries.
ASSUME PayloadsFit ==
    /\ Payloads \subseteq Seq(DatagramBytes)
    /\ \A p \in Payloads : Len(p) <= LIBUS_UDP_MAX_SIZE

ASSUME BufferSizes == LIBUS_UDP_MAX_NUM \in Nat /\ LIBUS_UDP_MAX_SIZE \in Nat

\* Memory nobody wrote is told from a length that was set.
ASSUME JunkIsNoLength == None \notin Nat

ASSUME StreamAssumption == Headers \subseteq Seq(Nat) /\ Bodies \subseteq Seq(Nat) /\ Room \in Nat

Packets == INSTANCE BsdPackets WITH Junk <- None

Streams == INSTANCE BsdStreams

Addresses == INSTANCE BsdAddresses WITH Unset <- None

Server == INSTANCE UsocketsServer WITH Room <- OutRoom

MCLists == {<<"inet", "inet6">>}

MCPayloads == {<<"a">>, <<"b", "a">>}

MCHeaders == {<<>>, <<1>>, <<1, 2>>}

MCBodies == {<<>>, <<3>>, <<3, 4>>}

Symmetry == Permutations(Threads) \cup Permutations(Fds)

packetVars == <<family, buffer, meant, written, last>>

streamVars == <<windows, pending, submitted, wire, half, corked, shut, deaf, got, eof>>

addressVars == <<names, alive, addr, asked>>

connVars == <<server, conn, polite, inbox, sent, leaving, taken, read, cut, answers, stream>>

mcVars == <<part, vars, packetVars, streamVars, addressVars, connVars>>

\* The parts that are not exercised have one initial state.
MCInit ==
    /\ part \in {"sockets", "packets", "streams", "addresses", "server"}
    /\ Init /\ Packets!Init /\ Streams!Init /\ Addresses!Init /\ Server!Init
    /\ part \notin {"sockets", "packets"} => platform = "linux"
    /\ part # "packets" => family = "inet"
    /\ part # "streams" => ~windows
    /\ part # "addresses" => names = [s \in Sockets |-> [e \in Addresses!Ends |->
                                        [family |-> "unix", port |-> None]]]
    /\ part # "server" => polite

MCNext ==
    \/ part = "sockets" /\ Next /\ UNCHANGED <<part, packetVars, streamVars, addressVars, connVars>>
    \/ part = "packets" /\ Packets!Next /\ UNCHANGED <<part, vars, streamVars, addressVars, connVars>>
    \/ part = "streams" /\ Streams!Next /\ UNCHANGED <<part, vars, packetVars, addressVars, connVars>>
    \/ part = "addresses" /\ Addresses!Next /\ UNCHANGED <<part, vars, packetVars, streamVars, connVars>>
    \/ part = "server" /\ Server!Next /\ UNCHANGED <<part, vars, packetVars, streamVars, addressVars>>

MCSpec == MCInit /\ [][MCNext]_mcVars

\* A datagram is sent as it was prepared, whatever the buffer was used for
\* before, and reads as it was received (bsd_sendmmsg, bsd_recvmmsg).
DatagramsWhole == Packets!SentAsSet /\ Packets!ReceivedWhole

\* A stream arrives in the order written and without a gap, and its end is
\* reported behind all of its data (bsd_write2, bsd_send, bsd_recv).
StreamWhole == Streams!StreamInOrder /\ Streams!EndAfterData

\* The address told of a socket is its own (internal_finalize_bsd_addr).
AddressIsOwn == Addresses!AddressIsOwn

\* Every read gets one response, in order, whichever path answers it, and
\* where the header of the last response is exact the connection ends as it
\* says (usockets_on_data, send_usockets_response).
ResponsesInOrder == Server!OneAnswer /\ Server!ClosesAsAnnounced

\* A streamed response is one well-framed chunked body whatever its callback
\* does (handle_usockets_streaming_response, UsocketsStreamWriter).
StreamFramed == Server!StreamFramed
=============================================================================
