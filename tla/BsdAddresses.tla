---------------------------- MODULE BsdAddresses ----------------------------
(***************************************************************************)
(* The addresses of usockets/src/bsd.c: a bsd_addr_t is filled by the      *)
(* kernel, then "finalized" into a pointer, a length and a port.  The      *)
(* library keeps one on its stack, so an address is written over what an   *)
(* earlier call left there, of a socket of another family perhaps.  What   *)
(* the calls of libusockets.h tell of a socket comes from it.              *)
(***************************************************************************)
EXTENDS Integers

CONSTANTS Sockets,    \* connected or accepted sockets
          PortNumbers,
          Unset       \* memory nobody wrote

VARIABLES names,    \* the local and the remote address of each socket
          alive,    \* sockets whose connection was not reset
          addr,     \* the bsd_addr_t
          asked     \* the last call: of which socket and end, and its result

vars == <<names, alive, addr, asked>>

Families == {"inet", "inet6", "unix"}

Ends == {"local", "remote"}

\* The length of the host part of a kernel's address.
HostLength(family) == CASE family = "inet6" -> 16 [] family = "inet" -> 4 [] OTHER -> 0

\* Addresses as the kernel stores them: a local socket has no port.
Named(family, ports) ==
    [family : {family}, port : IF family = "unix" THEN {Unset} ELSE ports]

NothingAsked == [socket |-> Unset, end |-> "local", result |-> -1]

Init ==
    /\ \E f \in [Sockets -> Families] :
         names \in [Sockets -> UNION {[Ends -> Named(g, PortNumbers)] : g \in Families}]
             /\ \A s \in Sockets, e \in Ends : names[s][e].family = f[s]
    /\ alive = Sockets
    /\ addr = [mem |-> Unset, ip |-> Unset, ip_length |-> Unset, port |-> Unset]
    /\ asked = NothingAsked
-----------------------------------------------------------------------------
\* Mutant: only addresses of the Internet are looked at.
internal_finalize_bsd_addr_stale(a) ==
    IF a.mem.family = "unix" THEN a
    ELSE [a EXCEPT !.ip = a.mem.family, !.ip_length = HostLength(a.mem.family), !.port = a.mem.port]

\* The pointer leads into the address itself, to where its family has the
\* host; without a host the pointer stays and the length is 0.
internal_finalize_bsd_addr(a) ==
    IF a.mem.family = "unix"
      THEN [a EXCEPT !.ip_length = 0, !.port = -1]
      ELSE [a EXCEPT !.ip = a.mem.family, !.ip_length = HostLength(a.mem.family),
                     !.port = a.mem.port]

\* getsockname or getpeername succeeded, or accept.
Filled(s, end) ==
    /\ addr' = internal_finalize_bsd_addr([addr EXCEPT !.mem = names[s][end]])
    /\ asked' = [socket |-> s, end |-> end, result |-> 0]
    /\ UNCHANGED <<names, alive>>

\* It failed: the address is what it was.
Refused(s, end) ==
    /\ asked' = [socket |-> s, end |-> end, result |-> -1]
    /\ UNCHANGED <<names, alive, addr>>

bsd_local_addr(s) == Filled(s, "local") \/ Refused(s, "local")

bsd_remote_addr(s) == IF s \in alive THEN Filled(s, "remote") ELSE Refused(s, "remote")

\* bsd_accept_socket gives the peer's address with the new socket.
AcceptAddress(s) == s \in alive /\ Filled(s, "remote")

bsd_addr_get_ip == addr.ip

bsd_addr_get_ip_length == addr.ip_length

bsd_addr_get_port == addr.port

\* The peer resets the connection; it has no remote address any more.
Reset(s) ==
    /\ s \in alive
    /\ alive' = alive \ {s}
    /\ UNCHANGED <<names, addr, asked>>

Next ==
    \E s \in Sockets : bsd_local_addr(s) \/ bsd_remote_addr(s) \/ AcceptAddress(s) \/ Reset(s)

Spec == Init /\ [][Next]_vars
-----------------------------------------------------------------------------
(* What libusockets.h promises, from the last call.                        *)

us_socket_port == IF asked.result = 0 THEN bsd_addr_get_port ELSE -1

us_socket_address_length == IF asked.result = 0 THEN bsd_addr_get_ip_length ELSE 0

\* A socket's port and host are its own, never those of the socket that was
\* asked before it: -1 and length 0 after a failure and for a local socket,
\* and otherwise a pointer to the host of the very family.
AddressIsOwn ==
    LET name == names[asked.socket][asked.end]
        told == asked.result = 0 /\ name.family # "unix"
    IN  asked # NothingAsked =>
          /\ us_socket_port = IF told THEN name.port ELSE -1
          /\ us_socket_address_length = IF told THEN HostLength(name.family) ELSE 0
          /\ told => bsd_addr_get_ip = name.family /\ addr.mem = name
=============================================================================
