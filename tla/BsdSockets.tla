----------------------------- MODULE BsdSockets -----------------------------
(***************************************************************************)
(* The socket calls of usockets/src/bsd.c, the copy of the library's file  *)
(* the build of this repository compiles in.  Several threads, each with   *)
(* an event loop of its own, create, accept and close sockets of one       *)
(* process at the same time.  A creating function is several system calls, *)
(* any of which may fail; a step of the model ends with a call the kernel  *)
(* arbitrates between threads: socket, bind, listen, connect.  The kernel  *)
(* is external: descriptors, ports and the paths of local sockets.         *)
(***************************************************************************)
EXTENDS Integers, Sequences, FiniteSets

CONSTANTS Threads,    \* threads with an event loop
          Fds,        \* descriptors of the process; socket() fails without one
          Ports,      \* ports asked for by number
          Paths,      \* paths of local sockets
          Lists,      \* what getaddrinfo may answer: sequences of families
          None        \* no descriptor, no port, no path

ASSUME ThreadsFinite == IsFiniteSet(Threads)
ASSUME NoneIsNoFd == None \notin Fds

Platforms == {"linux", "apple", "windows"}

VARIABLES platform,   \* the platform the library was built for
          fds,        \* the open descriptors, as the kernel sees them
          held,       \* the descriptors the library was given and has not closed
          infos,      \* the number of results of getaddrinfo not freed yet
          paths,      \* the socket a path leads to
          call        \* the creating function each thread is in

vars == <<platform, fds, held, infos, paths, call>>

NoCall == [fn |-> "none", pc |-> "idle", port |-> None, exclusive |-> FALSE,
           source |-> FALSE, path |-> None, todo |-> <<>>, fd |-> None]

\* On Windows libuv makes a socket non-blocking later.
bsd_set_nonblocking(s) == [s EXCEPT !.nonblocking = platform # "windows"]

apple_no_sigpipe(s) == [s EXCEPT !.nosigpipe = platform = "apple"]

\* What socket() gives, and accept4() on Linux: the flags are part of the call.
KernelSocket(family, type) ==
    [family |-> family, type |-> type, nonblocking |-> platform = "linux", nosigpipe |-> FALSE,
     reuseport |-> FALSE, reuseaddr |-> FALSE, exclusiveuse |-> FALSE,
     v6only |-> family = "inet6", exclusive |-> FALSE,
     port |-> None, path |-> None, listening |-> FALSE]

bsd_create_socket(family, type) ==
    bsd_set_nonblocking(apple_no_sigpipe(KernelSocket(family, type)))

Open == DOMAIN fds

FdsWith(fd, s) == [f \in Open \cup {fd} |-> IF f = fd THEN s ELSE fds[f]]

FdsWithout(fd) == [f \in Open \ {fd} |-> fds[f]]

-----------------------------------------------------------------------------
(* The kernel's rules for two sockets on one port.                         *)

\* An IPv6 socket that is not restricted to IPv6 takes the port of both.  Hosts
\* are left out: every socket here is on the wildcard address, as the program's.
Overlap(s, o) ==
    /\ s.type = o.type /\ s.port # None /\ s.port = o.port
    /\ s.family = o.family \/ (~s.v6only /\ ~o.v6only)

MayShare(s, o) ==
    \/ platform \in {"linux", "apple"} /\ s.reuseport /\ o.reuseport
    \/ platform = "linux" /\ s.reuseaddr /\ o.reuseaddr /\ (s.type = "dgram" \/ ~o.listening)
    \/ platform = "windows" /\ s.reuseaddr /\ ~o.exclusiveuse

MayBind(s) == \A f \in Open : Overlap(s, fds[f]) => MayShare(s, fds[f])

MayListen(fd) ==
    platform = "linux" =>
        \A f \in Open \ {fd} : Overlap(fds[fd], fds[f]) /\ fds[f].listening =>
                                   fds[fd].reuseport /\ fds[f].reuseport
-----------------------------------------------------------------------------
(* The parts of the creating functions.                                    *)

UsesInfo(fn) == fn \in {"listen", "udp", "connect"}

\* The function returns: its result of getaddrinfo is freed.
Return(th) ==
    /\ call' = [call EXCEPT ![th] = NoCall]
    /\ infos' = IF UsesInfo(call[th].fn) THEN infos - 1 ELSE infos

\* Mutant: the error path does not close the descriptor.
CloseAndFail_open(th) ==
    /\ Return(th)
    /\ UNCHANGED <<fds, held>>

\* LIBUS_SOCKET_ERROR, after bsd_close_socket
CloseAndFail(th) ==
    /\ fds' = FdsWithout(call[th].fd)
    /\ Return(th)
    /\ UNCHANGED held

Succeed(th, s) ==
    /\ fds' = FdsWith(call[th].fd, s)
    /\ held' = held \cup {call[th].fd}
    /\ Return(th)

\* The addresses in the order they are tried: IPv6 is preferred.
InOrderOfTrial(list) ==
    SelectSeq(list, LAMBDA f : f = "inet6") \o SelectSeq(list, LAMBDA f : f = "inet")

\* Mutant: an exclusive listener shares its port like every other.
ListenOptions_shared(s, c) ==
    [s EXCEPT !.reuseport = c.port # None, !.reuseaddr = c.port # None, !.v6only = FALSE,
              !.exclusive = c.port # None /\ c.exclusive]

\* The options of a listener; they matter only for a port that was asked for.
ListenOptions(s, c) ==
    LET exclusive == c.port # None /\ c.exclusive
        win       == platform = "windows"
    IN  [s EXCEPT !.exclusiveuse = win /\ exclusive,
                  !.reuseport = ~win /\ c.port # None /\ ~exclusive,
                  !.reuseaddr = c.port # None /\ ~(win /\ exclusive),
                  !.v6only = FALSE,
                  !.exclusive = exclusive]

UdpOptions(s, c) == [s EXCEPT !.reuseaddr = c.port # None, !.v6only = FALSE]

\* The options set between socket and bind.
Options(s, c) ==
    CASE c.fn = "listen" -> ListenOptions(s, c)
      [] c.fn = "udp"    -> UdpOptions(s, c)
      [] OTHER           -> s
-----------------------------------------------------------------------------
(* The creating functions, up to their first system call on a socket.  A   *)
(* failing getaddrinfo changes nothing.                                    *)

Begin(th, c) ==
    /\ call[th].pc = "idle"
    /\ call' = [call EXCEPT ![th] = [c EXCEPT !.pc = "socket"]]
    /\ infos' = IF UsesInfo(c.fn) THEN infos + 1 ELSE infos
    /\ UNCHANGED <<platform, fds, held, paths>>

\* What a listener may be asked for.
Asked == {"LIBUS_LISTEN_DEFAULT", "LIBUS_LISTEN_EXCLUSIVE_PORT"}

\* The option is looked at with a port only.
bsd_create_listen_socket(th, port, options) ==
    \E list \in Lists :
        Begin(th, [NoCall EXCEPT !.fn = "listen", !.port = port,
                                 !.exclusive = options = "LIBUS_LISTEN_EXCLUSIVE_PORT" /\ port # None,
                                 !.todo = InOrderOfTrial(list)])

bsd_create_udp_socket(th, port) ==
    \E list \in Lists :
        Begin(th, [NoCall EXCEPT !.fn = "udp", !.port = port, !.todo = InOrderOfTrial(list)])

\* Only the first address is tried.
bsd_create_connect_socket(th, source_host) ==
    \E list \in Lists :
        Begin(th, [NoCall EXCEPT !.fn = "connect", !.source = source_host,
                                 !.todo = <<Head(list)>>])

bsd_create_listen_socket_unix(th, path) ==
    Begin(th, [NoCall EXCEPT !.fn = "listen_unix", !.path = path, !.todo = <<"unix">>])

bsd_create_connect_socket_unix(th) ==
    Begin(th, [NoCall EXCEPT !.fn = "connect_unix", !.todo = <<"unix">>])
-----------------------------------------------------------------------------
(* Their later steps.                                                      *)

\* The next pc after socket() succeeded.
AfterSocket(c) == IF c.fn \in {"connect", "connect_unix"} THEN "connect" ELSE "bind"

SocketCreated(th) ==
    LET c == call[th]
        s == bsd_create_socket(Head(c.todo), IF c.fn = "udp" THEN "dgram" ELSE "stream")
    IN  /\ c.pc = "socket" /\ c.todo # <<>>
        /\ \E fd \in Fds \ Open :
             /\ fds' = FdsWith(fd, Options(s, c))
             /\ call' = [call EXCEPT ![th].pc = AfterSocket(c), ![th].fd = fd,
                                    ![th].todo = <<>>]
        /\ paths' = IF c.fn = "listen_unix" THEN [paths EXCEPT ![c.path] = None] ELSE paths
        /\ UNCHANGED <<platform, held, infos>>

\* socket() failed: the next address is tried, if there is one.
SocketRefused(th) ==
    /\ call[th].pc = "socket"
    /\ IF Len(call[th].todo) > 1
         THEN /\ call' = [call EXCEPT ![th].todo = Tail(@)]
              /\ UNCHANGED infos
         ELSE Return(th)
    /\ UNCHANGED <<platform, fds, held, paths>>

Bind(th) ==
    LET c == call[th]
        s == [fds[c.fd] EXCEPT !.port = c.port, !.path = c.path]
    IN  /\ c.pc = "bind"
        /\ c.path = None => MayBind(s)
        /\ c.path # None => paths[c.path] = None
        /\ paths' = IF c.path = None THEN paths ELSE [paths EXCEPT ![c.path] = c.fd]
        /\ IF c.fn = "udp"
             THEN Succeed(th, s)
             ELSE /\ fds' = FdsWith(c.fd, s)
                  /\ call' = [call EXCEPT ![th].pc = "listen"]
                  /\ UNCHANGED <<held, infos>>
        /\ UNCHANGED platform

BindFailed(th) ==
    /\ call[th].pc = "bind"
    /\ CloseAndFail(th)
    /\ UNCHANGED <<platform, paths>>

Listen(th) ==
    /\ call[th].pc = "listen"
    /\ MayListen(call[th].fd)
    /\ Succeed(th, [fds[call[th].fd] EXCEPT !.listening = TRUE])
    /\ UNCHANGED <<platform, paths>>

ListenFailed(th) ==
    /\ call[th].pc = "listen"
    /\ CloseAndFail(th)
    /\ UNCHANGED <<platform, paths>>

\* Mutant: a connection that did not succeed at once is closed and returned.
Connect_closed(th) ==
    /\ call[th].pc = "connect"
    /\ fds' = FdsWithout(call[th].fd)
    /\ held' = held \cup {call[th].fd}
    /\ Return(th)
    /\ UNCHANGED <<platform, paths>>

\* A source address that cannot be resolved is ignored, one that cannot be
\* bound ends the call; the result of connect is not looked at.
Connect(th) ==
    /\ call[th].pc = "connect"
    /\ Succeed(th, fds[call[th].fd])
    /\ UNCHANGED <<platform, paths>>

SourceRefused(th) ==
    /\ call[th].pc = "connect" /\ call[th].source
    /\ CloseAndFail(th)
    /\ UNCHANGED <<platform, paths>>
-----------------------------------------------------------------------------
(* bsd_accept_socket and bsd_close_socket.                                 *)

bsd_accept_socket(fd) ==
    /\ fd \in held /\ fds[fd].listening
    /\ \E new \in Fds \ Open :
         /\ fds' = FdsWith(new, bsd_set_nonblocking(apple_no_sigpipe(KernelSocket(fds[fd].family, "stream"))))
         /\ held' = held \cup {new}
    /\ UNCHANGED <<platform, infos, paths, call>>

\* The path of a local socket stays and leads nowhere.
bsd_close_socket(fd) ==
    /\ fd \in held
    /\ fds' = FdsWithout(fd)
    /\ held' = held \ {fd}
    /\ UNCHANGED <<platform, infos, paths, call>>
-----------------------------------------------------------------------------
Init ==
    /\ platform \in Platforms
    /\ fds = <<>>
    /\ held = {}
    /\ infos = 0
    /\ paths = [p \in Paths |-> None]
    /\ call = [th \in Threads |-> NoCall]

Step(th) ==
    \/ \E port \in Ports \cup {None} :
         \/ \E options \in Asked : bsd_create_listen_socket(th, port, options)
         \/ bsd_create_udp_socket(th, port)
    \/ \E b \in BOOLEAN : bsd_create_connect_socket(th, b)
    \/ \E p \in Paths : bsd_create_listen_socket_unix(th, p)
    \/ bsd_create_connect_socket_unix(th)
    \/ SocketCreated(th) \/ SocketRefused(th)
    \/ Bind(th) \/ BindFailed(th)
    \/ Listen(th) \/ ListenFailed(th)
    \/ Connect(th) \/ SourceRefused(th)

Next ==
    \/ \E th \in Threads : Step(th)
    \/ \E fd \in held : bsd_accept_socket(fd) \/ bsd_close_socket(fd)

Spec == Init /\ [][Next]_vars
-----------------------------------------------------------------------------
(* Properties.                                                             *)

TypeOK ==
    /\ platform \in Platforms
    /\ Open \subseteq Fds /\ held \subseteq Fds
    /\ infos \in 0..Cardinality(Threads)
    /\ paths \in [Paths -> Fds \cup {None}]
    /\ \A th \in Threads : /\ call[th].pc \in {"idle", "socket", "bind", "listen", "connect"}
                           /\ call[th].fd \in Fds \cup {None}

\* Every exit of every creating function leaves no descriptor and no result
\* of getaddrinfo behind: what is open was returned to the library or belongs
\* to the one call that is still working on it.
NothingLeaks ==
    LET busy == {th \in Threads : call[th].fd # None}
    IN  /\ Open = held \cup {call[th].fd : th \in busy}
        /\ \A a, b \in busy : a # b => call[a].fd # call[b].fd
        /\ \A th \in busy : call[th].fd \notin held
        /\ infos = Cardinality({th \in Threads : UsesInfo(call[th].fn)})

\* A descriptor the library holds stays the socket it was, until the library
\* closes it, whatever the other threads' calls do and however they fail:
\* none of them closes a number that was given out again.
HeldSurvives ==
    [][\A fd \in held \cap held' : fd \in DOMAIN fds' /\ fds'[fd] = fds[fd]]_vars

\* Of two listeners on one port neither was asked to own the port exclusively,
\* whichever of IPv6 and IPv4 each of them got, and also when both were bound
\* before either listened.
PortExclusive ==
    \A a, b \in Open :
        /\ a # b /\ fds[a].listening /\ fds[b].listening
        /\ fds[a].port # None /\ fds[a].port = fds[b].port
        => ~fds[a].exclusive /\ ~fds[b].exclusive
=============================================================================
