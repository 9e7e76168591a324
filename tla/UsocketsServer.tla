--------------------------- MODULE UsocketsServer ---------------------------
(***************************************************************************)
(* A connection of the usockets server (usockets_server.v), with the       *)
(* streamed responses of streaming.v on it.  One thread runs the event     *)
(* loop and calls the server's callbacks; a callback runs to its end       *)
(* before the next, while the client sends and reads at any time.  Which   *)
(* handler a route leads to is module App's subject: here a request says   *)
(* which router knows it, and what it asks for is looked at when it is     *)
(* read.  libusockets itself is external, a library without source in the  *)
(* repository, used by the contract of its header.                         *)
(***************************************************************************)
EXTENDS Integers, Sequences, FiniteSets

CONSTANTS Kinds,        \* what a request asks for
          Room,         \* responses or chunks the kernel buffers
          MaxRequests,  \* requests the client sends
          MaxPieces     \* responses, chunks and client segments of a behaviour

VARIABLES server,     \* "down", "running", or "failed"
          conn,       \* the socket: "none", "open", "shut" (FIN sent) or "closed"
          polite,     \* the client sends one whole request and reads its response
          inbox,      \* segments that arrived and were not read
          sent,       \* requests the client sent
          leaving,    \* the client: "no", "fin" or "reset"
          taken,      \* the pieces of responses the kernel took, in order
          read,       \* how many of them the client has read
          cut,        \* the kernel did not take all of some write
          answers,    \* reads the server answered on the open connection
          stream      \* the streaming callback that is running

vars == <<server, conn, polite, inbox, sent, leaving, taken, read, cut,
          answers, stream>>

clientVars == <<polite, inbox, sent, leaving, read>>

\* A request: http11 is false for HTTP/1.0 without keep-alive; an upgrade asks
\* for a WebSocket; fast and hybrid tell which router is on and knows it.
Requests == [kind : Kinds, http11 : BOOLEAN, fast : BOOLEAN, hybrid : BOOLEAN]

\* Bytes that are no beginning of a request: no line, or a line of anything.
Bad == [kind |-> "bad", http11 |-> TRUE, fast |-> FALSE, hybrid |-> FALSE]

NoStream == [phase |-> "none", req |-> 0, is_closed |-> TRUE, connected |-> FALSE]

\* Something the server writes: the kind, the request it belongs to, whether
\* the server keeps the connection behind it, and whether its header is exact:
\* what it says of the body's end and of the connection is what is done.
Piece(kind, req, keep, exact) == [kind |-> kind, req |-> req, keep |-> keep, exact |-> exact]

Begins(p) == p.kind \in {"response", "switch", "head"}

Init ==
    /\ server = "down"
    /\ polite \in BOOLEAN
    /\ conn = "none"
    /\ inbox = <<>>
    /\ sent = 0
    /\ leaving = "no"
    /\ taken = <<>>
    /\ read = 0
    /\ cut = FALSE
    /\ answers = 0
    /\ stream = NoStream
-----------------------------------------------------------------------------
(* libusockets.                                                            *)

us_socket_is_closed == conn \in {"none", "closed"}

us_socket_is_shut_down == conn = "shut"

\* Several writes in a row.  The kernel takes the first n wholly; the server
\* does not look at how much of the others was taken.
us_socket_write(ps) ==
    \E n \in 0 .. Len(ps) :
        /\ Len(taken) - read + n <= Room
        /\ n > 0 => ~us_socket_is_closed /\ ~us_socket_is_shut_down /\ leaving # "reset"
        /\ taken' = taken \o SubSeq(ps, 1, n)
        /\ cut' = (cut \/ (n < Len(ps) /\ conn = "open"))

us_socket_shutdown == IF conn = "open" THEN "shut" ELSE conn

us_socket_close == "closed"

\* The listener, or none.
us_socket_context_listen == {"running", "failed"}

\* The loop calls one callback at a time.
us_loop_run == server = "running" /\ stream.phase = "none"

\* The events of a socket: it was accepted, it has data, its peer sent FIN
\* and everything before that was read, it takes data again after a write it
\* did not take wholly, or it was reset.
us_on_open == us_loop_run /\ conn = "none"

us_on_data == us_loop_run /\ ~us_socket_is_closed /\ inbox # <<>>

us_on_end == us_loop_run /\ ~us_socket_is_closed /\ leaving = "fin" /\ inbox = <<>>

us_on_writable == us_loop_run /\ conn = "open" /\ cut /\ Len(taken) - read < Room

us_on_close == us_loop_run /\ ~us_socket_is_closed /\ leaving = "reset"
-----------------------------------------------------------------------------
(* Start-up.                                                               *)

\* The loop runs only if the port could be had.
listen_usockets_with_config ==
    /\ server = "down"
    /\ server' \in us_socket_context_listen
    /\ UNCHANGED <<conn, clientVars, taken, cut, answers, stream>>

usockets_on_open ==
    /\ us_on_open
    /\ conn' = "open"
    /\ UNCHANGED <<server, clientVars, taken, cut, answers, stream>>
-----------------------------------------------------------------------------
(* A request.                                                              *)

\* parse_http_request_usockets: a read is taken for one whole request, whose
\* body is whatever else was read with it.  A part of a request may read as
\* any other request.
Parsed(seg) == IF seg.part = "whole" THEN Requests ELSE Requests \cup {Bad}

\* Mutant: the fallback does not look at response_sent.
Matches_both(r) ==
    (IF r.fast THEN <<"fast_router">> ELSE <<>>)
        \o (IF r.hybrid THEN <<"context_hybrid_router">> ELSE <<>>)

\* The routers that answer: the hybrid one only if the fast one did not.
Matches(r) ==
    CASE r.fast -> <<"fast_router">>
      [] ~r.fast /\ r.hybrid -> <<"context_hybrid_router">>
      [] OTHER -> <<>>

\* What a handler answers: its own headers, but for Content-Length, are copied
\* before those of the server, and may contradict them.
Handled(kind, req, keep) == {Piece(kind, req, keep, exact) : exact \in BOOLEAN}

\* handle_usockets_ws_upgrade: switched, answered by the handler, or refused
\* with a Content-Length that is not the body's; the connection stays open.
UpgradeAnswers(req) ==
    {Piece("switch", req, TRUE, TRUE)} \cup Handled("response", req, TRUE) \cup Handled("head", req, TRUE)

\* A stream without its configuration is answered with a Content-Length that
\* is not the body's, on a connection that is kept.
StreamAnswers(req) == Handled("head", req, TRUE) \cup {Piece("response", req, TRUE, FALSE)}

\* The first piece a matched handler may answer with: send_usockets_response,
\* or the header of a stream.
HandlerAnswers(r, req) ==
    CASE r.kind = "upgrade" -> UpgradeAnswers(req)
      [] r.kind = "stream"  -> StreamAnswers(req)
      [] OTHER              -> Handled("response", req, r.http11)

\* The 404, or what not_found_handler answers, which may stream.
NotFoundAnswers(r, req) == Handled("response", req, r.http11) \cup StreamAnswers(req)

\* The response is written in one piece, and behind it FIN if it said so.
Respond(ps) ==
    /\ us_socket_write(ps)
    /\ conn' = IF \E i \in DOMAIN ps : ~ps[i].keep THEN us_socket_shutdown ELSE conn

usockets_on_data(n) ==
    LET seg == inbox[1]
    IN  /\ us_on_data
        /\ n \in 1 .. Len(inbox)
        /\ inbox' = SubSeq(inbox, n + 1, Len(inbox))
        /\ \E r \in Parsed(seg) :
             LET req == seg.req
                 by  == Matches(r)
             IN  \E p \in CASE r.kind = "bad" -> {Piece("response", req, TRUE, TRUE)}
                            [] r.kind # "bad" /\ by = <<>> -> NotFoundAnswers(r, req)
                            [] OTHER -> HandlerAnswers(r, req) :
                   LET ps == IF by = <<>> THEN <<p>> ELSE [i \in DOMAIN by |-> p]
                   IN  /\ Len(taken) + Len(ps) <= MaxPieces
                       /\ Respond(ps)
                       /\ stream' = IF p.kind = "head"
                                      THEN [phase |-> "callback", req |-> req,
                                            is_closed |-> FALSE, connected |-> TRUE]
                                      ELSE NoStream
        /\ answers' = IF conn = "open" THEN answers + 1 ELSE answers
        /\ UNCHANGED <<server, polite, sent, leaving, read>>
-----------------------------------------------------------------------------
(* A streaming callback, and the error handler behind it.                  *)

Streaming == stream.phase # "none"

\* UsocketsStreamWriter.write: no data is no chunk, as an empty chunk would
\* end the stream.
WriteChunk(empty) ==
    IF empty THEN UNCHANGED <<taken, cut>>
    ELSE us_socket_write(<<Piece("chunk", stream.req, TRUE, TRUE)>>)

\* StreamContext.write and its relatives, an event of SSE being several of
\* them: a closed stream refuses.
StreamWrite(empty) ==
    /\ Streaming
    /\ Len(taken) < MaxPieces
    /\ IF stream.is_closed \/ ~stream.connected
         THEN stream' = [stream EXCEPT !.is_closed = TRUE] /\ UNCHANGED <<taken, cut>>
         ELSE WriteChunk(empty) /\ UNCHANGED stream
    /\ UNCHANGED <<server, conn, clientVars, answers>>

\* Mutant: every close writes the last chunk.
CloseWriter_again == us_socket_write(<<Piece("final", stream.req, TRUE, TRUE)>>)

\* StreamContext.close and UsocketsStreamWriter.close
CloseWriter ==
    IF ~stream.is_closed /\ stream.connected
      THEN us_socket_write(<<Piece("final", stream.req, TRUE, TRUE)>>)
      ELSE UNCHANGED <<taken, cut>>

\* The callback closes its stream itself.
StreamClose ==
    /\ Streaming
    /\ CloseWriter
    /\ stream' = [stream EXCEPT !.is_closed = TRUE, !.connected = FALSE]
    /\ UNCHANGED <<server, conn, clientVars, answers>>

\* The callback fails and there is an error handler, which gets the stream.
StreamError ==
    /\ stream.phase = "callback"
    /\ stream' = [stream EXCEPT !.phase = "error_handler"]
    /\ UNCHANGED <<server, conn, clientVars, taken, cut, answers>>

\* handle_usockets_streaming_response closes the stream and forgets it.
StreamReturn ==
    /\ Streaming
    /\ CloseWriter
    /\ stream' = NoStream
    /\ UNCHANGED <<server, conn, clientVars, answers>>
-----------------------------------------------------------------------------
(* The socket takes data again.                                            *)

\* The rest of a response that was cut is not sent.
usockets_on_writable ==
    /\ us_on_writable
    /\ UNCHANGED vars
-----------------------------------------------------------------------------
(* The end of a connection.                                                *)

\* Shut down, and closed.
usockets_on_end ==
    /\ us_on_end
    /\ conn' = us_socket_close
    /\ UNCHANGED <<server, clientVars, taken, cut, answers, stream>>

\* The library has closed the socket.
usockets_on_close ==
    /\ us_on_close
    /\ conn' = us_socket_close
    /\ UNCHANGED <<server, clientVars, taken, cut, answers, stream>>
-----------------------------------------------------------------------------
(* The client: external.                                                   *)

serverVars == <<server, conn, taken, cut, answers, stream>>

MaySend == conn \in {"open", "shut"} /\ leaving = "no" /\ Len(inbox) < Room /\ sent < MaxRequests

\* A polite client waits for the response before it sends the next request.
Answered ==
    /\ conn = "open" /\ inbox = <<>> /\ ~Streaming /\ read = Len(taken) /\ ~cut
    /\ \A i \in DOMAIN taken : taken[i].kind # "switch"

SendWhole ==
    /\ MaySend
    /\ polite => Answered
    /\ sent' = sent + 1
    /\ inbox' = Append(inbox, [req |-> sent + 1, part |-> "whole"])
    /\ UNCHANGED <<serverVars, polite, leaving, read>>

\* A request in two segments.
SendSplit ==
    /\ MaySend /\ ~polite
    /\ sent' = sent + 1
    /\ inbox' = inbox \o <<[req |-> sent + 1, part |-> "first"],
                           [req |-> sent + 1, part |-> "rest"]>>
    /\ UNCHANGED <<serverVars, polite, leaving, read>>

Receive ==
    /\ read < Len(taken) /\ leaving # "reset"
    /\ read' = read + 1
    /\ UNCHANGED <<serverVars, polite, inbox, sent, leaving>>

Leave ==
    /\ conn \in {"open", "shut"} /\ leaving = "no"
    /\ leaving' \in {"fin", "reset"}
    /\ UNCHANGED <<serverVars, polite, inbox, sent, read>>
-----------------------------------------------------------------------------
Next ==
    \/ listen_usockets_with_config \/ usockets_on_open
    \/ \E n \in 1 .. Room + 1 : usockets_on_data(n)
    \/ \E empty \in BOOLEAN : StreamWrite(empty)
    \/ StreamClose \/ StreamError \/ StreamReturn
    \/ usockets_on_writable \/ usockets_on_end \/ usockets_on_close
    \/ SendWhole \/ SendSplit \/ Receive \/ Leave

Spec == Init /\ [][Next]_vars
-----------------------------------------------------------------------------
(* Properties.  They speak of connections on which every write was taken   *)
(* wholly: the server drops what was not.                                  *)

\* The places where a response begins.
Beginnings == {i \in DOMAIN taken : Begins(taken[i])}

\* Every read on the open connection gets one response and no more, whichever
\* router answers, and responses leave in the order of their requests; to a
\* client with one request under way at a time the i-th response is the i-th
\* request's.
OneAnswer ==
    ~cut => /\ Cardinality(Beginnings) = answers
            /\ \A i, j \in Beginnings : i < j => taken[i].req <= taken[j].req
            /\ polite => \A i \in Beginnings :
                            taken[i].req = Cardinality({j \in Beginnings : j <= i})

\* Chunks stand only between the header of their response and its one last
\* chunk, whatever the callback and the error handler do: writing nothing,
\* writing after closing, closing twice, failing in the middle.
StreamFramed ==
    ~cut => \A i \in DOMAIN taken :
        /\ taken[i].kind \in {"chunk", "final"} =>
              i > 1 /\ taken[i - 1].kind \in {"head", "chunk"} /\ taken[i - 1].req = taken[i].req
        /\ taken[i].kind \in {"head", "chunk"} =>
              \/ i < Len(taken) /\ taken[i + 1].kind \in {"chunk", "final"}
              \/ i = Len(taken) /\ Streaming /\ stream.req = taken[i].req /\ ~stream.is_closed

\* Where the header is exact: a response that ends the connection is the last
\* thing on it and the connection is not left open, and FIN goes out only
\* behind such a response.
ClosesAsAnnounced ==
    ~cut => /\ \A i \in DOMAIN taken :
                  taken[i].exact /\ ~taken[i].keep => i = Len(taken) /\ conn # "open"
            /\ conn = "shut" =>
                  /\ taken # <<>>
                  /\ taken[Len(taken)].exact => ~taken[Len(taken)].keep
=============================================================================
