----------------------------- MODULE BsdStreams -----------------------------
(***************************************************************************)
(* The stream part of usockets/src/bsd.c: one direction of a connection,   *)
(* its writer and its reader running at the same time.  The writer follows *)
(* the contract of libusockets.h: what a write did not take is kept and    *)
(* offered again when the socket is writable.  The kernel is external: it  *)
(* takes some of a write, at most what its send buffer has room for.       *)
(***************************************************************************)
EXTENDS Integers, Sequences

CONSTANTS Room,       \* bytes the kernel buffers in one direction
          Headers,    \* first part of a write, a sequence of bytes
          Bodies,     \* second part of a write
          MaxBytes    \* bytes the writer ever writes

VARIABLES windows,    \* the writer is built for Windows
          pending,    \* what the writer's user still has to write
          submitted,  \* everything that user ever wrote
          wire,       \* bytes the kernel took and the reader has not read
          half,       \* bytes of the header sent, the payload is next; or -1
          corked,     \* bytes at the end of the wire the kernel keeps back
          shut,       \* bsd_shutdown_socket was called
          deaf,       \* the reader called bsd_shutdown_socket_read
          got,        \* everything the reader has read
          eof         \* a read returned 0

vars == <<windows, pending, submitted, wire, half, corked, shut, deaf, got, eof>>

NoWrite == [header |-> <<>>, payload |-> <<>>]

Bytes(w) == w.header \o w.payload

Init ==
    /\ windows \in BOOLEAN
    /\ pending = NoWrite
    /\ submitted = <<>>
    /\ wire = <<>>
    /\ half = -1
    /\ corked = 0
    /\ shut = FALSE
    /\ deaf = FALSE
    /\ got = <<>>
    /\ eof = FALSE
-----------------------------------------------------------------------------
\* The user has something to write.
Submit(w) ==
    /\ Bytes(pending) = <<>> /\ half = -1 /\ ~shut
    /\ Len(submitted) + Len(Bytes(w)) <= MaxBytes
    /\ pending' = w
    /\ submitted' = submitted \o Bytes(w)
    /\ UNCHANGED <<windows, wire, half, corked, shut, deaf, got, eof>>

\* bsd_send: the kernel takes n bytes; 0 stands for -1 with bsd_would_block.
\* With MSG_MORE, which Windows does not have, it keeps them back until more
\* follows.
bsd_send(data, n, msg_more) ==
    /\ n <= Len(data) /\ Len(wire) + n <= Room
    /\ wire' = wire \o SubSeq(data, 1, n)
    /\ corked' = IF n = 0 THEN corked ELSE IF msg_more /\ ~windows THEN corked + n ELSE 0

\* What is left of a write of which the first n bytes were taken.
Left(w, n) ==
    IF n <= Len(w.header)
      THEN [w EXCEPT !.header = SubSeq(@, n + 1, Len(@))]
      ELSE [header |-> <<>>, payload |-> SubSeq(w.payload, n - Len(w.header) + 1, Len(w.payload))]

\* us_socket_write, a single bsd_send.
Write(msg_more) ==
    /\ half = -1 /\ Bytes(pending) # <<>>
    /\ \E n \in 1 .. Room :
         /\ bsd_send(Bytes(pending), n, msg_more)
         /\ pending' = Left(pending, n)
    /\ UNCHANGED <<windows, submitted, half, shut, deaf, got, eof>>

\* bsd_write2 where there is writev.
Write2Gather ==
    /\ ~windows /\ Bytes(pending) # <<>>
    /\ \E n \in 1 .. Room :
         /\ bsd_send(Bytes(pending), n, FALSE)
         /\ pending' = Left(pending, n)
    /\ UNCHANGED <<windows, submitted, half, shut, deaf, got, eof>>

\* Mutant: the payload follows a header that went out in part.
HeaderWhole_any(n) == TRUE

\* bsd_write2 goes on to the payload only behind a whole header.
HeaderWhole(n) == n = Len(pending.header)

\* bsd_write2 on Windows: the header is a send of its own, and the reader may
\* read before the payload is sent.
Write2Header ==
    /\ windows /\ half = -1 /\ Bytes(pending) # <<>>
    /\ \E n \in 0 .. Room :
         /\ bsd_send(pending.header, n, FALSE)
         /\ half' = IF HeaderWhole(n) THEN n ELSE -1
         /\ pending' = IF HeaderWhole(n) THEN pending ELSE Left(pending, n)
    /\ UNCHANGED <<windows, submitted, shut, deaf, got, eof>>

\* A second send that takes nothing leaves the header's count.
Write2Payload ==
    /\ half # -1
    /\ \E n \in 0 .. Room :
         /\ bsd_send(pending.payload, n, FALSE)
         /\ pending' = Left(pending, half + n)
    /\ half' = -1
    /\ UNCHANGED <<windows, submitted, shut, deaf, got, eof>>

\* The kernel sends what it kept back: after bsd_socket_flush or at the latest
\* after a fifth of a second.
bsd_socket_flush ==
    /\ corked > 0
    /\ corked' = 0
    /\ UNCHANGED <<windows, pending, submitted, wire, half, shut, deaf, got, eof>>

\* The bytes that can be read.
Arrived == Len(wire) - corked

\* The next read catches the end: the writer shut down, or the reader did.
Ended == shut \/ deaf

\* bsd_recv returns some bytes, or 0 once nothing can follow; a read that
\* would block changes nothing.
bsd_recv(length) ==
    LET n == IF length < Arrived THEN length ELSE Arrived
    IN  /\ n > 0 \/ (Ended /\ ~eof)
        /\ got' = got \o SubSeq(wire, 1, n)
        /\ wire' = SubSeq(wire, n + 1, Len(wire))
        /\ eof' = (n = 0)
        /\ UNCHANGED <<windows, pending, submitted, half, corked, shut, deaf>>

\* The sending direction ends behind what the kernel already took.
bsd_shutdown_socket ==
    /\ ~shut /\ Bytes(pending) = <<>> /\ half = -1
    /\ shut' = TRUE
    /\ corked' = 0
    /\ UNCHANGED <<windows, pending, submitted, wire, half, deaf, got, eof>>

\* The reader ends the receiving direction: what arrived can still be read,
\* then the end is reported.
bsd_shutdown_socket_read ==
    /\ ~deaf
    /\ deaf' = TRUE
    /\ UNCHANGED <<windows, pending, submitted, wire, half, corked, shut, got, eof>>

Next ==
    \/ \E h \in Headers, p \in Bodies : Submit([header |-> h, payload |-> p])
    \/ Write2Gather \/ Write2Header \/ Write2Payload
    \/ \E length \in 1 .. Room : bsd_recv(length)
    \/ \E more \in BOOLEAN : Write(more)
    \/ bsd_socket_flush
    \/ bsd_shutdown_socket \/ bsd_shutdown_socket_read

Spec == Init /\ [][Next]_vars
-----------------------------------------------------------------------------
\* However the kernel cuts the writes and reads, and whatever is read between
\* the two sends of a Windows write, what arrived is the beginning of what
\* was written, the rest being under way or kept by the writer: the count
\* bsd_write2 returns is the number of bytes that went out, in order.
StreamInOrder ==
    got \o wire \o Bytes(IF half = -1 THEN pending ELSE Left(pending, half)) = submitted

\* A reader that did not give up reading is told the end of the stream only
\* after everything that was written before the shutdown has been read, what
\* the kernel kept back included.
EndAfterData == eof => deaf \/ (shut /\ got = submitted)
=============================================================================
