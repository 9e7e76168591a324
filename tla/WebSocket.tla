----------------------------- MODULE WebSocket -----------------------------
(***************************************************************************)
(* One WebSocket connection of websocket.v as a server backend drives it.  *)
(* The operations of WSContext are called by the application at any time   *)
(* and by the callbacks of incoming frames; a handler registered for state *)
(* changes runs inside transition_state and may call them again, in the    *)
(* middle of the operation that made the transition.  An operation is a    *)
(* function on the context.  The peer and the backend are external.        *)
(***************************************************************************)
EXTENDS Integers, Sequences

CONSTANTS Sizes,        \* sizes of incoming messages
          MaxSize,      \* max_message_size, 0 for no limit
          IntRange,     \* int holds -IntRange .. IntRange - 1
          Codes,        \* close codes the application uses
          MaxFrames,    \* bound on the frames the peer sends
          MaxCalls      \* bound on the application's calls outside of callbacks

ASSUME WebSocketAssumption ==
    Sizes \subseteq Nat /\ MaxSize \in Nat /\ IntRange \in Nat \ {0} /\ MaxFrames \in Nat /\ MaxCalls \in Nat

States == {"connecting", "open", "closing", "closed"}

VARIABLES ws,       \* the WSContext, with what it sent and what was called
          react,    \* what the registered handler does on a change to a state
          broken,   \* send_fn and close_fn fail: the socket is gone
          inbox,    \* frames of the peer that were not processed yet
          peer,     \* "open", "closing" once the peer sent its close frame
          sent,     \* frames the peer sent of its own accord
          calls     \* calls of the application outside of callbacks

wsVars == <<ws, react, broken, inbox, peer, sent, calls>>

\* The WSContext create_ws_context makes.
NewContext == [state |-> "connecting", history |-> <<>>, out |-> <<>>, close_called |-> FALSE,
               forced |-> FALSE, messages |-> <<>>, close_events |-> 0]

\* ws.send_fn: of a frame that goes out the opcode is kept.
Emit(w, frame) == IF broken THEN w ELSE [w EXCEPT !.out = Append(@, frame)]

\* ws.close_fn
CloseFn(w) == [w EXCEPT !.close_called = TRUE]
-----------------------------------------------------------------------------
(* The state machine.                                                      *)

is_valid_state_transition(from, to) ==
    \/ from = "connecting" /\ to \in {"open", "closed"}
    \/ from = "open" /\ to \in {"closing", "closed"}
    \/ from = "closing" /\ to = "closed"

\* force_transition_state without the handler.
Move(w, new) ==
    [w EXCEPT !.state = new, !.history = Append(@, [from |-> w.state, to |-> new])]

send(w) == IF w.state # "open" THEN w ELSE Emit(w, "data")

\* Mutant: the forced change is not recorded.
force_close_unrecorded(w) ==
    CloseFn(Emit([w EXCEPT !.state = "closed", !.forced = TRUE], "close"))

\* The handler of a change to closed has nothing left to do: send, close and
\* initiate_close refuse in that state.
force_close(w) ==
    CloseFn(Emit([Move(w, "closed") EXCEPT !.forced = TRUE], "close"))

\* transition_state(.closing), with the handler.
ToClosing(w) ==
    IF ~is_valid_state_transition(w.state, "closing") THEN w
    ELSE IF react["closing"] = "force" THEN force_close(Move(w, "closing"))
    ELSE IF react["closing"] = "send" THEN send(Move(w, "closing"))
    ELSE Move(w, "closing")

\* transition_state(.closed), with the handler.
ToClosed(w) == IF is_valid_state_transition(w.state, "closed") THEN Move(w, "closed") ELSE w

close(w) ==
    IF w.state \in {"closed", "closing"} THEN w
    ELSE CloseFn(Emit(ToClosing(w), "close"))

is_valid_close_code(code) == code \in (1000 .. 1003) \cup (1007 .. 1011) \cup (3000 .. 4999)

initiate_close(w, code) ==
    IF w.state # "open" \/ ~is_valid_close_code(code) THEN w
    ELSE Emit(ToClosing(w), "close")

complete_close(w) == IF w.state = "closing" THEN ToClosed(w) ELSE w

\* transition_state(.open), with the handler.
ToOpen(w) ==
    LET opened == Move(w, "open")
    IN  IF ~is_valid_state_transition(w.state, "open") THEN w
        ELSE CASE react["open"] = "send"  -> send(opened)
               [] react["open"] = "close" -> close(opened)
               [] react["open"] = "force" -> force_close(opened)
               [] OTHER                   -> opened

send_ping(w) == IF w.state # "open" THEN w ELSE Emit(w, "ping")

send_pong(w) == IF w.state # "open" THEN w ELSE Emit(w, "pong")
-----------------------------------------------------------------------------
(* Incoming frames.                                                        *)

\* Mutant: the peer's close frame is not answered.
handle_close_frame_silent(w) == ToClosed(ToClosing(w))

\* Mutant: the peer's answer to our close frame ends nothing.
handle_close_frame_half(w) ==
    IF w.state = "open" THEN ToClosed(Emit(ToClosing(w), "close")) ELSE w

\* The code of the frame is echoed and decides was_clean of the event, neither
\* of which the properties look at.
handle_close_frame(w) ==
    ToClosed(IF w.state = "open"
               THEN Emit(ToClosing(w), "close")
               ELSE w)

handle_ping(w) == send_pong(w)

\* int(payload_len)
AsInt(size) == ((size + IntRange) % (2 * IntRange)) - IntRange

TooBig(frame) == frame.op = "data" /\ MaxSize > 0 /\ AsInt(frame.size) > MaxSize

\* What a callback of the application may do with the context.
Uses(w) == {w, send(w), send_ping(w), send_pong(w), close(w), force_close(w)}
               \cup {initiate_close(w, c) : c \in Codes}

\* process_ws_message: the contexts it may leave, the callback included.  A ping
\* that is not answered and an unknown opcode go to on_error.
process_ws_message(frame, w) ==
    CASE frame.op = "data"  -> Uses([w EXCEPT !.messages = Append(@, frame.size)])
      [] frame.op = "close" -> Uses([handle_close_frame(w) EXCEPT !.close_events = @ + 1])
      [] frame.op = "ping"  -> IF w.state = "open" THEN {handle_ping(w)} ELSE Uses(w)
      [] frame.op = "pong"  -> {w}
      [] OTHER              -> Uses(w)

\* Mutant: a message is delivered before its size is looked at.
process_ws_message_with_validation_late(frame, w) ==
    LET done == process_ws_message(frame, w)
    IN  IF TooBig(frame) THEN {force_close(v) : v \in done} ELSE done

\* Too big a message is reported to on_error, then closes the connection.
process_ws_message_with_validation(frame, w) ==
    IF TooBig(frame) THEN {force_close(v) : v \in Uses(w)} ELSE process_ws_message(frame, w)
-----------------------------------------------------------------------------
create_ws_context ==
    /\ ws = NewContext
    /\ react \in [{"open", "closing"} -> {"none", "send", "close", "force"}]
    /\ broken = FALSE
    /\ inbox = <<>>
    /\ peer = "open"
    /\ sent = 0
    /\ calls = 0

\* The handshake was answered.
Opened ==
    /\ ws.state = "connecting"
    /\ ws' = ToOpen(ws)
    /\ UNCHANGED <<react, broken, inbox, peer, sent, calls>>

\* It was refused: there is no connection.
Refused ==
    /\ ws.state = "connecting"
    /\ ws' = ToClosed(ws)
    /\ broken' = TRUE
    /\ UNCHANGED <<react, inbox, peer, sent, calls>>

\* The application uses the context outside of a callback.
Application ==
    /\ ws.state # "connecting"
    /\ calls < MaxCalls
    /\ calls' = calls + 1
    /\ ws' \in Uses(ws) \cup {complete_close(ws)}
    /\ UNCHANGED <<react, broken, inbox, peer, sent>>

\* The backend hands the next frame over.
Receive ==
    /\ inbox # <<>>
    /\ ws' \in process_ws_message_with_validation(Head(inbox), ws)
    /\ inbox' = Tail(inbox)
    /\ UNCHANGED <<react, broken, peer, sent, calls>>

\* The peer sends frames until its close frame; it answers ours with one.
PeerSends(frame) ==
    /\ ws.state # "connecting" /\ peer = "open" /\ ~broken
    /\ sent < MaxFrames
    /\ sent' = sent + 1
    /\ inbox' = Append(inbox, frame)
    /\ peer' = IF frame.op = "close" THEN "closing" ELSE peer
    /\ UNCHANGED <<ws, react, broken, calls>>

PeerCloses ==
    /\ peer = "open" /\ ~broken
    /\ \E i \in DOMAIN ws.out : ws.out[i] = "close"
    /\ inbox' = Append(inbox, [op |-> "close"])
    /\ peer' = "closing"
    /\ UNCHANGED <<ws, react, broken, sent, calls>>

\* The transport is lost: what was not processed is gone, and the backend
\* closes the connection abruptly.
Disconnect ==
    /\ ws.state # "connecting" /\ ~broken
    /\ broken' = TRUE
    /\ inbox' = <<>>
    /\ ws' = ToClosed(ws)
    /\ UNCHANGED <<react, peer, sent, calls>>

Frames == [op : {"data"}, size : Sizes] \cup [op : {"ping", "pong", "close", "unknown"}]

WsNext ==
    \/ Opened \/ Refused \/ Application \/ Receive
    \/ \E f \in Frames : PeerSends(f)
    \/ PeerCloses \/ Disconnect

WsSpec == create_ws_context /\ [][WsNext]_wsVars

\* The event loop hands over what arrived and a peer answers a close frame,
\* or its connection is lost.
LiveSpec == WsSpec /\ WF_wsVars(Receive) /\ WF_wsVars(PeerCloses)
-----------------------------------------------------------------------------
(* Properties.                                                             *)

WsTypeOK ==
    /\ ws.state \in States
    /\ ws.close_called \in BOOLEAN /\ ws.forced \in BOOLEAN /\ ws.close_events \in 0 .. 1
    /\ react \in [{"open", "closing"} -> {"none", "send", "close", "force"}]
    /\ broken \in BOOLEAN
    /\ peer \in {"open", "closing"}
    /\ sent \in 0 .. MaxFrames /\ calls \in 0 .. MaxCalls

CloseFrames == {i \in DOMAIN ws.out : ws.out[i] = "close"}

\* The close handshake is neither repeated nor skipped, whoever closes, and
\* whatever the handler of state changes and the callbacks call in the middle:
\* once a close frame was sent nothing but close frames follows; a connection
\* that was not forced closed sends one at most; and it has sent one when it is
\* closing or has handled the peer's over a working socket.
CloseHandshake ==
    /\ \A i \in CloseFrames : \A k \in i .. Len(ws.out) : ws.out[k] = "close"
    /\ ~ws.forced => \A i, k \in CloseFrames : i = k
    /\ ~broken /\ (ws.state = "closing" \/ ws.close_events > 0) => CloseFrames # {}

\* The history of state changes is one unbroken path that ends in the current
\* state, also when the handler changes the state again inside a change, and
\* every step of it is a legal one or the forced step to closed: a closed
\* connection never comes back.
HistoryConsistent ==
    LET h == ws.history
    IN  /\ ws.state = IF h = <<>> THEN "connecting" ELSE h[Len(h)].to
        /\ \A i \in 1 .. Len(h) - 1 : h[i].to = h[i + 1].from
        /\ \A i \in DOMAIN h : is_valid_state_transition(h[i].from, h[i].to) \/ h[i].to = "closed"

\* The application is never handed a message above the limit whose size an
\* int can hold.
MessagesBounded ==
    MaxSize > 0 => \A i \in DOMAIN ws.messages : ws.messages[i] <= MaxSize \/ ws.messages[i] >= IntRange

\* A connection that is closing is closed in the end: the peer's close frame
\* arrives behind whatever it sent before.
ClosingEnds == ws.state = "closing" ~> ws.state = "closed"
=============================================================================
