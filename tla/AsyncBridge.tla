----------------------------- MODULE AsyncBridge -----------------------------
(***************************************************************************)
(* One request on the async bridges: localpost/http/asgi.py and rsgi.py,   *)
(* with aread_body of _body.py.                                            *)
(*                                                                         *)
(* Two tasks share an event loop: the handler, and the pump that owns the  *)
(* server's receive side.  They meet on a memory stream of size zero, so a *)
(* chunk passes only when the handler waits for one.  Under RSGI a third   *)
(* task watches for the disconnect; under ASGI the pump does it as well.   *)
(* The ASGI or RSGI server and its peer are external.                      *)
(***************************************************************************)
EXTENDS Integers, Sequences, SequencesExt

CONSTANTS
    Length,         \* the longest body: its units are 1 .. Length
    MaxBodySize,    \* max_body_size of the bridge
    ReadCap,        \* max_size of aread_body
    MaxPieces       \* a bound: chunks of one response stream

ASSUME AsyncBridgeAssumption ==
    Length \in Nat /\ MaxBodySize \in Nat /\ ReadCap \in Nat /\ MaxPieces \in Nat

VARIABLES
    bridge,     \* "asgi" or "rsgi"
    whole,      \* the body the peer means to send
    taken,      \* how much of it the pump has received
    pump,       \* "off", "receiving", "sending", "listening", "ended"
    chunk,      \* what body_send.send is called with
    flag,       \* the event _disconnected
    gone,       \* the peer has left
    leftover, eof, started,     \* fields of the ctx
    got,        \* what ctx.receive has returned to the handler
    handler,    \* where the handler is
    reading,    \* the size ctx.receive was called with; 0: by aread_body
    pieces,     \* chunks streamed
    failed,     \* the handler raised
    wire        \* the events sent, oldest first

bodyVars == <<taken, pump, chunk>>
readVars == <<leftover, eof, got, reading>>
respVars == <<started, pieces, wire>>
vars == <<bridge, whole, bodyVars, flag, gone, readVars, handler, failed, respVars>>

Upto(n) == [i \in 1 .. n |-> i]

-----------------------------------------------------------------------------
Init ==
    /\ bridge \in {"asgi", "rsgi"}
    /\ whole \in {Upto(n) : n \in 0 .. Length}
    /\ taken = 0 /\ pump = "off" /\ chunk = <<>>
    /\ flag = FALSE /\ gone = FALSE
    /\ leftover = <<>> /\ eof = FALSE /\ got = <<>> /\ reading = 0
    /\ handler = "new" /\ failed = FALSE
    /\ started = FALSE /\ pieces = 0 /\ wire = <<>>

\* _handle_http and _dispatch: a content-length over the cap is answered 413
\* by the bridge itself (_send_canned); a chunked upload has none.  Otherwise
\* the pump starts beside the handler.
CannedReply == IF bridge = "asgi" THEN <<"start", "final">> ELSE <<"whole">>

Dispatch ==
    /\ handler = "new"
    /\ \E declared \in BOOLEAN :
          IF declared /\ Len(whole) > MaxBodySize
            THEN /\ handler' = "done" /\ wire' = CannedReply
                 /\ UNCHANGED pump
            ELSE /\ handler' = "run" /\ pump' = "receiving"
                 /\ UNCHANGED wire
    /\ UNCHANGED <<bridge, whole, taken, chunk, flag, gone, readVars, failed,
                   started, pieces>>

PeerLeaves ==
    /\ ~gone /\ handler # "done" /\ gone' = TRUE
    /\ UNCHANGED <<bridge, whole, bodyVars, flag, readVars, handler, failed, respVars>>

-----------------------------------------------------------------------------
\* _pump_channel and _pump_body: the next body event or chunk.  An empty one is
\* not passed on; the last one ends the loop.  ASGI goes on listening.
AfterBody == IF bridge = "asgi" THEN "listening" ELSE "ended"

PumpReceive ==
    /\ pump = "receiving"
    /\ \E upto \in taken .. Len(whole) :
          /\ taken' = upto
          /\ chunk' = SubSeq(whole, taken + 1, upto)
          /\ IF upto > taken THEN pump' = "sending"
             ELSE upto = Len(whole) /\ pump' = AfterBody
    /\ UNCHANGED <<bridge, whole, flag, gone, readVars, handler, failed, respVars>>

\* http.disconnect reaches the pump; under RSGI the iteration just ends.
PumpLearns ==
    /\ gone /\ pump \in {"receiving", "listening"}
    /\ pump' = "ended"
    /\ flag' = (flag \/ bridge = "asgi")
    /\ UNCHANGED <<bridge, whole, taken, chunk, gone, readVars, handler, failed,
                   respVars>>

\* _watch_disconnect.
Watch ==
    /\ bridge = "rsgi" /\ gone /\ ~flag /\ handler \notin {"new", "done"}
    /\ flag' = TRUE
    /\ UNCHANGED <<bridge, whole, bodyVars, gone, readVars, handler, failed, respVars>>

-----------------------------------------------------------------------------
\* What ctx.receive and aread_body do with a chunk c: the first `size` units
\* are returned.  aread_body adds them up and raises BodyTooLarge past its cap.
Return(c, size) ==
    IF reading # 0
      THEN /\ got' = got \o SubSeq(c, 1, size) /\ handler' = "run"
           /\ failed' = failed
      ELSE IF Len(got) + Len(c) > ReadCap
        THEN got' = got /\ handler' = "leaving" /\ failed' = TRUE
        ELSE got' = got \o c /\ handler' = "receive" /\ failed' = failed

Call == handler = "run" /\ ~eof

\* The handler calls ctx.receive(size), or aread_body.
Receive ==
    /\ Call
    /\ reading' \in 0 .. Length
    /\ handler' = "receive"
    /\ UNCHANGED <<bridge, whole, bodyVars, flag, gone, leftover, eof, got,
                   failed, respVars>>

\* Bytes beyond the size of an earlier call come first.
FromLeftover ==
    /\ handler = "receive" /\ leftover # <<>>
    /\ LET size == IF reading = 0 \/ reading > Len(leftover) THEN Len(leftover)
                   ELSE reading
       IN /\ Return(leftover, size)
          /\ leftover' = SubSeq(leftover, size + 1, Len(leftover))
    /\ UNCHANGED <<bridge, whole, bodyVars, flag, gone, eof, reading, respVars>>

\* A chunk passes from body_send.send to _body_stream.receive.
PumpGoesOn ==       \* the last chunk may be known as such, or an empty one follows
    \/ pump' = "receiving"
    \/ taken = Len(whole) /\ pump' = AfterBody

HandOverCut ==      \* mutant: the rest of a cut chunk is dropped
    /\ handler = "receive" /\ leftover = <<>> /\ ~eof /\ pump = "sending"
    /\ LET size == IF reading = 0 \/ reading > Len(chunk) THEN Len(chunk)
                   ELSE reading
       IN Return(chunk, size) /\ leftover' = <<>>
    /\ PumpGoesOn /\ chunk' = <<>>
    /\ UNCHANGED <<bridge, whole, taken, flag, gone, eof, reading, respVars>>

HandOver ==
    /\ handler = "receive" /\ leftover = <<>> /\ ~eof /\ pump = "sending"
    /\ LET size == IF reading = 0 \/ reading > Len(chunk) THEN Len(chunk)
                   ELSE reading
       IN /\ Return(chunk, size)
          /\ leftover' = SubSeq(chunk, size + 1, Len(chunk))
    /\ PumpGoesOn /\ chunk' = <<>>
    /\ UNCHANGED <<bridge, whole, taken, flag, gone, eof, reading, respVars>>

\* The pump has closed body_send: b"".
EndOfBody ==
    /\ handler = "receive" /\ leftover = <<>> /\ pump \in {"listening", "ended"}
    /\ eof' = TRUE /\ handler' = "run"
    /\ UNCHANGED <<bridge, whole, bodyVars, flag, gone, leftover, got, reading,
                   failed, respVars>>

-----------------------------------------------------------------------------
\* _check_not_started: a second response raises.
AlreadyStarted ==
    /\ handler = "run" /\ started
    /\ handler' = "leaving" /\ failed' = TRUE
    /\ UNCHANGED <<bridge, whole, bodyVars, flag, gone, readVars, respVars>>

\* complete: two events under ASGI, with an await in between; one call under
\* RSGI.  sendfile of a file that has a path is one call under RSGI as well.
Complete ==
    /\ handler = "run" /\ ~started
    /\ started' = TRUE
    /\ IF bridge = "asgi"
         THEN handler' = "complete" /\ wire' = Append(wire, "start")
         ELSE handler' = "run" /\ wire' = Append(wire, "whole")
    /\ UNCHANGED <<bridge, whole, bodyVars, flag, gone, readVars, failed, pieces>>

CompleteBody ==
    /\ handler = "complete"
    /\ handler' = "run" /\ wire' = Append(wire, "final")
    /\ UNCHANGED <<bridge, whole, bodyVars, flag, gone, readVars, failed, started,
                   pieces>>

\* stream, and sendfile of a file without one.
StreamStarts ==
    /\ handler = "run" /\ ~started
    /\ started' = TRUE /\ handler' = "stream"
    /\ wire' = Append(wire, "start")
    /\ UNCHANGED <<bridge, whole, bodyVars, flag, gone, readVars, failed, pieces>>

\* The iterator yields: the chunk is sent unless the peer is known to be gone.
StreamChunk ==
    /\ handler = "stream" /\ pieces < MaxPieces
    /\ IF flag
         THEN handler' = "close" /\ UNCHANGED <<pieces, wire>>
         ELSE /\ pieces' = pieces + 1 /\ wire' = Append(wire, "body")
              /\ UNCHANGED handler
    /\ UNCHANGED <<bridge, whole, bodyVars, flag, gone, readVars, failed, started>>

\* The iterator is exhausted, or raises.
StreamEnds ==
    /\ handler = "stream"
    /\ failed' \in BOOLEAN /\ handler' = "close"
    /\ UNCHANGED <<bridge, whole, bodyVars, flag, gone, readVars, respVars>>

\* The finally of ASGI's stream; RSGI has none.
CloseStream ==
    /\ handler = "close"
    /\ wire' = IF bridge = "asgi" /\ ~flag THEN Append(wire, "final") ELSE wire
    /\ handler' = IF failed THEN "leaving" ELSE "run"
    /\ UNCHANGED <<bridge, whole, bodyVars, flag, gone, readVars, failed, started,
                   pieces>>

\* The handler returns or raises.
HandlerEnds ==
    /\ handler = "run"
    /\ handler' = "leaving" /\ failed' \in BOOLEAN
    /\ UNCHANGED <<bridge, whole, bodyVars, flag, gone, readVars, respVars>>

\* The task group is cancelled and left: pump and watcher with it.
LeaveGroupPolitely ==   \* mutant: the group waits for the pump instead
    /\ handler = "leaving" /\ pump = "ended"
    /\ handler' = "done" /\ UNCHANGED <<pump, chunk>>
    /\ UNCHANGED <<bridge, whole, taken, flag, gone, readVars, failed, respVars>>

LeaveGroup ==
    /\ handler = "leaving"
    /\ handler' = "done" /\ pump' = "ended" /\ chunk' = <<>>
    /\ UNCHANGED <<bridge, whole, taken, flag, gone, readVars, failed, respVars>>

-----------------------------------------------------------------------------
PumpStep == PumpReceive \/ PumpLearns
HandlerStep ==
    \/ Dispatch \/ FromLeftover \/ HandOver \/ EndOfBody \/ CompleteBody
    \/ StreamChunk \/ StreamEnds \/ CloseStream \/ HandlerEnds \/ LeaveGroup
HandlerCalls == Receive \/ Complete \/ StreamStarts \/ AlreadyStarted
Ended == handler = "done" /\ UNCHANGED vars

Next == PumpStep \/ Watch \/ PeerLeaves \/ HandlerStep \/ HandlerCalls \/ Ended

Spec == Init /\ [][Next]_vars

\* The loop runs every task that can go on, the peer goes on with its upload or
\* leaves.  The handler may watch ctx.disconnected for ever.
WatchingSpec ==
    Spec /\ WF_vars(PumpStep) /\ WF_vars(Watch) /\ WF_vars(handler # "run" /\ HandlerStep)

-----------------------------------------------------------------------------
\* The type invariant.
TypeOK ==
    /\ bridge \in {"asgi", "rsgi"} /\ whole \in Seq(1 .. Length)
    /\ taken \in 0 .. Len(whole)
    /\ pump \in {"off", "receiving", "sending", "listening", "ended"}
    /\ {flag, gone, eof, started, failed} \subseteq BOOLEAN
    /\ handler \in {"new", "run", "receive", "complete", "stream", "close",
                    "leaving", "done"}

\* The handler reads the body in order and without holes (receive): what it
\* got, what is kept for the next call and what the pump holds are together
\* what the pump received, until a body too large is given up.
BodyInOrder == handler # "done" /\ ~failed => got \o leftover \o chunk = Upto(taken)

\* ctx.receive and aread_body answer a lost peer with the same b"" as the end
\* of the body (_pump_channel, "or peer disconnected").  Under ASGI the handler
\* can always tell: a body that ends short has ctx.disconnected set.
LossIsVisible == bridge = "asgi" /\ eof /\ got # whole => flag

\* An ASGI server waits for more_body=False before it lets the connection go:
\* whatever the handler did, a response that was started was closed once, and
\* nothing followed, unless the peer is known to be gone (stream's finally).
ResponseIsClosed ==
    bridge = "asgi" =>
        /\ \A i \in DOMAIN wire : wire[i] = "start" <=> i = 1
        /\ \A i \in DOMAIN wire : wire[i] = "final" => i = Len(wire)
        /\ handler = "done" /\ wire # <<>> /\ ~flag => Last(wire) = "final"

BodyAndResponse == BodyInOrder /\ LossIsVisible /\ ResponseIsClosed

\* What to_asgi's docstring says: "A peer http.disconnect flips
\* ctx.disconnected".
DisconnectIsSeen == gone ~> (flag \/ handler = "done")
=============================================================================
