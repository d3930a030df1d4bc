------------------------------ MODULE HttpTools ------------------------------
(***************************************************************************)
(* One connection of the httptools backend: server_httptools.py, with the  *)
(* pool of _pool.py.                                                       *)
(*                                                                         *)
(* httptools parses whatever one recv returned and calls back while it     *)
(* does: the handler runs inside the callback, or defers its dispatch to a *)
(* worker until the parser returns.  So one Feed is a fold of the parser's *)
(* callbacks over the tokens received: the head of a request, or a unit of *)
(* a body.  Only one thread owns the connection at a time: the selector    *)
(* while it is tracked, a worker otherwise (the module HttpSelector has    *)
(* the op queue between the two).                                          *)
(***************************************************************************)
EXTENDS Integers, Sequences, SequencesExt

CONSTANTS
    MaxRequests,    \* a bound: requests on this connection
    MaxUnits,       \* a bound: the longest body
    Cap,            \* config.max_body_size
    Pipelining,     \* the client sends a request before the last is answered
    SkipsBody       \* refused a 100, the client goes on with its next request

ASSUME HttpToolsAssumption ==
    /\ MaxRequests \in Nat /\ MaxUnits \in Nat /\ Cap \in Nat
    /\ Pipelining \in BOOLEAN /\ SkipsBody \in BOOLEAN

VARIABLES
    plan,       \* the requests sent: body, declared, keep, expect, route
    units,      \* units sent of the last one
    fin,        \* the client has closed its side
    socket,     \* tokens sent and not received
    conn,       \* HTTPConn and its context
    looping,    \* the selector is inside HTTPConn._loop
    job,        \* the request a worker runs, or 0
    body        \* what ctx.receive has returned to the worker

clientVars == <<plan, units, fin>>
tvars == <<clientVars, socket, conn, looping, job, body>>

Routes == {"inline", "raises", "breaks", "pool"}
RequestsOf ==
    {q \in [body : 0 .. MaxUnits, declared : BOOLEAN, keep : BOOLEAN,
            expect : BOOLEAN, route : Routes] :
        /\ q.expect => q.body > 0
        /\ q.body <= Cap => q.declared}

Head_(i) == [kind |-> "head", of |-> i]
Unit(i) == [kind |-> "unit", of |-> i]

-----------------------------------------------------------------------------
ToolsInit ==
    /\ plan = <<>> /\ units = 0 /\ fin = FALSE /\ socket = <<>>
    /\ conn = [ctx |-> 0, parsing |-> 0, need |-> 0, buf |-> <<>>, eom |-> FALSE,
               complete |-> FALSE, large |-> FALSE, bad |-> FALSE,
               deferred |-> 0, started |-> FALSE, closeAfter |-> FALSE,
               continued |-> FALSE, idle |-> TRUE, tracked |-> TRUE,
               open |-> TRUE, out |-> <<>>]
    /\ looping = FALSE /\ job = 0 /\ body = <<>>

\* start_response up to finish_response, by the handler of request i: the
\* response says "close", or the request does.  The canned ones say it.
Answered(c, i, code) ==
    [c EXCEPT !.out = Append(@, [to |-> i, code |-> code]), !.started = TRUE,
              !.closeAfter = @ \/ ~plan[i].keep \/ code # 200]

\* close(), on any thread.
Closed(c) == [c EXCEPT !.open = FALSE, !.tracked = FALSE]

\* _try_send_wire and emit_stale_408: nothing is sent into a response.
Canned(c, code) ==
    IF c.started THEN c
    ELSE [c EXCEPT !.out = Append(@, [to |-> Len(plan), code |-> code])]

-----------------------------------------------------------------------------
\* on_message_complete.
OnMessageComplete(c) == [c EXCEPT !.eom = TRUE, !.complete = TRUE]

\* The handler inside on_headers_complete: it answers, raises
\* (emit_handler_error), breaks off a response it has started, or is a pool
\* handler, which defers its dispatch.
Handle(c, i) ==
    CASE plan[i].route = "inline" -> Answered(c, i, 200)
      [] plan[i].route = "raises" -> Answered(c, i, 500)
      [] plan[i].route = "breaks" -> Closed(Answered(c, i, 200))
      [] OTHER -> [c EXCEPT !.deferred = i]

\* A client that waits for 100 will not get it: the message ends here.
ExpectEdge(c, i) ==
    IF c.tracked /\ c.started /\ plan[i].expect
      THEN [c EXCEPT !.closeAfter = TRUE, !.complete = TRUE] ELSE c

\* on_message_begin .. on_headers_complete.
OnHead(c, i) ==
    LET begun == [c EXCEPT !.parsing = i, !.need = plan[i].body]
        fresh == [begun EXCEPT !.ctx = i, !.buf = <<>>, !.eom = FALSE,
                               !.complete = FALSE, !.continued = FALSE]
        done  == IF plan[i].declared /\ plan[i].body > Cap
                   THEN [begun EXCEPT !.large = TRUE]
                   ELSE ExpectEdge(Handle(fresh, i), i)
    IN IF plan[i].body = 0 THEN OnMessageComplete(done) ELSE done

\* on_body: an answered request's body is dropped, unless it was borrowed.
OnBody(c, token) ==
    LET rest == [c EXCEPT !.need = @ - 1]
        kept == IF c.large \/ (c.started /\ c.tracked) THEN rest
                ELSE IF Len(c.buf) = Cap THEN [rest EXCEPT !.large = TRUE]
                ELSE [rest EXCEPT !.buf = Append(@, token)]
    IN IF rest.need = 0 THEN OnMessageComplete(kept) ELSE kept

\* What llhttp makes of the next token: whatever follows a head is body until
\* the announced length is reached.
OnToken(c, token) ==
    IF c.bad THEN c
    ELSE IF c.need > 0 THEN OnBody(c, token)
    ELSE IF token.kind = "head" THEN OnHead(c, token.of)
    ELSE [c EXCEPT !.bad = TRUE]

Parsed(n) ==
    LET after[i \in 0 .. n] ==
          IF i = 0 THEN conn ELSE OnToken(after[i - 1], socket[i])
    IN after[n]
Rest(n) == SubSeq(socket, n + 1, Len(socket))

-----------------------------------------------------------------------------
\* The client.  It sends a request at a time, none after a response that says
\* "close", and a body after 100 Continue if it asked for that.
Unsent == plan # <<>> /\ units < Last(plan).body
Refused == Last(plan).expect /\ ~conn.continued /\ Len(conn.out) >= Len(plan)
ToldToClose ==
    \E k \in DOMAIN conn.out : conn.out[k].code # 200 \/ ~plan[k].keep

ClientSendsHead ==
    /\ conn.open /\ ~fin /\ Len(plan) < MaxRequests
    /\ Unsent => SkipsBody /\ Refused
    /\ Pipelining \/ (Len(conn.out) >= Len(plan) /\ ~ToldToClose)
    /\ \E q \in RequestsOf : plan' = Append(plan, q)
    /\ units' = 0
    /\ socket' = Append(socket, Head_(Len(plan')))
    /\ UNCHANGED <<fin, conn, looping, job, body>>

ClientSendsUnit ==
    /\ conn.open /\ ~fin /\ Unsent
    /\ Last(plan).expect => conn.continued \/ (Refused /\ ~SkipsBody)
    /\ units' = units + 1
    /\ socket' = Append(socket, Unit(Len(plan)))
    /\ UNCHANGED <<plan, fin, conn, looping, job, body>>

ClientCloses ==
    /\ conn.open /\ ~fin /\ fin' = TRUE
    /\ UNCHANGED <<plan, units, socket, conn, looping, job, body>>

-----------------------------------------------------------------------------
\* The selector calls the connection: there is something to read.
Enter ==
    /\ conn.tracked /\ ~looping /\ (socket # <<>> \/ fin)
    /\ looping' = TRUE
    /\ UNCHANGED <<clientVars, socket, conn, job, body>>

\* "while self.tracked": a worker may be quicker than this check.
Leave ==
    /\ looping /\ (~conn.tracked \/ (~conn.complete /\ socket = <<>> /\ ~fin))
    /\ looping' = FALSE
    /\ UNCHANGED <<clientVars, socket, conn, job, body>>

\* The last message is over: close, or _reset_for_next_request.
Reset ==
    /\ looping /\ conn.tracked /\ conn.complete
    /\ conn' = IF conn.closeAfter \/ ~plan[conn.ctx].keep THEN Closed(conn)
               ELSE [conn EXCEPT !.ctx = 0, !.buf = <<>>, !.eom = FALSE,
                         !.complete = FALSE, !.started = FALSE,
                         !.closeAfter = FALSE, !.deferred = 0, !.idle = TRUE]
    /\ UNCHANGED <<clientVars, socket, looping, job, body>>

\* _feed on the selector thread, and what __call__ makes of its exceptions.
\* The deferred dispatch stops the tracking and starts the worker.
FeedHoldingOn ==    \* mutant: the dispatch leaves the connection tracked
    /\ looping /\ conn.tracked /\ ~conn.complete /\ socket # <<>>
    /\ \E n \in 1 .. Len(socket) :
          LET c == [Parsed(n) EXCEPT !.idle = FALSE]
          IN /\ socket' = Rest(n)
             /\ IF c.bad THEN conn' = Closed(Canned(c, 400)) /\ job' = job
                ELSE IF c.large THEN conn' = Closed(Canned(c, 413)) /\ job' = job
                ELSE IF c.deferred # 0
                  THEN /\ conn' = [c EXCEPT !.deferred = 0]
                       /\ job' = c.deferred
                  ELSE conn' = c /\ job' = job
    /\ body' = <<>>
    /\ UNCHANGED <<clientVars, looping>>

Feed ==
    /\ looping /\ conn.tracked /\ ~conn.complete /\ socket # <<>>
    /\ \E n \in 1 .. Len(socket) :
          LET c == [Parsed(n) EXCEPT !.idle = FALSE]
          IN /\ socket' = Rest(n)
             /\ IF c.bad THEN conn' = Closed(Canned(c, 400)) /\ job' = job
                ELSE IF c.large THEN conn' = Closed(Canned(c, 413)) /\ job' = job
                ELSE IF c.deferred # 0
                  THEN /\ conn' = [c EXCEPT !.deferred = 0, !.tracked = FALSE]
                       /\ job' = c.deferred
                  ELSE conn' = c /\ job' = job
    /\ body' = <<>>
    /\ UNCHANGED <<clientVars, looping>>

PeerIsGone ==
    /\ looping /\ conn.tracked /\ ~conn.complete /\ socket = <<>> /\ fin
    /\ conn' = Closed(conn)
    /\ UNCHANGED <<clientVars, socket, looping, job, body>>

\* The stale sweep finds the connection at its deadline.
Sweep ==
    /\ conn.tracked /\ ~looping
    /\ conn' = Closed(IF conn.idle THEN conn ELSE Canned(conn, 408))
    /\ UNCHANGED <<clientVars, socket, looping, job, body>>

-----------------------------------------------------------------------------
\* The worker: ctx.receive.  It asks for the body (100 Continue) first.
Continue ==
    /\ job # 0 /\ conn.open /\ plan[job].expect /\ ~conn.continued
    /\ conn' = [conn EXCEPT !.continued = TRUE]
    /\ UNCHANGED <<clientVars, socket, looping, job, body>>

Waiting == conn.buf = <<>> /\ ~conn.eom
Reads == job # 0 /\ conn.open /\ (plan[job].expect => conn.continued)

\* finish_response and _maybe_give_back: a connection tracked again is seen by
\* the selector at once.
GivenBack(c) == [c EXCEPT !.tracked = TRUE]

\* _feed on the worker; a body too large is answered 413, any other exception
\* 500 (_run_request).
WorkerFeed ==
    /\ Reads /\ Waiting /\ socket # <<>>
    /\ \E n \in 1 .. Len(socket) :
          LET c == Parsed(n)
          IN /\ socket' = Rest(n)
             /\ IF c.bad \/ c.large
                  THEN /\ conn' = GivenBack(Answered([c EXCEPT !.large = FALSE], job,
                                                     IF c.large THEN 413 ELSE 500))
                       /\ job' = 0
                  ELSE conn' = c /\ job' = job
    /\ UNCHANGED <<clientVars, looping, body>>

WorkerTakes ==
    /\ Reads /\ conn.buf # <<>>
    /\ body' = body \o conn.buf
    /\ conn' = [conn EXCEPT !.buf = <<>>]
    /\ UNCHANGED <<clientVars, socket, looping, job>>

\* No byte came within rw_timeout: the exception is answered with 500.
WorkerTimesOut ==
    /\ Reads /\ Waiting /\ socket = <<>> /\ ~fin
    /\ conn' = GivenBack(Answered(conn, job, 500)) /\ job' = 0
    /\ UNCHANGED <<clientVars, socket, looping, body>>

\* The handler answers, with the body read or not.
WorkerAnswersOnly ==    \* mutant: the connection is not given back
    /\ job # 0 /\ conn.open
    /\ conn' = Answered(conn, job, 200) /\ job' = 0
    /\ UNCHANGED <<clientVars, socket, looping, body>>

WorkerAnswers ==
    /\ job # 0 /\ conn.open
    /\ conn' = GivenBack(Answered(conn, job, 200)) /\ job' = 0
    /\ UNCHANGED <<clientVars, socket, looping, body>>

\* RequestCancelled, a broken response, or a socket that cannot be written.
WorkerCloses ==
    /\ job # 0
    /\ conn' = Closed(conn) /\ job' = 0
    /\ UNCHANGED <<clientVars, socket, looping, body>>

-----------------------------------------------------------------------------
SelectorStep == Enter \/ Leave \/ Reset \/ Feed \/ PeerIsGone
WorkerReads == Continue \/ WorkerFeed \/ WorkerTakes
WorkerEnds == WorkerTimesOut \/ WorkerAnswers \/ WorkerCloses
ClientStep == ClientSendsHead \/ ClientSendsUnit \/ ClientCloses
ToolsOver == ~conn.open /\ ~looping /\ job = 0 /\ UNCHANGED tvars

ToolsNext == SelectorStep \/ Sweep \/ WorkerReads \/ WorkerEnds \/ ClientStep \/ ToolsOver

\* The selector runs its loop, the cleanup ticker its sweep, and a handler
\* comes to an end.  The client owes nothing.
ToolsSpec ==
    /\ ToolsInit /\ [][ToolsNext]_tvars
    /\ WF_tvars(SelectorStep) /\ WF_tvars(Sweep) /\ WF_tvars(WorkerEnds)

-----------------------------------------------------------------------------
\* The client takes the k-th answer for that to its k-th request: it is, even
\* where a worker, an inline handler, the sweep and the parser's own errors
\* can all be the one to answer.
AnswersMatch ==
    /\ Len(conn.out) <= Len(plan)
    /\ \A k \in DOMAIN conn.out : conn.out[k].to = k

\* A handler never reads another request's bytes, or past the end of its own.
BodyIsItsOwn ==
    job # 0 => \A k \in DOMAIN (body \o conn.buf) :
                  (body \o conn.buf)[k] = Unit(job) /\ k <= plan[job].body

\* The parser and the socket have one owner: no worker runs on a connection
\* that the selector has (the "single-thread invariant" of HTTPConn.parser).
OneParserOwner == job # 0 => ~conn.tracked

ToolsSafe == AnswersMatch /\ BodyIsItsOwn /\ OneParserOwner

\* Whatever the client does, a request it has begun is answered or the
\* connection is closed; and a connection is closed when a response said so.
RequestsEnd ==
    /\ Len(conn.out) < Len(plan) ~> (Len(conn.out) >= Len(plan) \/ ~conn.open)
    /\ conn.closeAfter ~> ~conn.open

\* What the module's docstring says of pipelined clients: "served one request
\* at a time on the same connection (... no incorrect interleaving emitted)".
PipelinedInOrder == AnswersMatch
=============================================================================
