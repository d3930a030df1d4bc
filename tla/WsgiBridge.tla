----------------------------- MODULE WsgiBridge ------------------------------
(***************************************************************************)
(* One request across the WSGI border, in either direction:                *)
(* localpost/http/wsgi.py with read_body of _body.py.                      *)
(*                                                                         *)
(* "wrap": wrap_wsgi runs a WSGI application under a native context.       *)
(* "to": to_wsgi serves a native handler under a WSGI server, which calls  *)
(* the application once and only then iterates what it returned.           *)
(* The application, the handler and the WSGI server are external; their    *)
(* calls are inputs.                                                       *)
(***************************************************************************)
EXTENDS Integers, Sequences

CONSTANTS
    BodyLength,     \* the length of the request body
    BodyCap,        \* max_size of read_body
    Calls,          \* a bound: calls of start_response
    Chunks          \* a bound: chunks of a response

ASSUME WsgiBridgeAssumption ==
    BodyLength \in Nat /\ BodyCap \in Nat /\ Calls \in Nat /\ Chunks \in Nat

VARIABLES
    side,       \* "wrap" or "to"
    at,         \* where the request is
    pos,        \* how much of wsgi.input was read
    head,       \* response_state["response"]: the last call of start_response
    committed,  \* the call whose head was handed to ctx.stream, or to the server
    first,      \* first_chunk
    yielded,    \* the non-empty chunks the application has yielded
    sent,       \* how many chunks the client was sent
    closed,     \* calls of body_iter.close
    lateError,  \* the application reported an error after its head was sent
    captured,   \* the response a native handler captured
    file,       \* the file captured for sendfile
    scoped      \* whether the handler opened it in a "with" block

appVars == <<head, committed, first, yielded, closed, lateError>>
toVars  == <<captured, file, scoped>>
wvars == <<side, at, pos, appVars, sent, toVars>>

Bodies == 0 .. BodyLength

-----------------------------------------------------------------------------
WsgiInit ==
    /\ side \in {"wrap", "to"}
    /\ at = IF side = "wrap" THEN "new" ELSE "handler"
    /\ pos = 0 /\ head = 0 /\ committed = 0 /\ first = FALSE /\ yielded = 0
    /\ sent = 0 /\ closed = 0 /\ lateError = FALSE
    /\ captured = "none" /\ file = "none" /\ scoped \in BOOLEAN

Goto(place) == at' = place

\* run_wsgi: read_body, with the cap checked before each chunk is kept.
ReadBody ==
    /\ at = "new" /\ Goto(IF BodyLength > BodyCap THEN "raised" ELSE "app")
    /\ UNCHANGED <<side, pos, appVars, sent, toVars>>

\* wsgi.input: _RequestBodyStream's readinto and readall; the server's own
\* stream in the other direction (receive).
ReadInput ==
    /\ at \in {"app", "first", "rest", "handler"}
    /\ \E n \in 1 .. BodyLength : pos' = IF pos + n > BodyLength THEN BodyLength ELSE pos + n
    /\ pos' # pos
    /\ UNCHANGED <<side, at, appVars, sent, toVars>>

\* start_response: kept until the first chunk is out.  Later, a call with
\* exc_info raises the application's error again; one without is ignored.
StartResponse ==
    /\ at \in {"app", "first"} \/ (at = "rest" /\ first)
    /\ head < Calls
    /\ \E excInfo \in BOOLEAN :
          /\ lateError' = (excInfo /\ committed # 0)
          /\ IF lateError' THEN Goto("failed") /\ UNCHANGED head
             ELSE head' = head + 1 /\ UNCHANGED at
    /\ UNCHANGED <<side, pos, committed, first, yielded, sent, closed, toVars>>

\* The application returns its iterable; a generator has run nothing yet.
AppReturns ==
    /\ at = "app" /\ Goto("first")
    /\ UNCHANGED <<side, pos, appVars, sent, toVars>>

\* The first non-empty chunk is pulled before the head is used.
PullFirst ==
    /\ at = "first" /\ ~first /\ Chunks > 0
    /\ first' = TRUE /\ yielded' = 1 /\ Goto("commit")
    /\ UNCHANGED <<side, pos, head, committed, sent, closed, lateError, toVars>>

NothingToPull ==
    /\ at = "first" /\ Goto("commit")
    /\ UNCHANGED <<side, pos, appVars, sent, toVars>>

\* ctx.stream is called with the head set last; chunks() starts with the chunk
\* that was pulled.
CommitDroppingFirst ==      \* mutant: chunks() goes on with the iterator
    /\ at = "commit"
    /\ IF head = 0 THEN Goto("failed") /\ UNCHANGED committed
       ELSE Goto("rest") /\ committed' = head
    /\ UNCHANGED <<side, pos, head, first, yielded, sent, closed, lateError, toVars>>

Commit ==
    /\ at = "commit"
    /\ IF head = 0 THEN Goto("failed") /\ UNCHANGED <<committed, sent>>
       ELSE /\ Goto("rest") /\ committed' = head
            /\ sent' = IF first THEN 1 ELSE 0
    /\ UNCHANGED <<side, pos, head, first, yielded, closed, lateError, toVars>>

NextChunk ==
    /\ at = "rest" /\ first /\ yielded < Chunks
    /\ yielded' = yielded + 1 /\ sent' = sent + 1
    /\ UNCHANGED <<side, at, pos, head, committed, first, closed, lateError, toVars>>

Exhausted ==
    /\ at = "rest" /\ Goto("ended")
    /\ UNCHANGED <<side, pos, appVars, sent, toVars>>

\* The application raises, or the client is gone and ctx.stream raises.
AppRaises ==
    /\ at \in {"app", "first", "rest"}
    /\ Goto(IF at = "app" THEN "raised" ELSE "failed")
    /\ UNCHANGED <<side, pos, appVars, sent, toVars>>

\* The finally of run_wsgi.
CloseIterator ==
    /\ at \in {"ended", "failed"}
    /\ closed' = closed + 1 /\ Goto(IF at = "ended" THEN "done" ELSE "raised")
    /\ UNCHANGED <<side, pos, head, committed, first, yielded, sent, lateError, toVars>>

-----------------------------------------------------------------------------
\* The handler under to_wsgi: complete, stream and sendfile only capture.
Capture ==
    /\ at = "handler" /\ captured = "none"
    /\ captured' \in {"complete", "stream", "sendfile"}
    /\ file' = IF captured' = "sendfile" THEN "open" ELSE "none"
    /\ UNCHANGED <<side, at, pos, appVars, sent, scoped>>

\* _check_not_started.
CaptureAgain ==
    /\ at = "handler" /\ captured # "none" /\ Goto("raised")
    /\ UNCHANGED <<side, pos, appVars, sent, toVars>>

\* The handler returns; a "with" block around sendfile closes the file.
HandlerReturns ==
    /\ at = "handler" /\ Goto("respond")
    /\ file' = IF scoped /\ file = "open" THEN "closed" ELSE file
    /\ UNCHANGED <<side, pos, appVars, sent, captured, scoped>>

HandlerRaises ==
    /\ at = "handler" /\ Goto("raised")
    /\ UNCHANGED <<side, pos, appVars, sent, toVars>>

\* _respond: nothing captured raises; a closed file raises in seek.
Respond ==
    /\ at = "respond"
    /\ committed' = IF captured = "none" THEN 0 ELSE 1
    /\ Goto(IF captured = "none" \/ file = "closed" THEN "raised" ELSE "serving")
    /\ UNCHANGED <<side, pos, head, first, yielded, sent, closed, lateError, toVars>>

\* The server iterates: the chunk iterator, _read_chunks or _LimitedReader.
\* The iterator may raise, and the server may give up.
Serve ==
    /\ at = "serving" /\ sent < Chunks /\ sent' = sent + 1
    /\ UNCHANGED <<side, at, pos, appVars, toVars>>

Served ==
    /\ at = "serving" /\ at' \in {"done", "raised"}
    /\ UNCHANGED <<side, pos, appVars, sent, toVars>>

-----------------------------------------------------------------------------
Finished == at \in {"done", "raised"} /\ UNCHANGED wvars

WsgiNext ==
    \/ ReadBody \/ ReadInput \/ StartResponse \/ AppReturns \/ PullFirst
    \/ NothingToPull \/ Commit \/ NextChunk \/ Exhausted \/ AppRaises
    \/ CloseIterator \/ Capture \/ CaptureAgain \/ HandlerReturns
    \/ HandlerRaises \/ Respond \/ Serve \/ Served \/ Finished

WsgiSpec == WsgiInit /\ [][WsgiNext]_wvars

-----------------------------------------------------------------------------
\* The client of a wrapped application receives every chunk it yields, the one
\* pulled ahead included (run_wsgi).
NoChunkIsLost == side = "wrap" /\ at \in {"rest", "ended", "done"} => sent = yielded

\* An application that reports an error after its head went out is never taken
\* for one that finished (start_response, exc_info).
LateErrorAborts == lateError => at \in {"failed", "raised"}

\* The application's iterable is closed at most once, and exactly once when the
\* request ends after a first chunk or a commit (the finally of run_wsgi).
ClosedOnce ==
    side = "wrap" =>
        /\ closed <= 1
        /\ at = "done" \/ (at = "raised" /\ (first \/ committed # 0)) => closed = 1

\* A WSGI server is given a status and a body only for a handler that produced
\* a response (_respond).
NoResponseOutOfNothing == side = "to" /\ committed # 0 => captured # "none"

WsgiFaithful == NoChunkIsLost /\ LateErrorAborts /\ ClosedOnce /\ NoResponseOutOfNothing

\* What to_wsgi's docstring says of sendfile ("wsgi.file_wrapper if the host
\* server provides it, else a chunked read+yield fallback"): a file captured
\* for sendfile can still be read when the response is made.
SendfileIsServed == file = "closed" => captured # "sendfile"
=============================================================================
