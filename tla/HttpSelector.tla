----------------------------- MODULE HttpSelector -----------------------------
(***************************************************************************)
(* Connections of the HTTP server (localpost/http, h11 backend): one       *)
(* Selector thread, the op queue and wake-up pipe, and the workers that    *)
(* _pool.py lends connections to.                                          *)
(*                                                                         *)
(* The selector thread runs Selector.run: drain the op queue, select, call *)
(* the callback of every ready fd.  A request reaches a connection in two  *)
(* chunks; the first alone leaves it stalled in the middle of a request.   *)
(* One turn of HTTPConn._loop is one action, and so is each point at which *)
(* a worker and the selector may see each other's writes: the optimistic   *)
(* "tracked = True", the append to the op queue, the byte in the pipe.     *)
(***************************************************************************)
EXTENDS Integers, Sequences, FiniteSets

CONSTANTS
    Conns,      \* connections, each accepted at most once
    Fds,        \* file descriptors; fewer than connections means reuse
    Workers,    \* pool threads; bound on the handlers running at a time
    Pooled,     \* the handler is wrapped by thread_pool_handler
    MaxChunks,  \* bound: chunks a client sends on one connection
    MaxSweeps   \* bound: stale sweeps posted by the cleanup ticker

NoConn == "no conn"
NoFd == "no fd"
Accept == "accept"      \* the listening socket in a batch
Wakeup == "wakeup"      \* the read end of the pipe in a batch

ASSUME SelectorAssumption ==
    /\ IsFiniteSet(Conns) /\ IsFiniteSet(Fds) /\ IsFiniteSet(Workers)
    /\ Conns \cap {NoConn, Accept, Wakeup} = {} /\ NoFd \notin Fds
    /\ Pooled \in BOOLEAN
    /\ MaxChunks \in Nat /\ MaxSweeps \in Nat

VARIABLES
    \* the kernel
    sock, fd,           \* a connection's socket: "none", "open", "closed"
    backlog,            \* connections waiting for accept
    wire, fin, chunks,  \* unread chunks, client's FIN, chunks sent so far
    \* selectors.BaseSelector
    keys,               \* fd -> [obj, data] or NoKey (_fd_to_key)
    watched,            \* fds the kernel watches (epoll)
    \* Selector
    ops, wakeup, shutting_down, spc, cur, batch, cleanup_due, sweeps,
    \* HTTPConn
    tracked, close_at, overdue, idle, parser, buf,
    \* workers
    wpc, job,
    \* history
    answered, got408, killed

kernelVars == <<sock, fd, backlog, wire, fin, chunks>>
keyVars    == <<keys, watched>>
opVars     == <<ops, wakeup>>
loopVars   == <<spc, cur, batch, cleanup_due>>
selVars    == <<shutting_down, sweeps>>
connVars   == <<tracked, close_at, overdue, idle, parser, buf>>
workVars   == <<wpc, job>>
history    == <<answered, got408, killed>>
vars == <<kernelVars, keyVars, opVars, loopVars, selVars, connVars, workVars,
          history>>

NoKey == [obj |-> NoConn, data |-> NoConn]

OpTrack(c) == [op |-> "track", conn |-> c]
OpClose(f) == [op |-> "close", fd |-> f]
OpCleanup == [op |-> "cleanup"]

\* The connections a worker is answering a request of.
Borrowed == {job[w] : w \in {v \in Workers : wpc[v] = "run"}}
FreeWorkers == {w \in Workers : wpc[w] = "idle"}
InMap(f) == f \in Fds /\ keys[f] # NoKey

-----------------------------------------------------------------------------
\* selectors: the key a socket is filed under.  A closed socket has no fileno,
\* and is looked for among the registered objects.
KeyFd(c) ==
    IF sock[c] = "open" THEN fd[c]
    ELSE IF \E f \in Fds : InMap(f) /\ keys[f].obj = c
      THEN CHOOSE f \in Fds : InMap(f) /\ keys[f].obj = c
      ELSE NoFd

Without(f) == [g \in Fds |-> IF g = f THEN NoKey ELSE keys[g]]

\* unregister(sock) and unregister(fd); a missing key is ignored.
Unregister(f) ==
    /\ keys' = Without(f)
    /\ watched' = watched \ {f}

\* sock.close(): the fd is free again and the kernel forgets it.
CloseSocks(cs) == [c \in Conns |-> IF c \in cs THEN "closed" ELSE sock[c]]
FreedFds(cs) == {fd[c] : c \in {d \in cs : sock[d] = "open"}}

Init ==
    /\ sock = [c \in Conns |-> "none"]
    /\ fd = [c \in Conns |-> NoFd]
    /\ backlog = {}
    /\ wire = [c \in Conns |-> 0] /\ chunks = [c \in Conns |-> 0]
    /\ fin = [c \in Conns |-> FALSE]
    /\ keys = [f \in Fds |-> NoKey] /\ watched = {}
    /\ ops = <<>> /\ wakeup = FALSE /\ shutting_down = FALSE
    /\ spc = "drain" /\ cur = NoConn /\ batch = {} /\ cleanup_due = FALSE
    /\ sweeps = 0
    /\ tracked = [c \in Conns |-> FALSE]
    /\ close_at = [c \in Conns |-> "none"]
    /\ overdue = [c \in Conns |-> FALSE]
    /\ idle = [c \in Conns |-> TRUE]
    /\ parser = [c \in Conns |-> "idle"] /\ buf = [c \in Conns |-> 0]
    /\ wpc = [w \in Workers |-> "idle"] /\ job = [w \in Workers |-> NoConn]
    /\ answered = [c \in Conns |-> 0]
    /\ got408 = [c \in Conns |-> FALSE]
    /\ killed = [c \in Conns |-> FALSE]

-----------------------------------------------------------------------------
\* Clients and time.
ClientConnects(c) ==
    /\ sock[c] = "none" /\ c \notin backlog /\ ~shutting_down
    /\ backlog' = backlog \cup {c}
    /\ UNCHANGED <<sock, fd, wire, fin, chunks, keyVars, opVars, loopVars,
                   selVars, connVars, workVars, history>>

ClientSends(c) ==
    /\ sock[c] = "open" /\ ~fin[c] /\ chunks[c] < MaxChunks
    /\ wire' = [wire EXCEPT ![c] = @ + 1]
    /\ chunks' = [chunks EXCEPT ![c] = @ + 1]
    /\ UNCHANGED <<sock, fd, backlog, fin, keyVars, opVars, loopVars, selVars,
                   connVars, workVars, history>>

ClientCloses(c) ==
    /\ sock[c] = "open" /\ ~fin[c]
    /\ fin' = [fin EXCEPT ![c] = TRUE]
    /\ UNCHANGED <<sock, fd, backlog, wire, chunks, keyVars, opVars, loopVars,
                   selVars, connVars, workVars, history>>

TimePasses(c) ==
    /\ sock[c] = "open" /\ close_at[c] # "none" /\ ~overdue[c]
    /\ overdue' = [overdue EXCEPT ![c] = TRUE]
    /\ UNCHANGED <<kernelVars, keyVars, opVars, loopVars, selVars, tracked,
                   close_at, idle, parser, buf, workVars, history>>

\* _cleanup_ticker calls post_cleanup.
PostCleanup ==
    /\ sweeps < MaxSweeps /\ ~shutting_down
    /\ sweeps' = sweeps + 1
    /\ ops' = Append(ops, OpCleanup) /\ wakeup' = TRUE
    /\ UNCHANGED <<kernelVars, keyVars, loopVars, shutting_down, connVars,
                   workVars, history>>

-----------------------------------------------------------------------------
\* Selector._apply_track.  modify() with unchanged events only replaces the
\* data of the key: the kernel is not told.
ApplyTrackModify(c) ==      \* mutant: a socket without a key is not registered
    /\ keys' = [f \in Fds |-> IF f = KeyFd(c) /\ InMap(f)
                                 THEN [keys[f] EXCEPT !.data = c] ELSE keys[f]]
    /\ UNCHANGED <<watched, tracked, sock>>

ApplyTrack(c) ==
    IF /\ KeyFd(c) \in Fds
       /\ sock[c] = "open" \/ InMap(fd[c])
      THEN /\ keys' = [keys EXCEPT ![KeyFd(c)] =
                         [obj |-> IF InMap(KeyFd(c)) THEN keys[KeyFd(c)].obj ELSE c,
                          data |-> c]]
           /\ watched' = IF InMap(KeyFd(c)) THEN watched
                                            ELSE watched \cup {KeyFd(c)}
           /\ UNCHANGED <<tracked, sock>>
      ELSE /\ tracked' = [tracked EXCEPT ![c] = FALSE]
           /\ sock' = CloseSocks({c})
           /\ UNCHANGED <<keys, watched>>

\* _drain_ops, at the top of run() and again when the wake-up pipe fires.
DrainOp ==
    /\ spc \in {"drain", "redrain"} /\ ops # <<>>
    /\ ops' = Tail(ops)
    /\ LET o == Head(ops) IN
         \/ o.op = "track" /\ ApplyTrack(o.conn) /\ UNCHANGED cleanup_due
         \/ o.op = "close" /\ Unregister(o.fd)
              /\ UNCHANGED <<tracked, sock, cleanup_due>>
         \/ o.op = "cleanup" /\ cleanup_due' = TRUE
              /\ UNCHANGED <<tracked, sock, keyVars>>
    /\ UNCHANGED <<fd, backlog, wire, fin, chunks, wakeup, spc, cur, batch,
                   selVars, close_at, overdue, idle, parser, buf, workVars,
                   history>>

AfterDrain == IF spc = "drain" THEN "select" ELSE "batch"

DrainDone ==
    /\ spc \in {"drain", "redrain"} /\ ops = <<>> /\ ~cleanup_due
    /\ spc' = AfterDrain
    /\ UNCHANGED <<kernelVars, keyVars, opVars, cur, batch, cleanup_due,
                   selVars, connVars, workVars, history>>

\* _find_stale and _cleanup_stale.  emit_stale_408 answers a request that has
\* begun to arrive, and nothing else.
Stale == {keys[f].data : f \in {g \in Fds : InMap(g) /\ overdue[keys[g].data]}}
NotIdle(c) == ~idle[c]      \* mutant: whether a response is under way is not asked

Stalled(c) == ~idle[c] /\ parser[c] = "idle"

CleanupStale ==
    /\ spc \in {"drain", "redrain"} /\ ops = <<>> /\ cleanup_due
    /\ cleanup_due' = FALSE
    /\ spc' = AfterDrain
    /\ LET gone == {KeyFd(c) : c \in Stale} IN
         /\ keys' = [f \in Fds |-> IF f \in gone THEN NoKey ELSE keys[f]]
         /\ watched' = watched \ (gone \cup FreedFds(Stale))
    /\ tracked' = [c \in Conns |-> tracked[c] /\ c \notin Stale]
    /\ sock' = CloseSocks(Stale)
    /\ got408' = [c \in Conns |-> got408[c] \/ (c \in Stale /\ Stalled(c))]
    /\ killed' = [c \in Conns |-> killed[c] \/ c \in Stale \cap Borrowed]
    /\ UNCHANGED <<fd, backlog, wire, fin, chunks, opVars, cur, batch, selVars,
                   close_at, overdue, idle, parser, buf, workVars, answered>>

-----------------------------------------------------------------------------
\* select() returns the keys of the ready fds; it also returns, empty handed,
\* after select_timeout.
Ready ==
    {keys[f].data : f \in {g \in watched : InMap(g) /\
        \E c \in Conns : /\ sock[c] = "open" /\ fd[c] = g
                         /\ wire[c] > 0 \/ fin[c]}}
    \cup (IF backlog # {} THEN {Accept} ELSE {})
    \cup (IF wakeup THEN {Wakeup} ELSE {})

Select ==
    /\ spc = "select"
    /\ batch' = Ready
    /\ spc' = "batch"
    /\ UNCHANGED <<kernelVars, keyVars, opVars, cur, cleanup_due, selVars,
                   connVars, workVars, history>>

\* The next callback of the batch.
BatchWakeup ==
    /\ spc = "batch" /\ Wakeup \in batch
    /\ batch' = batch \ {Wakeup}
    /\ wakeup' = FALSE
    /\ spc' = "redrain"
    /\ UNCHANGED <<kernelVars, keyVars, ops, cur, cleanup_due, selVars,
                   connVars, workVars, history>>

FreeFds == Fds \ {fd[c] : c \in {d \in Conns : sock[d] = "open"}}

\* _AcceptListener and TrackHere: the connection is tracked inline.
BatchAccept ==
    /\ spc = "batch" /\ Accept \in batch
    /\ batch' = batch \ {Accept}
    /\ \E c \in backlog, f \in FreeFds :
         /\ backlog' = backlog \ {c}
         /\ sock' = [sock EXCEPT ![c] = "open"]
         /\ fd' = [fd EXCEPT ![c] = f]
         /\ tracked' = [tracked EXCEPT ![c] = TRUE]
         /\ keys' = [keys EXCEPT ![f] =
                       [obj |-> IF InMap(f) THEN keys[f].obj ELSE c, data |-> c]]
         /\ watched' = IF InMap(f) THEN watched ELSE watched \cup {f}
    /\ UNCHANGED <<wire, fin, chunks, opVars, spc, cur, cleanup_due, selVars,
                   close_at, overdue, idle, parser, buf, workVars, history>>

\* accept() without a free fd raises; the backlog stays.
BatchAcceptFails ==
    /\ spc = "batch" /\ Accept \in batch /\ FreeFds = {}
    /\ batch' = batch \ {Accept}
    /\ UNCHANGED <<kernelVars, keyVars, opVars, spc, cur, cleanup_due, selVars,
                   connVars, workVars, history>>

BatchConn ==
    /\ spc = "batch"
    /\ \E c \in batch \cap Conns : cur' = c /\ batch' = batch \ {c}
    /\ spc' = "loop"
    /\ UNCHANGED <<kernelVars, keyVars, opVars, cleanup_due, selVars, connVars,
                   workVars, history>>

BatchDone ==
    /\ spc = "batch" /\ batch = {}
    /\ spc' = "drain"
    /\ UNCHANGED <<kernelVars, keyVars, opVars, cur, batch, cleanup_due,
                   selVars, connVars, workVars, history>>

-----------------------------------------------------------------------------
\* HTTPConn._loop for the connection cur, one turn at a time.
InLoop(c) == spc = "loop" /\ cur = c
EndCallback == spc' = "batch" /\ cur' = NoConn /\ UNCHANGED <<batch, cleanup_due>>
StayInLoop == UNCHANGED loopVars

LoopUntracked(c) ==
    /\ InLoop(c) /\ ~tracked[c]
    /\ EndCallback
    /\ UNCHANGED <<kernelVars, keyVars, opVars, selVars, connVars, workVars,
                   history>>

\* BaseHTTPConn.close() on the selector thread.
CloseInline(c) ==
    /\ tracked' = [tracked EXCEPT ![c] = FALSE]
    /\ sock' = CloseSocks({c})
    /\ Unregister(fd[c])
    /\ EndCallback
    /\ UNCHANGED <<fd, backlog, wire, fin, chunks, opVars, selVars, close_at,
                   overdue, idle, parser, buf, workVars>>

\* h11 is between two requests.
Between(c) == parser[c] \in {"idle", "done"}

\* The client is gone, or the response asked for "Connection: close", or the
\* input is refused (400, 413): the connection is closed.
LoopClose(c) ==
    /\ InLoop(c) /\ tracked[c]
    /\ \/ parser[c] = "must_close"
       \/ Between(c) /\ buf[c] >= 2
       \/ Between(c) /\ buf[c] < 2 /\ wire[c] = 0 /\ fin[c]
    /\ CloseInline(c)
    /\ UNCHANGED history

\* The reset that goes with start_next_cycle, when the last request on this
\* connection has been answered.
StartNextOnly(c) ==         \* mutant: the deadline is left as it was
    /\ idle' = [idle EXCEPT ![c] = @ \/ parser[c] = "done"]
    /\ UNCHANGED <<close_at, overdue>>

StartNextCycle(c) ==
    IF parser[c] = "done"
      THEN /\ idle' = [idle EXCEPT ![c] = TRUE]
           /\ close_at' = [close_at EXCEPT ![c] = "keep_alive"]
           /\ overdue' = [overdue EXCEPT ![c] = FALSE]
      ELSE UNCHANGED <<idle, close_at, overdue>>

\* recv() and receive_data: what was on the wire is in the parser.
ReadWire(c) ==
    /\ buf' = [buf EXCEPT ![c] = @ + wire[c]]
    /\ wire' = [wire EXCEPT ![c] = 0]

LoopReceive(c) ==
    /\ InLoop(c) /\ tracked[c] /\ Between(c) /\ buf[c] < 2 /\ wire[c] > 0
    /\ parser' = [parser EXCEPT ![c] = "idle"]
    /\ ReadWire(c)
    /\ idle' = [idle EXCEPT ![c] = FALSE]
    /\ close_at' = [close_at EXCEPT ![c] = "rw_timeout"]
    /\ overdue' = [overdue EXCEPT ![c] = FALSE]
    /\ StayInLoop
    /\ UNCHANGED <<sock, fd, backlog, fin, chunks, keyVars, opVars, selVars,
                   tracked, workVars, history>>

\* BlockingIOError: wait for more in the selector.
LoopBlock(c) ==
    /\ InLoop(c) /\ tracked[c] /\ Between(c) /\ buf[c] < 2
    /\ wire[c] = 0 /\ ~fin[c]
    /\ parser' = [parser EXCEPT ![c] = "idle"]
    /\ StartNextCycle(c)
    /\ EndCallback
    /\ UNCHANGED <<kernelVars, keyVars, opVars, selVars, tracked, buf,
                   workVars, history>>

\* next_event returns a request, which leaves the parser's buffer.
PeekRequest(c) == UNCHANGED buf     \* mutant

TakeRequest(c) == buf' = [buf EXCEPT ![c] = @ - 2]

\* Selector.stop_tracking.
StopTrackingLate(c) ==      \* mutant: the flag is left for later
    Unregister(KeyFd(c)) /\ UNCHANGED tracked

StopTracking(c) ==
    Unregister(KeyFd(c)) /\ tracked' = [tracked EXCEPT ![c] = FALSE]

\* A complete request, handled by a worker: the dispatcher of _pool.py calls
\* stop_tracking and hands the connection to the task group.
LoopDispatch(c) ==
    /\ Pooled /\ InLoop(c) /\ tracked[c] /\ Between(c) /\ buf[c] >= 2
    /\ parser' = [parser EXCEPT ![c] = "request"]
    /\ TakeRequest(c)
    /\ StartNextCycle(c)
    /\ StopTracking(c)
    /\ \E w \in FreeWorkers : /\ wpc' = [wpc EXCEPT ![w] = "run"]
                              /\ job' = [job EXCEPT ![w] = c]
    /\ spc' = "dispatched"
    /\ UNCHANGED <<kernelVars, opVars, cur, batch, cleanup_due, selVars, history>>

\* "if ctx.borrowed: return", after the dispatch.  A worker that was quick has
\* set tracked again, and the loop goes on.
CheckBorrowed ==
    /\ spc = "dispatched"
    /\ IF tracked[cur] THEN spc' = "loop" /\ UNCHANGED <<cur, batch, cleanup_due>>
                       ELSE EndCallback
    /\ UNCHANGED <<kernelVars, keyVars, opVars, selVars, connVars, workVars,
                   history>>

\* A complete request, answered on the selector thread.
LoopAnswer(c) ==
    /\ ~Pooled /\ InLoop(c) /\ tracked[c] /\ Between(c) /\ buf[c] >= 2
    /\ TakeRequest(c)
    /\ \E p \in {"done", "must_close"} : parser' = [parser EXCEPT ![c] = p]
    /\ StartNextCycle(c)
    /\ answered' = [answered EXCEPT ![c] = @ + 1]
    /\ StayInLoop
    /\ UNCHANGED <<kernelVars, keyVars, opVars, selVars, tracked, workVars,
                   got408, killed>>

-----------------------------------------------------------------------------
\* _run_request on a worker.
Goto(w, l) == wpc' = [wpc EXCEPT ![w] = l] /\ UNCHANGED job
Finish(w) == /\ wpc' = [wpc EXCEPT ![w] = "idle"]
             /\ job' = [job EXCEPT ![w] = NoConn]

\* The handler, or emit_handler_error for it, completes the response.
Respond(w) ==
    /\ wpc[w] = "run" /\ sock[job[w]] = "open"
    /\ \E p \in {"done", "must_close"} : parser' = [parser EXCEPT ![job[w]] = p]
    /\ answered' = [answered EXCEPT ![job[w]] = @ + 1]
    /\ Goto(w, "give back")
    /\ UNCHANGED <<kernelVars, keyVars, opVars, loopVars, selVars, tracked,
                   close_at, overdue, idle, buf, got408, killed>>

\* RequestCancelled, an unread body, or a response that cannot be sent.
Abort(w) ==
    /\ wpc[w] = "run"
    /\ Goto(w, "close")
    /\ UNCHANGED <<kernelVars, keyVars, opVars, loopVars, selVars, connVars,
                   history>>

\* _maybe_give_back and the head of Selector.track.
GiveBack(w) ==
    /\ wpc[w] = "give back"
    /\ LET c == job[w] IN
         \/ /\ ~tracked[c] /\ shutting_down
            /\ sock' = CloseSocks({c}) /\ watched' = watched \ FreedFds({c})
            /\ Goto(w, "after") /\ UNCHANGED tracked
         \/ /\ ~tracked[c] /\ ~shutting_down
            /\ tracked' = [tracked EXCEPT ![c] = TRUE]
            /\ Goto(w, "append") /\ UNCHANGED <<sock, watched>>
         \/ tracked[c] /\ Goto(w, "after") /\ UNCHANGED <<sock, watched, tracked>>
    /\ UNCHANGED <<fd, backlog, wire, fin, chunks, keys, opVars, loopVars,
                   selVars, close_at, overdue, idle, parser, buf, history>>

AppendTrack(w) ==
    /\ wpc[w] = "append"
    /\ ops' = Append(ops, OpTrack(job[w]))
    /\ Goto(w, "wake")
    /\ UNCHANGED <<kernelVars, keyVars, wakeup, loopVars, selVars, connVars,
                   history>>

\* _wake: a byte in the pipe, unless shutdown has closed it.
Wake(w) ==
    /\ wpc[w] \in {"wake", "wake and end"}
    /\ wakeup' = (spc # "down")
    /\ IF wpc[w] = "wake" THEN Goto(w, "after") ELSE Finish(w)
    /\ UNCHANGED <<kernelVars, keyVars, ops, loopVars, selVars, connVars, history>>

\* The handler returns after its response; or it raises, or its cancel token
\* has fired, and the connection is closed (emit_handler_error, _run_request).
ReturnAfter(w) ==
    /\ wpc[w] = "after"
    /\ Finish(w)
    /\ UNCHANGED <<kernelVars, keyVars, opVars, loopVars, selVars, connVars,
                   history>>

RaiseAfter(w) ==
    /\ wpc[w] = "after"
    /\ Goto(w, "close")
    /\ UNCHANGED <<kernelVars, keyVars, opVars, loopVars, selVars, connVars,
                   history>>

\* BaseHTTPConn.close() on a worker thread: the socket at once, the selector's
\* key by way of the op queue if the connection was tracked.
CloseByWorker(w) ==
    /\ wpc[w] = "close"
    /\ LET c == job[w] IN
         /\ tracked' = [tracked EXCEPT ![c] = FALSE]
         /\ sock' = CloseSocks({c})
         /\ watched' = watched \ FreedFds({c})
         /\ IF tracked[c] THEN Goto(w, "append close") ELSE Finish(w)
         /\ killed' = [killed EXCEPT ![c] =
                         @ \/ (\E v \in Workers \ {w} : wpc[v] = "run" /\ job[v] = c)]
    /\ UNCHANGED <<fd, backlog, wire, fin, chunks, keys, opVars, loopVars,
                   selVars, close_at, overdue, idle, parser, buf, answered,
                   got408>>

AppendClose(w) ==
    /\ wpc[w] = "append close"
    /\ ops' = Append(ops, OpClose(fd[job[w]]))
    /\ Goto(w, "wake and end")
    /\ UNCHANGED <<kernelVars, keyVars, wakeup, loopVars, selVars, connVars,
                   history>>

-----------------------------------------------------------------------------
\* Selector.shutdown, after the loop has stopped between two iterations.
ShutdownBegins ==
    /\ spc = "drain" /\ ~shutting_down
    /\ shutting_down' = TRUE
    /\ spc' = "shutdown"
    /\ UNCHANGED <<kernelVars, keyVars, opVars, cur, batch, cleanup_due,
                   sweeps, connVars, workVars, history>>

ShutdownOp ==
    /\ spc = "shutdown" /\ ops # <<>>
    /\ ops' = Tail(ops)
    /\ IF Head(ops).op = "track"
         THEN LET c == Head(ops).conn IN
              /\ sock' = CloseSocks({c}) /\ watched' = watched \ FreedFds({c})
              /\ tracked' = [tracked EXCEPT ![c] = FALSE]
         ELSE UNCHANGED <<sock, watched, tracked>>
    /\ UNCHANGED <<fd, backlog, wire, fin, chunks, keys, wakeup, loopVars,
                   selVars, close_at, overdue, idle, parser, buf, workVars,
                   history>>

RegisteredIdle ==       \* mutant: connections in a request are left alone
    {keys[f].data : f \in {g \in Fds : InMap(g) /\ idle[keys[g].data]}}

Registered == {keys[f].data : f \in {g \in Fds : InMap(g)}}

\* Every registered connection is closed, then the wake-up pipe and, by the
\* context manager around it, the listening socket.
ShutdownEnds ==
    /\ spc = "shutdown" /\ ops = <<>>
    /\ sock' = CloseSocks(Registered)
    /\ tracked' = [c \in Conns |-> tracked[c] /\ c \notin Registered]
    /\ watched' = {}
    /\ keys' = [f \in Fds |-> NoKey]
    /\ wakeup' = FALSE /\ backlog' = {}
    /\ spc' = "down"
    /\ UNCHANGED <<fd, wire, fin, chunks, ops, cur, batch, cleanup_due,
                   selVars, close_at, overdue, idle, parser, buf, workVars,
                   history>>

-----------------------------------------------------------------------------
LoopStep(c) ==
    \/ LoopUntracked(c) \/ LoopClose(c) \/ LoopReceive(c) \/ LoopBlock(c)
    \/ LoopDispatch(c) \/ LoopAnswer(c)

SelectorStep ==
    \/ DrainOp \/ DrainDone \/ CleanupStale \/ Select \/ BatchWakeup
    \/ BatchAccept \/ BatchAcceptFails \/ BatchConn \/ BatchDone \/ CheckBorrowed
    \/ \E c \in Conns : LoopStep(c)

WorkerStep(w) ==
    \/ Respond(w) \/ Abort(w) \/ GiveBack(w) \/ AppendTrack(w) \/ Wake(w)
    \/ ReturnAfter(w) \/ RaiseAfter(w) \/ CloseByWorker(w) \/ AppendClose(w)

ShutdownStep == ShutdownBegins \/ ShutdownOp \/ ShutdownEnds

ClientStep(c) ==
    ClientConnects(c) \/ ClientSends(c) \/ ClientCloses(c) \/ TimePasses(c)

Next ==
    \/ SelectorStep \/ PostCleanup \/ ShutdownStep
    \/ \E w \in Workers : WorkerStep(w)
    \/ \E c \in Conns : ClientStep(c)

Spec == Init /\ [][Next]_vars

\* The selector thread and the workers run; handlers return.
Fairness == WF_vars(SelectorStep) /\ \A w \in Workers : WF_vars(WorkerStep(w))

FairSpec == Spec /\ Fairness

-----------------------------------------------------------------------------
Ops == {OpTrack(c) : c \in Conns} \cup {OpClose(f) : f \in Fds} \cup {OpCleanup}

\* The type invariant; no more is read from a socket than its client sent.
TypeOK ==
    /\ sock \in [Conns -> {"none", "open", "closed"}]
    /\ fd \in [Conns -> Fds \cup {NoFd}]
    /\ backlog \subseteq Conns
    /\ wire \in [Conns -> 0..MaxChunks] /\ chunks \in [Conns -> 0..MaxChunks]
    /\ fin \in [Conns -> BOOLEAN]
    /\ keys \in [Fds -> [obj : Conns, data : Conns] \cup {NoKey}]
    /\ watched \subseteq Fds
    /\ ops \in Seq(Ops)
    /\ wakeup \in BOOLEAN /\ shutting_down \in BOOLEAN /\ cleanup_due \in BOOLEAN
    /\ spc \in {"drain", "redrain", "select", "batch", "loop", "dispatched",
                "shutdown", "down"}
    /\ cur \in Conns \cup {NoConn}
    /\ batch \subseteq Conns \cup {Accept, Wakeup}
    /\ sweeps \in 0..MaxSweeps
    /\ tracked \in [Conns -> BOOLEAN]
    /\ close_at \in [Conns -> {"none", "keep_alive", "rw_timeout"}]
    /\ overdue \in [Conns -> BOOLEAN] /\ idle \in [Conns -> BOOLEAN]
    /\ parser \in [Conns -> {"idle", "request", "done", "must_close"}]
    /\ buf \in [Conns -> 0..MaxChunks]
    /\ wpc \in [Workers -> {"idle", "run", "give back", "append", "wake",
                            "after", "close", "append close", "wake and end"}]
    /\ job \in [Workers -> Conns \cup {NoConn}]
    /\ answered \in [Conns -> Nat]
    /\ got408 \in [Conns -> BOOLEAN] /\ killed \in [Conns -> BOOLEAN]

\* The parser has one owner: a connection whose request a worker is answering
\* is not tracked, so _loop leaves it alone, and has no second worker.
OneOwner ==
    \A w \in Workers : wpc[w] = "run" =>
        /\ ~tracked[job[w]]
        /\ \A v \in Workers \ {w} : ~(wpc[v] = "run" /\ job[v] = job[w])

\* The kernel watches the connection's fd and its events lead to it.
Watched(c) == fd[c] \in watched /\ InMap(fd[c]) /\ keys[fd[c]].data = c

Queued(c) == \E i \in 1..Len(ops) : ops[i] = OpTrack(c)

HasWorker(c) ==
    \E w \in Workers : /\ job[w] = c
                        /\ wpc[w] \in {"run", "give back", "append", "close"}

\* No open connection is forgotten: its events reach the selector, or a
\* give-back is on its way, or a thread is working on it (track, stop_tracking
\* and close, whichever threads call them).
NoOrphan ==
    \A c \in Conns : sock[c] = "open" /\ spc # "down" =>
        Watched(c) \/ Queued(c) \/ HasWorker(c) \/ cur = c

\* An op in the queue is never slept on: before select there is a byte in the
\* pipe, or the thread that appended the op is about to write one.
NoLostWakeup ==
    spc = "select" /\ ops # <<>> =>
        wakeup \/ \E w \in Workers : wpc[w] \in {"wake", "wake and end"}

\* What the selector and the workers rely on in each other: one owner of every
\* parser, and neither a connection nor an op that everybody has forgotten.
ConnectionsSafe == TypeOK /\ OneOwner /\ NoOrphan /\ NoLostWakeup

\* 408 goes to a client whose request is under way and to nobody else: not to
\* an idle connection, not into a response (emit_stale_408).
Only408WhenStalled ==
    [][\A c \in Conns : got408'[c] /\ ~got408[c] =>
          buf[c] > 0 /\ c \notin Borrowed /\ 2 * answered[c] < chunks[c]]_vars

\* One callback may run through several requests: never more answers than complete
\* requests received, and a connection that then waits for the next one has the
\* deadline of ServerConfig.keep_alive_timeout (_loop, start_next_cycle).
CycleInStep == \A c \in Conns :
    /\ 2 * answered[c] <= chunks[c] - wire[c] - buf[c]
    /\ Watched(c) /\ cur # c /\ answered[c] > 0 /\ wire[c] = 0 /\ buf[c] = 0
           => close_at[c] = "keep_alive"

\* Nobody closes a connection while a worker answers a request on it, except
\* that worker.
NobodyClosesUnderWorker == \A c \in Conns : ~killed[c]

\* After shutdown, when the workers have returned, every socket is closed.
ShutdownClosesAll ==
    spc = "down" /\ (\A w \in Workers : wpc[w] = "idle")
        => \A c \in Conns : sock[c] # "open"

\* A request whose last bytes arrive after everything before them was read is
\* answered in the end, or its connection is closed, whatever the selector and
\* the workers do in between and whatever the client sends next.
RequestsAreServed ==
    \A c \in Conns : \A n \in 1..(MaxChunks \div 2) :
        (sock[c] = "open" /\ chunks[c] = 2 * n /\ wire[c] = 1)
            ~> (answered[c] >= n \/ sock[c] = "closed" \/ shutting_down)

\* The same for requests that arrive together with the one before, which the
\* changelog says are served sequentially: every complete request is answered.
PipelinedAreServed ==
    \A c \in Conns : \A n \in 1..(MaxChunks \div 2) :
        (sock[c] = "open" /\ chunks[c] >= 2 * n)
            ~> (answered[c] >= n \/ sock[c] = "closed" \/ shutting_down)
=============================================================================
