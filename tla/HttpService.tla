---------------------------- MODULE HttpService ----------------------------
(***************************************************************************)
(* The hosted HTTP server: localpost/http/_service.py in its three         *)
(* topologies, as HttpApp.service of app.py runs it inside                 *)
(* thread_pool_handler (_pool.py), with what selectors and the acceptor do *)
(* to each other while they come and go (_base.py).                        *)
(*                                                                         *)
(* Every selector is a thread that an awaiting task of the service's task  *)
(* group waits for.  What happens on one connection between two requests   *)
(* is left to HttpSelector: here a connection has a place, and a request   *)
(* that waits to be answered.                                              *)
(*                                                                         *)
(* An executor of the application's own is the AsyncWorkerExecutor of      *)
(* module AsyncPool: its condition is held across a call into the event    *)
(* loop, and the loop itself waits for the condition when it closes the    *)
(* pool.  A shared executor is one whose owner keeps it open and whose     *)
(* submit does not need the loop.                                          *)
(***************************************************************************)
EXTENDS Integers, FiniteSets

CONSTANTS
    Selectors,      \* how many selectors the multi and acceptor topologies have
    Conns,
    MaxRequests,    \* a bound: requests sent by all clients together
    Backend         \* "h11" or "httptools"

ASSUME HttpServiceAssumption ==
    Selectors \in Nat \ {0} /\ MaxRequests \in Nat /\ Backend \in {"h11", "httptools"}

Acceptor == 0       \* the acceptor's thread and selector; the others are 1..Selectors
Threads == Acceptor .. Selectors

VARIABLES
    topology,   \* "single", "multi" or "acceptor"
    executor,   \* "none" (handlers run on selectors), "shared" or "own"
    app,        \* where the body of the application's service is
    appShut,    \* its shutting_down
    appCancelled,   \* its scope, which the own executor's scope is inside
    group,      \* the task group of thread_pool_handler: "open" or "closed"
    giving,     \* connections whose dispatch is under way
    poolClosed,     \* _closed of an executor of its own
    hosted,     \* its host tasks that have not run yet
    looping,    \* its workers on their way to the condition
    idle,       \* and those that sleep in it
    started, shutting, stopped,     \* the lifetime of the http_server service
    cancelled,  \* its task group's scope
    thread,     \* where each thread is
    batch,      \* the ready connections its selector has yet to call back
    down,       \* Selector.shutting_down
    listening,  \* threads whose listen socket is open
    next,       \* RoundRobinAcceptor._next
    place, home,    \* of a connection, and the selector that has or will get it
    request,    \* a request that has not been answered: "none" or "sent"
    requests,   \* how many were sent
    late        \* connections handed to a selector after its last look (history)

modeVars == <<topology, executor>>
appVars  == <<app, appShut, appCancelled, group>>
poolVars == <<giving, poolClosed, hosted, looping, idle>>
lifeVars == <<started, shutting, stopped, cancelled>>
selVars  == <<thread, batch, down, listening, next>>
connVars == <<place, home, request, requests, late>>
vars     == <<modeVars, appVars, poolVars, lifeVars, selVars, connVars>>

Used ==
    CASE topology = "single" -> {1}
      [] topology = "multi" -> 1..Selectors
      [] topology = "acceptor" -> Threads

Listeners == IF topology = "acceptor" THEN {Acceptor} ELSE Used

\* The connections of a selector in one of some places.
At(t, places) == {c \in Conns : home[c] = t /\ place[c] \in places}

\* In the executor's queue, and with one of its workers.
Waiting == {c \in Conns : place[c] = "waiting"}
Lent == {c \in Conns : place[c] \in {"lent", "returning"}}

\* The condition of an executor of its own is held by a submit that waits for the
\* loop; the loop runs nothing while it waits for the condition.
CondFree == \A t \in Threads : thread[t] # "spawning"
LoopFree == app # "closing"

Moved(cs, to) == place' = [c \in Conns |-> IF c \in cs THEN to ELSE place[c]]

Init ==
    /\ topology \in {"single", "multi", "acceptor"}
    /\ executor \in {"none", "shared", "own"}
    /\ app = "starting" /\ appShut = FALSE /\ appCancelled = FALSE
    /\ group = "open" /\ giving = {}
    /\ poolClosed = FALSE /\ hosted = 0 /\ looping = 0 /\ idle = 0
    /\ started = FALSE /\ shutting = FALSE /\ stopped = FALSE /\ cancelled = FALSE
    /\ thread = [t \in Threads |-> "new"] /\ batch = [t \in Threads |-> {}]
    /\ down = [t \in Threads |-> FALSE] /\ listening = {} /\ next = 0
    /\ place = [c \in Conns |-> "new"] /\ home = [c \in Conns |-> Acceptor]
    /\ request = [c \in Conns |-> "none"] /\ requests = 0 /\ late = {}

-----------------------------------------------------------------------------
\* Clients.
Connects(c) ==
    /\ place[c] = "new"
    /\ \E t \in listening :
          place' = [place EXCEPT ![c] = "backlog"] /\ home' = [home EXCEPT ![c] = t]
    /\ UNCHANGED <<modeVars, poolVars, appVars, lifeVars, selVars, request, requests,
                   late>>

Sends(c) ==
    /\ place[c] \in {"backlog", "posting", "queued", "map"}
    /\ request[c] = "none" /\ requests < MaxRequests
    /\ request' = [request EXCEPT ![c] = "sent"] /\ requests' = requests + 1
    /\ UNCHANGED <<modeVars, poolVars, appVars, lifeVars, selVars, place, home, late>>

-----------------------------------------------------------------------------
\* The threads come up.  An acceptor's listen socket is bound before, the others
\* by start_http_server in the thread; either may fail.
Fails == cancelled' = TRUE /\ UNCHANGED <<started, shutting, stopped>>

Bind ==
    /\ topology = "acceptor" /\ listening = {} /\ ~cancelled /\ LoopFree
    /\ thread[Acceptor] = "new"
    /\ listening' = {Acceptor}
    /\ UNCHANGED <<modeVars, poolVars, appVars, lifeVars, thread, batch, down, next,
                   connVars>>

BindFails ==
    /\ topology = "acceptor" /\ listening = {} /\ ~cancelled /\ LoopFree
    /\ thread[Acceptor] = "new"
    /\ Fails
    /\ UNCHANGED <<modeVars, poolVars, appVars, selVars, connVars>>

Open(t) ==
    /\ thread[t] = "new" /\ t \in Used /\ LoopFree
    /\ topology = "acceptor" => listening # {}
    /\ thread' = [thread EXCEPT ![t] = "batch"]
    /\ listening' = listening \cup (IF t \in Listeners THEN {t} ELSE {})
    /\ started' = (started \/ topology = "single")
    /\ UNCHANGED <<modeVars, poolVars, appVars, shutting, stopped, cancelled, batch,
                   down, next, connVars>>

OpenFails(t) ==
    /\ thread[t] = "new" /\ t \in Used /\ topology # "acceptor" /\ LoopFree
    /\ thread' = [thread EXCEPT ![t] = "done"]
    /\ Fails
    /\ UNCHANGED <<modeVars, poolVars, appVars, batch, down, listening, next, connVars>>

\* to_thread.run_sync looks for a cancellation before it starts the thread.
NeverRuns(t) ==
    /\ thread[t] = "new" /\ t \in Used /\ cancelled /\ LoopFree
    /\ thread' = [thread EXCEPT ![t] = "never"]
    /\ UNCHANGED <<modeVars, poolVars, appVars, lifeVars, batch, down, listening, next,
                   connVars>>

\* wait_started: every thread has reported.
SetStarted ==
    /\ topology # "single" /\ ~started /\ ~cancelled /\ LoopFree
    /\ \A t \in Used : thread[t] \notin {"new", "never"}
    /\ started' = TRUE
    /\ UNCHANGED <<modeVars, poolVars, appVars, shutting, stopped, cancelled, selVars,
                   connVars>>

-----------------------------------------------------------------------------
\* "while not lt.shutting_down", from_thread.check_cancelled: at the start and when
\* everybody has been called back.
CheckShutdownOnly(t) ==     \* mutant: no check_cancelled
    /\ thread[t] = "batch" /\ batch[t] = {}
    /\ thread' = [thread EXCEPT ![t] = IF shutting THEN "ending" ELSE "turn"]
    /\ UNCHANGED <<modeVars, poolVars, appVars, lifeVars, batch, down, listening, next,
                   connVars>>

Check(t) ==
    /\ thread[t] = "batch" /\ batch[t] = {}
    /\ thread' = [thread EXCEPT ![t] = IF shutting \/ cancelled THEN "ending" ELSE "turn"]
    /\ UNCHANGED <<modeVars, poolVars, appVars, lifeVars, batch, down, listening, next,
                   connVars>>

\* Selector.run: drain the op queue, then select.  Of those who connect, one is
\* accepted in a turn.
Select(t) ==
    /\ thread[t] = "turn"
    /\ Moved(At(t, {"queued"}), "map")
    /\ \E accepted \in SUBSET At(t, {"backlog"}) :
          /\ Cardinality(accepted) = (IF At(t, {"backlog"}) = {} THEN 0 ELSE 1)
          /\ batch' = [batch EXCEPT ![t] =
                accepted \cup {c \in At(t, {"queued", "map"}) : request[c] = "sent"}]
    /\ thread' = [thread EXCEPT ![t] = "batch"]
    /\ UNCHANGED <<modeVars, poolVars, appVars, lifeVars, down, listening, next, home,
                   request, requests, late>>

\* The wake-up pipe is among the ready ones: its callback drains the queue again.
DrainWakeup(t) ==
    /\ thread[t] = "batch" /\ At(t, {"queued"}) # {}
    /\ Moved(At(t, {"queued"}), "map")
    /\ UNCHANGED <<modeVars, poolVars, appVars, lifeVars, selVars, home, request,
                   requests, late>>

Called(t, c) ==
    thread[t] = "batch" /\ c \in batch[t] /\ batch' = [batch EXCEPT ![t] = @ \ {c}]

\* _AcceptListener and TrackHere.
AcceptHere(t, c) ==
    /\ Called(t, c) /\ place[c] = "backlog" /\ topology # "acceptor"
    /\ Moved({c}, "map")
    /\ UNCHANGED <<modeVars, poolVars, appVars, lifeVars, thread, down, listening, next,
                   home, request, requests, late>>

\* RoundRobinAcceptor, and post_track's look at the selector it chose.
AcceptRoundRobin(t, c) ==
    /\ Called(t, c) /\ place[c] = "backlog" /\ topology = "acceptor"
    /\ LET target == next + 1 IN
       /\ home' = [home EXCEPT ![c] = target]
       /\ IF down[target]
            THEN Moved({c}, "closed") /\ UNCHANGED thread
            ELSE Moved({c}, "posting") /\ thread' = [thread EXCEPT ![t] = "post"]
    /\ next' = (next + 1) % Selectors
    /\ UNCHANGED <<modeVars, poolVars, appVars, lifeVars, down, listening, request,
                   requests, late>>

\* The append of an _OpTrack to a queue that may have been drained for the last time.
Appended(c) ==
    late' = IF thread[home[c]] = "done" THEN late \cup {c} ELSE late

PostTrack(t, c) ==
    /\ thread[t] = "post" /\ place[c] = "posting"
    /\ Moved({c}, "queued") /\ Appended(c)
    /\ thread' = [thread EXCEPT ![t] = "batch"]
    /\ UNCHANGED <<modeVars, poolVars, appVars, lifeVars, batch, down, listening, next,
                   home, request, requests>>

\* The connection's callback, for a handler that runs on the selector.
Handle(t, c) ==
    /\ Called(t, c) /\ place[c] = "map" /\ executor = "none"
    /\ request' = [request EXCEPT ![c] = "none"]
    /\ UNCHANGED <<modeVars, poolVars, appVars, lifeVars, thread, down, listening, next,
                   place, home, requests, late>>

\* _Pool.dispatch: stop_tracking, then create_task's look at the group.
Dispatch(t, c) ==
    /\ Called(t, c) /\ place[c] = "map" /\ executor # "none" /\ group = "open"
    /\ Moved({c}, "held") /\ giving' = giving \cup {c}
    /\ thread' = [thread EXCEPT ![t] = "submit"]
    /\ UNCHANGED <<modeVars, appVars, lifeVars, poolClosed, hosted, looping, idle, down,
                   listening, next, home, request, requests, late>>

\* start_soon raises: h11 answers 500 and tracks the connection again; httptools
\* dispatches out of the reach of its handler's "except".
StartRefused(c) ==
    IF Backend = "h11"
      THEN request' = [request EXCEPT ![c] = "none"] /\ Moved({c}, "map")
      ELSE Moved({c}, "forgotten") /\ UNCHANGED request

DispatchRefused(t, c) ==
    /\ Called(t, c) /\ place[c] = "map" /\ executor # "none" /\ group = "closed"
    /\ StartRefused(c)
    /\ UNCHANGED <<modeVars, poolVars, appVars, lifeVars, thread, down, listening, next,
                   home, requests, late>>

\* submit, under the condition: with no worker idle it keeps the condition while the
\* portal calls the loop.
Submit(t, c) ==
    /\ thread[t] = "submit" /\ place[c] = "held" /\ home[c] = t
    /\ executor = "own" => CondFree /\ ~poolClosed
    /\ Moved({c}, "waiting")
    /\ thread' = [thread EXCEPT ![t] =
                     IF executor = "own" /\ idle = 0 THEN "spawning" ELSE "filing"]
    /\ UNCHANGED <<modeVars, poolVars, appVars, lifeVars, batch, down, listening, next,
                   home, request, requests, late>>

SubmitRefused(t, c) ==
    /\ thread[t] = "submit" /\ place[c] = "held" /\ home[c] = t
    /\ executor = "own" /\ CondFree /\ poolClosed
    /\ StartRefused(c) /\ giving' = giving \ {c}
    /\ thread' = [thread EXCEPT ![t] = "batch"]
    /\ UNCHANGED <<modeVars, appVars, lifeVars, poolClosed, hosted, looping, idle, batch,
                   down, listening, next, home, requests, late>>

\* The loop runs start_soon(host_task) for it; submit counts, notifies and returns.
LoopSpawns(t) ==
    /\ thread[t] = "spawning" /\ LoopFree
    /\ hosted' = hosted + 1
    /\ thread' = [thread EXCEPT ![t] = "filing"]
    /\ UNCHANGED <<modeVars, appVars, lifeVars, giving, poolClosed, looping, idle, batch,
                   down, listening, next, connVars>>

\* create_task appends the future to the tasks of the group.
AppendTask(t) ==
    /\ thread[t] = "filing"
    /\ giving' = {c \in giving : home[c] # t}
    /\ thread' = [thread EXCEPT ![t] = "batch"]
    /\ UNCHANGED <<modeVars, appVars, lifeVars, poolClosed, hosted, looping, idle, batch,
                   down, listening, next, connVars>>

-----------------------------------------------------------------------------
\* host_task: to_thread.run_sync looks for a cancellation before it starts the thread.
HostRuns ==
    /\ hosted > 0 /\ LoopFree
    /\ hosted' = hosted - 1
    /\ looping' = looping + (IF appCancelled THEN 0 ELSE 1)
    /\ UNCHANGED <<modeVars, appVars, lifeVars, selVars, connVars, giving, poolClosed, idle>>

\* _run_worker: to sleep in the condition, or away from a pool that is closed and empty.
WorkerLoops ==
    /\ looping > 0 /\ CondFree
    /\ looping' = looping - 1
    /\ idle' = idle + (IF poolClosed /\ Waiting = {} THEN 0 ELSE 1)
    /\ UNCHANGED <<modeVars, appVars, lifeVars, selVars, connVars, giving, poolClosed, hosted>>

WorkerLeaves ==
    /\ idle > 0 /\ CondFree /\ poolClosed /\ Waiting = {}
    /\ idle' = idle - 1
    /\ UNCHANGED <<modeVars, appVars, lifeVars, selVars, connVars, giving, poolClosed,
                   hosted, looping>>

WorkerTakes(c) ==
    /\ place[c] = "waiting"
    /\ IF executor = "own"
         THEN idle > 0 /\ CondFree /\ idle' = idle - 1
         ELSE UNCHANGED idle
    /\ Moved({c}, "lent")
    /\ UNCHANGED <<modeVars, appVars, lifeVars, selVars, giving, poolClosed, hosted, looping,
                   home, request, requests, late>>

\* The end of a task: its worker looks for another.
TaskOver ==
    /\ looping' = looping + (IF executor = "own" THEN 1 ELSE 0)
    /\ UNCHANGED <<giving, poolClosed, hosted, idle>>

\* A worker answers; track looks at the selector before it appends.
HandlerReturns(c) ==
    /\ place[c] = "lent"
    /\ request' = [request EXCEPT ![c] = "none"]
    /\ IF down[home[c]]
         THEN Moved({c}, "closed") /\ TaskOver
         ELSE Moved({c}, "returning") /\ UNCHANGED poolVars
    /\ UNCHANGED <<modeVars, appVars, lifeVars, selVars, home, requests, late>>

\* thread_pool_handler's shutdown event, which every token of a request sees.
Signalled == app \notin {"starting", "serving"}

HandlerCancelled(c) ==
    /\ place[c] = "lent" /\ Signalled
    /\ Moved({c}, "closed") /\ TaskOver
    /\ UNCHANGED <<modeVars, appVars, lifeVars, selVars, home, request, requests, late>>

\* The append, and the end of _run_request: a signalled token closes.
GiveBack(c) ==
    /\ place[c] = "returning"
    /\ IF Signalled THEN Moved({c}, "closed") /\ UNCHANGED late
                    ELSE Moved({c}, "queued") /\ Appended(c)
    /\ TaskOver
    /\ UNCHANGED <<modeVars, appVars, lifeVars, selVars, home, request, requests>>

-----------------------------------------------------------------------------
\* Selector.shutdown: the flag, the residual ops, the registered connections.
SetShuttingDown(t) ==
    /\ thread[t] = "ending"
    /\ down' = [down EXCEPT ![t] = TRUE]
    /\ thread' = [thread EXCEPT ![t] = "flagged"]
    /\ UNCHANGED <<modeVars, poolVars, appVars, lifeVars, batch, listening, next,
                   connVars>>

\* What is appended between the drain and the walk is missed by both, as it is after
\* them.  The listen socket goes with its thread, an acceptor's with the whole service.
Walk(t, places) ==
    /\ thread[t] = "flagged"
    /\ Moved(At(t, IF topology = "acceptor" THEN places ELSE places \cup {"backlog"}), "closed")
    /\ listening' = IF topology = "acceptor" THEN listening ELSE listening \ {t}
    /\ thread' = [thread EXCEPT ![t] = "done"]
    /\ UNCHANGED <<modeVars, poolVars, appVars, lifeVars, batch, down, next, home,
                   request, requests, late>>

WalkOnly(t) == Walk(t, {"map"})     \* mutant: the ops are left in the queue

CloseRegistered(t) == Walk(t, {"map", "queued"})

\* The task group of http_server is left, or was never entered.
ServerStops ==
    /\ ~stopped /\ LoopFree
    /\ \/ \A t \in Used : thread[t] \in {"done", "never"}
       \/ topology = "acceptor" /\ cancelled /\ listening = {}
    /\ stopped' = TRUE /\ listening' = {}
    /\ Moved({c \in Conns : place[c] = "backlog"}, "closed")
    /\ UNCHANGED <<modeVars, poolVars, appVars, started, shutting, cancelled, thread,
                   batch, down, next, home, request, requests, late>>

-----------------------------------------------------------------------------
\* The application's service: entered when the server has started, or has ended.
AppStarts ==
    /\ app = "starting" /\ (started \/ stopped)
    /\ app' = "serving"
    /\ UNCHANGED <<modeVars, poolVars, appShut, appCancelled, group, lifeVars, selVars,
                   connVars>>

\* Asked for by anybody, or by bind_parent_to once the server has stopped.  After the
\* body has left its wait nobody looks at it.
AppShutdown ==
    /\ ~appShut /\ app \in {"starting", "serving"}
    /\ appShut' = TRUE
    /\ UNCHANGED <<modeVars, poolVars, app, appCancelled, group, lifeVars, selVars,
                   connVars>>

BindParent == stopped /\ AppShutdown

\* "async with http_server" is left: the server is told and not waited for; and
\* thread_pool_handler signals the requests and waits for its group.
AppLeaves ==
    /\ app = "serving" /\ appShut
    /\ app' = IF executor = "none" THEN "left" ELSE "draining"
    /\ shutting' = (shutting \/ ~stopped)
    /\ cancelled' = (cancelled \/ executor = "none")
    /\ UNCHANGED <<modeVars, poolVars, appShut, appCancelled, group, started, stopped,
                   selVars, connVars>>

\* TaskGroup.__exit__: none of its tasks is pending, and, later, nobody can start
\* another.  A dispatch that has looked before may still append one.
GroupDrained ==
    /\ app = "draining" /\ (Waiting \cup Lent) \ giving = {}
    /\ app' = "drained"
    /\ UNCHANGED <<modeVars, poolVars, appShut, appCancelled, group, lifeVars, selVars,
                   connVars>>

GroupCloses ==
    /\ app = "drained"
    /\ app' = "unwinding" /\ group' = "closed"
    /\ UNCHANGED <<modeVars, poolVars, appShut, appCancelled, lifeVars, selVars, connVars>>

\* AsyncWorkerExecutor.__aexit__ is entered; then _run cancels whatever is left in
\* the task group of the service.
ExecutorExits ==
    /\ app = "unwinding"
    /\ IF executor = "own"
         THEN app' = "closing" /\ UNCHANGED cancelled
         ELSE app' = "left" /\ cancelled' = TRUE
    /\ UNCHANGED <<modeVars, poolVars, appShut, appCancelled, group, started, shutting,
                   stopped, selVars, connVars>>

\* _mark_closed, on the loop: once it has the condition the loop is free again.
MarkClosed ==
    /\ app = "closing" /\ CondFree
    /\ app' = "executor" /\ poolClosed' = TRUE
    /\ UNCHANGED <<modeVars, appShut, appCancelled, group, giving, hosted, looping, idle,
                   lifeVars, selVars, connVars>>

\* Every host task is over: it never ran, or its worker has left.
ExecutorLeft ==
    /\ app = "executor" /\ Lent = {}
    /\ hosted = 0 /\ looping = 0 /\ idle = 0
    /\ app' = "left" /\ cancelled' = TRUE
    /\ UNCHANGED <<modeVars, poolVars, appShut, appCancelled, group, started, shutting,
                   stopped, selVars, connVars>>

\* stop(): the awaits of the body end at once, that for the group too (which then is
\* not closed) unless its thread is already waiting.
AppStop ==
    /\ app \notin {"left", "stopped"} /\ LoopFree
    /\ cancelled' = TRUE /\ appCancelled' = TRUE
    /\ app' = IF app \in {"starting", "serving"}
                THEN IF executor = "own" THEN "unwinding" ELSE "left"
                ELSE app
    /\ UNCHANGED <<modeVars, poolVars, appShut, group, started, shutting, stopped, selVars,
                   connVars>>

AppStops ==
    /\ app = "left" /\ stopped
    /\ app' = "stopped"
    /\ UNCHANGED <<modeVars, poolVars, appShut, appCancelled, group, lifeVars, selVars,
                   connVars>>

-----------------------------------------------------------------------------
ThreadStep(t) ==
    \/ Open(t) \/ NeverRuns(t) \/ Check(t) \/ Select(t) \/ DrainWakeup(t)
    \/ SetShuttingDown(t)  \/ CloseRegistered(t)
    \/ LoopSpawns(t) \/ AppendTask(t)
    \/ \E c \in Conns :
          \/ AcceptHere(t, c) \/ AcceptRoundRobin(t, c) \/ PostTrack(t, c)
          \/ Handle(t, c) \/ Dispatch(t, c) \/ DispatchRefused(t, c)
          \/ Submit(t, c) \/ SubmitRefused(t, c)

WorkerStep(c) ==
    WorkerTakes(c) \/ HandlerReturns(c) \/ HandlerCancelled(c) \/ GiveBack(c)

PoolStep == HostRuns \/ WorkerLoops \/ WorkerLeaves

ServerStep == Bind \/ SetStarted \/ ServerStops

AppStep ==
    \/ AppStarts \/ BindParent \/ AppLeaves \/ GroupDrained \/ GroupCloses
    \/ ExecutorExits \/ MarkClosed \/ ExecutorLeft \/ AppStops

Next ==
    \/ \E t \in Threads : ThreadStep(t) \/ OpenFails(t)
    \/ \E c \in Conns : WorkerStep(c) \/ Connects(c) \/ Sends(c)
    \/ PoolStep \/ ServerStep \/ BindFails \/ AppStep \/ AppShutdown \/ AppStop

Spec == Init /\ [][Next]_vars

\* Threads run, handlers return, the loop resumes whoever can go on.  Of everything
\* but the turns of selectors there is a finite number: none keeps another waiting.
FairSpec ==
    /\ Spec
    /\ \A t \in Threads : WF_vars(ThreadStep(t))
    /\ WF_vars(PoolStep \/ ServerStep \/ AppStep \/ \E c \in Conns : WorkerStep(c))

-----------------------------------------------------------------------------
\* Handed over after the selector's last look at its queue, or to one that never
\* ran: nobody will close it (post_track, track).
Stray(c) == place[c] = "queued" /\ (c \in late \/ thread[home[c]] = "never")

\* When the server has stopped it has closed every connection, wherever it was on
\* its way between acceptor, queue and map, but strays and those the executor has
\* (Selector.shutdown, _run_acceptor).  When the application has left an executor of
\* its own, no handler runs on it any more, and unless stop() was called nothing is
\* left in its queue (AsyncWorkerExecutor.__aexit__).
LeavesNothing ==
    /\ stopped => \A c \in Conns :
          place[c] \in {"new", "closed", "waiting", "lent", "returning"} \/ Stray(c)
    /\ app \in {"left", "stopped"} /\ executor = "own" =>
          Lent = {} /\ (Waiting = {} \/ appCancelled)

\* A server that has started, and has not been told to end, has every selector
\* running and every listen socket open (run_single, wait_started).
StartedMeansListening ==
    started /\ ~shutting /\ ~cancelled =>
        /\ \A t \in Used : thread[t] \notin
              {"new", "never", "ending", "flagged", "done"}
        /\ listening = Listeners

ServiceSafe == LeavesNothing /\ StartedMeansListening

\* A submit keeps the condition until the loop has run start_soon, and the loop waits
\* for the condition in _mark_closed: the deadlock of module AsyncPool.
Deadlocked == app = "closing" /\ ~CondFree

\* In the queue of a pool whose host tasks stop() has cancelled before they ran.
Stranded(c) ==
    /\ place[c] = "waiting" /\ executor = "own" /\ appCancelled
    /\ CondFree /\ Lent = {} /\ hosted = 0 /\ looping = 0 /\ idle = 0

\* thread_pool_handler waits for a request that nobody will run.
DrainHangs == app = "draining" /\ \E c \in Conns \ giving : Stranded(c)

\* A shutdown, a stop, or a listen socket that cannot be bound ends the whole
\* application, whichever topology it has and whatever its handlers are at, unless
\* its own executor keeps it from ending in one of these two ways.
ServiceEnds ==
    appShut \/ cancelled ~> app = "stopped" \/ Deadlocked \/ DrainHangs

\* What was sent is answered or its connection closed, on either side of a shutdown,
\* with the same exceptions.
RequestsSettle ==
    \A c \in Conns :
        request[c] = "sent" ~> \/ request[c] = "none" \/ place[c] = "closed"
                               \/ Stray(c) \/ Stranded(c) \/ Deadlocked

\* Nothing is waited for in vain, while serving or while coming to the end.
ServiceSettles == ServiceEnds /\ RequestsSettle

\* thread_pool_handler "signals in-flight handlers via the cancel event and waits for
\* the internal task group to drain. The drain is offloaded to a thread so the
\* surrounding event loop stays responsive." (src/localpost/http/_pool.py:137-139): the
\* loop does not block, and the drain comes to an end.
NeverHangs == ~Deadlocked /\ ~DrainHangs

\* "A connection is either TRACKED (registered in the selector ...) or BORROWED (a
\* worker thread holds the parser + socket ...)" (docs/design/connection-model.md):
\* a dispatch that was refused leaves no connection to nobody.
NoneForgotten == \A c \in Conns : place[c] # "forgotten"
=============================================================================
