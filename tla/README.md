# A TLA+ verification of localpost

localpost is a Python library for small server applications: hosted services
with a common lifetime, an HTTP server on selector threads with an optional
worker pool, bridges to and from WSGI, ASGI and RSGI, a router with static
files, compression and an OpenAPI layer, thread-to-thread channels, a
spawn-on-demand executor with task groups, a scheduler and a small
dependency-injection container. This directory holds TLA+ models of these
parts, the TLC configurations that check them on small instances, and TLAPS
proofs for every value of the constants.

Contents: [inventory](#inventory), [modules](#modules-and-the-code),
[runs](#runs), [bounds](#bounds), [fairness](#fairness), [proofs](#proofs),
[disagreements](#where-code-and-words-differ), [plan](#plan),
[what is left out](#not-modelled).

`PROJECT.json` holds the same in a form tools can read: components, runs, for
each property a mutation of the code that breaks it, the lines every definition
stands for, hazards and theorems.

## Inventory

| Part | State | Operations | What is hard | What makes it correct |
|---|---|---|---|---|
| Channel, `threadtools/_channel.py` | buffer, open-handle counts, waiting receivers, pending handoffs, items consumed, two conditions, `_closed` of each handle | put, put_nowait, get, get_nowait, clone, close | single `notify()` among sleepers that may time out or be closed; two phases of a rendezvous put sleeping on one condition | a FIFO, exactly once; no lost wake-up; a rendezvous put returns when its own item was taken; every blocked call can be ended |
| Worker pools, `threadtools/_executor.py`, `_portal.py` | queue, idle count, worker count, opened, closed, futures; for the async pool the loop and its cancel scope | submit, stop, `__enter__`, `__exit__`, worker loop, `Task.run`, `_spawn_worker` | submissions racing with the close; a cancellation between pop and start; spawn or notify on a count; a lock held across a call into the loop | every accepted task settles once; `__exit__` returns and leaves nothing behind |
| Task group, `threadtools/_task_group.py` | futures, closed | create_task, `_on_done`, `__exit__` | create_task lets go of the lock between check and append; tasks start tasks while the owner waits | the block waits for all tasks and reports every failure |
| HTTP connections, `http/_base.py`, `server_h11.py`, `_pool.py` | selector map, op queue, wake-up pipe, `tracked`, `close_at`, the h11 parser of each connection, workers | accept, `_loop`, track, stop_tracking, close, stale sweep, dispatch, respond, give back, shutdown | a connection moves between the selector thread and workers without a lock; fd numbers are reused; timeouts | one owner at a time; no connection forgotten; requests answered; 408 only to stalled clients; shutdown closes everything |
| httptools backend, `http/server_httptools.py` | parser callbacks, body buffer, deferred dispatch, close-after | feed and its callbacks, dispatch, receive, continue, reset | callbacks inside a feed, the handler among them; bodies refused, too large or never sent | answers belong to their requests, bodies to their handlers |
| HTTP service, `http/_service.py`, `_pool.py`, `app.py` | selector threads, acceptor, listen sockets, pool, the group of `thread_pool_handler` | start, bind, accept, post_track, serve, drain, shutdown, stop | start and end of selectors, acceptor, pool and executor in any order, with connections anywhere between them | nothing that was accepted is left behind; started means listening; the end comes |
| Bridges, `http/asgi.py`, `rsgi.py`, `wsgi.py`, `_body.py` | pump, watcher, stream of size zero, leftover, captured response | receive, aread_body, complete, stream, sendfile; start_response, the iterator | two or three tasks per request; generators that start late, twice, or fail late | bodies whole and in order; a started response ended once; no chunk lost |
| Router, static, compress, `http/router.py`, `static.py`, `compress.py` | routes; a file on disk; an encoder | register, dispatch, resolve, conditional and range requests, negotiation | any order of registration; a file that changes between stat and open; an encoder that keeps bytes back | headers are true of the bytes that follow; events reach the peer |
| OpenAPI, `openapi/` | operations, middlewares, document | registration, argument resolvers, response shapes, document | what is documented and what is done are derived separately | an operation does what its document says |
| Hosting, `hosting/_host.py`, `middleware.py` | started, shutting_down, stopped, exception, task group and exit stack of each service | start, set_started, shutdown, stop, `_run`, `_run_many`, `_serve_in`, start_timeout, shutdown_on_signal | cancellation, crash and shutdown of parents and children in any order | resources outlive the tasks; siblings survive each other; shutdown reaches everyone; stop stops |
| Hosting inside Granian, `hosting/rsgi.py` | lifecycle task, `_ready`, `_shutdown_signal` | `__rsgi_init__`, `__rsgi_del__`, `__rsgi__`, `_compose_started` | requests and the end while services start | no half-started host; the gate opens |
| Scheduler, `scheduler/` | users and subscribers of each task, triggers | publish, subscribe, use, trigger, take_first, delay, shutdown | subscribers leave while a result is published; tasks follow tasks | every result once; followers end with what they follow |
| DI, `di/_services.py`, `flask.py` | services, lock and exit stack per scope | scope, resolve, create, close | double-checked creation; nested locks of two scopes | one instance per scope, closed after those that use it |
| Observability, schemas, third-party wrappers | none that another part depends on | | | |

Interactions. A `TaskGroup` calls `submit` of a pool and hangs `_on_done` on its
futures, so that callbacks run on workers. The selector thread hands a request
to the HTTP pool, the worker answers on the socket itself and gives the
connection back through the op queue and the wake-up pipe. The hosted server
runs several such selectors, an acceptor that deals connections out to them,
and the pool, as services one inside the other. Requests reach a handler through
a native backend or a bridge, then through compression, middlewares and the
router. Hosted services start child services in their own task group and talk
through events; other threads enter the event loop through `Portal` as one
callback.

The hazards, each at its line and with the properties that guard it, are in
`PROJECT.json`.

## Modules and the code

| Module | Models | Atomic step |
|---|---|---|
| `Channel` | `_channel.py`, whole | one `with state:` block; `Condition.wait` ends a step, the wake-up begins another |
| `Fifo` | what a channel promises; abstract, no code | |
| `WorkerPool` | `_WorkerPoolBase`, `Task`, `WorkerExecutor` | one `with self._cond` block; a task body is the interval from `TaskStart` to `TaskEnd` |
| `TaskGroup` (extends `WorkerPool`) | `_task_group.py` on the pool | one lock block, or one call into the executor |
| `AsyncPool` (extends `WorkerPool`) | `AsyncWorkerExecutor`, `Portal.run_sync` | as the pool, but a submit off the loop is cut where it waits for the loop |
| `HttpSelector` | `Selector`, `HTTPConn` and its request context (h11), `_pool.py` | one turn of `_loop`, one callback, and each single write a worker and the selector can see of each other (`tracked`, the op queue, the pipe, the socket) |
| `HttpTools` | one connection of `server_httptools.py`, with its worker | one feed (a fold over the tokens of one recv), one read of the worker |
| `HttpService` | `_service.py`, the acceptor and `post_track` of `_base.py`, `thread_pool_handler`, `HttpApp.service`, and `AsyncWorkerExecutor` as its executor | one turn of a selector thread up to what others can see, one lock block of `create_task` and `submit`, one call into the loop, one await of a service |
| `AsyncBridge` | one request in `asgi.py` or `rsgi.py`, with `aread_body` | the code between two awaits |
| `WsgiBridge` | one request in `wsgi.py`, in either direction, with `read_body` | one call across the border |
| `HostRsgi` | `hosting/rsgi.py` over leaf services | the code between two awaits |
| `FrontEnds` (extends these three and `HttpTools`) | the ways a request comes in; a request on the RSGI bridge has to pass the gate of the host | |
| `Router`, `Compress`, `StaticFiles`, `OpenApi` | `router.py`, `compress.py`, `static.py`, the operations of `openapi/`: operators only | |
| `HttpApp` (extends these four) | registration, a compiled router, and one keep-alive client, over `app.py`, the openapi applications and the contexts of the backends | registration, dispatch, stat, open and send, each event of a stream |
| `Hosting` | `_host.py`, `middleware.py`, `run_app` | the code between two awaits on the event loop |
| `Scheduler` | `_scheduler.py`, `_trigger.py`, `_cond.py`, `cond/cron.py` | the code between two awaits |
| `Services` | `di/_services.py`, the request scope of `di/flask.py` | one look at shared state, one acquisition, one call of a factory |
| `MC*` | constants for TLC; `MCPools` lets one behaviour use the pool either alone or through a group | |
| `ChannelProofs`, `PoolProofs` (pool and group), `HttpSelectorProofs`, `HttpServiceProofs` (the service and the application it serves), `FrontEndsProofs` (host, WSGI, async bridges, httptools), `HostingProofs`, `ServicesProofs`, `SchedulerProofs` | theorems | |

Notes on the correspondence.

*Channel.* Variables keep the names of `ChannelState`. `not_empty` and
`not_full` are the sets of sleepers of the conditions; `notify()` wakes any one
of them, `wait(timeout)` may end by itself once the deadline has passed. `pc`
is where a call stands: `phase1`/`wait1` is a put that waits for room,
`phase2`/`wait2` a rendezvous put that waits for its item to be taken. `sent`
and `delivered` are history variables. A thread uses one handle; closing it from
another thread is `CloseSend`/`CloseRecv` at any time. The mapping to `Fifo`
takes a side for present as long as one of its handles is open.

*WorkerPool.* `sleeping` is the wait set of `_cond`. The pool spawns threads
without limit; the constant `Workers` is as large as `Tasks`, so the limit is
never met. A future may be cancelled by whoever holds it while it is pending.

*TaskGroup.* The constant `Creator` says who starts each task: the owner inside
the block, another task, or a thread outside.

*AsyncPool.* `submitter` is the caller that holds `_cond` while the loop starts
a host task for it; `loopCall` is what code on the loop is calling. A host task
that is cancelled before its thread has started never starts it.

*HttpSelector.* A request is two chunks, so that a connection can be stalled in
the middle of one. `keys` is the selector's map, `watched` what the kernel
watches; they differ after a socket is closed while registered, because the
kernel forgets a closed fd and the map does not. Fewer `Fds` than `Conns` makes
the kernel reuse numbers. `close_at` is the kind of deadline, `overdue` whether
it has passed. A worker's handler may return, raise or be cancelled before or
after it has answered.

*HttpTools.* A request is a head and units of a body, in a record that says how
long the body is, whether the head declares it, whether it expects 100 Continue
and which kind of handler answers. `conn` has the fields of `HTTPConn` and of its
context. How a connection travels through the op queue is `HttpSelector`'s; here
one that is given back is the selector's at once.

*HttpService.* `place` says where a connection is: in the kernel's `backlog`,
in the acceptor's hands (`posting`), in a selector's queue or map, with a worker
(`lent`) or on its way back (`returning`). `app` is how far the body of the
application's service has come, whose `async with` blocks end from the inside
out: the server is told to shut down, `thread_pool_handler` drains its group,
and an executor of its own is left last. As `_serve_in` does not wait for its
child (see below), the group may close while selectors still run. `late` records
what was appended to a queue after its last drain.

A request that is handed to a pool goes through the steps of `create_task` and
`submit`: `Dispatch` (stop_tracking, the look at the group), `Submit` (under the
condition, into the executor's queue), `LoopSpawns` (the portal call that starts a
host task on the loop; the stage `spawning` is a submit that waits for it and
holds the condition) and `AppendTask` (the future joins the group, which may have
stopped looking; `giving` are those it does not know yet). `HostRuns` starts the
worker's thread, or does not if `stop()` came first. The application leaves the
executor in two steps: `ExecutorExits`, after which the loop runs nothing
(`LoopFree`) until `MarkClosed` has the condition, and `ExecutorLeft`, which waits
for the host tasks and not for the queue. The queue is a set and `notify` wakes
any sleeper: the order of tasks, and which worker is woken, are `WorkerPool`'s. A
shared executor is one whose owner keeps it open while the application runs and
whose `submit` does not need the loop (`WorkerExecutor`).

*AsyncBridge.* The pump's stream has size zero, so `PumpReceive` leaves the
pump in `sending` until the handler reads. `flag` is `_disconnected`. Under
RSGI the watcher is a task of its own.

*WsgiBridge.* `committed` is the call of `start_response` whose head was handed
on. Under `to_wsgi` the handler only captures a response, which is served after
it has returned.

*HttpApp.* Paths are sequences of segments; contents of files, headers and
bodies are their sizes, versions and codings. A file's time counts half
seconds, because an HTTP date counts seconds. The client keeps what it was last
sent and uses it in conditional requests. `Entries` are the registrations in
effect; the router is compiled from them as `RouterBuilder` does, and
`DispatchFollowsRegistration` compares it with a definition that knows only the
registrations.

*OpenApi.* A parameter is a name, where its annotation puts it, its type and
whether it has a default. What Python's introspection returns for a signature is
an input; which resolver an argument gets, what the operation answers and what
the document says of it are derived as the code derives them.

*Hosting.* `Kind` says which body a service runs: `_run_many`, a
context-manager service around one child (`_service_cm` with `_serve_in`), or a
leaf written by the user. A leaf may set itself started, return or raise at any
time. Leaves in `Sync` run in a thread, which cancellation does not reach.
Leaves in `Rude` may also ignore the shutdown; this choice (`polite`) only
affects fairness. `_serve_in` cancels the scope its last `await` runs in, so
that `await child_lt.stopped` (line 477) does not wait, and it is the parent's
task group that waits for the child; the model has it so.

*Scheduler.* Several scheduled tasks may run one `Task` (`users`). `inbox` is
the buffer of a follower's stream; `results` and `seen` are history. Durations
are left out: a sleep ends at any time.

*Services.* Each thread has the stack of calls it is in, as `resolve` calls
itself for dependencies. Locks are reentrant and counted.

## Runs

| Run | Instance | Distinct states | Checks |
|---|---|---|---|
| `channel_bounded` | 2 senders and 2 receivers on own handles, one receiver with timeouts, capacity 1, 3 items | 265,185 | `WaitersLearn`, `NobodyStarvesWhenReady`, `ImplementsFifo` |
| `channel_rendezvous` | the same with capacity 0, 2 items, receivers sharing a handle, one of each side with timeouts | 183,330 | `TypeOK`, `ExactlyOnceInOrder`, `HandoffExact`, `BlockedCallsEnd` |
| `pools` | 3 tasks: submitted freely, or of a group in which the owner starts t1, t1 starts t2 and t2 starts t3 | 400,690 | `PoolSafe`, `GroupSafe`, `PoolSettles`, `GroupExitReturns` |
| `http_pool` | 1 connection, 2 requests, 2 workers, 1 sweep | 547,857 | `ConnectionsSafe`, `Only408WhenStalled`, `RequestsAreServed` |
| `http_inline` | 2 connections on 1 fd, 2 requests and half a third on each, handlers on the selector thread | 997,593 | `CycleInStep`, `ShutdownClosesAll` |
| `http_service` | every topology and executor, 2 selectors (and an acceptor), 1 connection, 2 requests, h11 | 465,393 | `ServiceSafe`, `ServiceSettles` |
| `http_app` | 3 registrations out of 10 routes or 11 operations, both flavours, h11, httptools and ASGI contexts, a file of 3 sizes written twice | 1,208,198 | `DispatchFollowsRegistration`, `OperationMatchesItsDocument`, `ResponseDescribesItsBody`, `NotModifiedIsTrue`, `EventsReachThePeer` |
| `front_ends` | an async request of 2 units behind a host of up to 2 services; a WSGI request; 2 requests on an httptools connection | 235,680 | `BodyAndResponse`, `WsgiFaithful`, `NoHalfStartedHost`, `ToolsSafe`, `EveryRequestEnds`, `HostComesAndGoes` |
| `hosting` | run_app with a shell that serves a child (which may be rude), and a sibling in a thread | 339,858 | `TypeOK`, `ResourcesOutliveTasks`, `SiblingsSurvive`, `EndsPropagate`, `StopsComplete` |
| `scheduler` | two timers of one task, a follower for one result, a delayed one to its end, and one that follows that | 69,010 | `EveryResultOnce`, `TasksInStep`, `TasksEnd` |
| `services` | 3 threads, the application's scope and a request's, a chain of dependencies across both | 82,433 | `OncePerScope`, `DependenciesOutlive`, `ResolvesEnd` |

All of these hold. `async_pool` (2 tasks, 2 workers, `LoopNeverDeadlocks`)
expects a violation, of a sentence in the repository (see
[below](#where-code-and-words-differ)).

Several properties are conjunctions whose parts have names of their own and say
one thing each: `ConnectionsSafe` is `OneOwner`, `NoOrphan` and `NoLostWakeup`;
`PoolSafe` is `IdleExact`, `QueueIsServed`, `OneHolderPerTask` and
`ExitMeansDrained`; `GroupSafe` is `ExitWaitsForAll`, `FailuresSurface` and
`NobodyCreatesAfterClose`; `WaitersLearn`, `HandoffExact`, `BodyAndResponse`,
`WsgiFaithful`, `ToolsSafe`, `ServiceSafe`, `ServiceSettles`, `TasksInStep`,
`EndsPropagate` and `StopsComplete` likewise.

What they show, beyond the names:

- In the channel a single `notify()` suffices for bounded channels, because a
  thread that leaves `wait` looks at the buffer again before it may sleep, so the
  number of awake receivers is never below the number of items (`NoLostItem`).
  Cloning and closing in any order never revives an end that is gone
  (`ImplementsFifo`).
- In the pool, `idle` counts workers that were already notified for another
  task, and still no task is stranded, because a worker goes back to the queue
  before it sleeps (`QueueIsServed`). In the task group, the rounds of `__exit__`
  cover tasks started by tasks, since a parent task is unsettled until its
  `create_task` has appended the child.
- In the server, setting `tracked` before the fd is registered is safe for the
  h11 loop because stop_tracking precedes the dispatch (`OneOwner`), and the order
  of append and wake-up write is what `NoLostWakeup` needs.
- Whatever order the parts of the hosted server end in, all connections are
  closed but those appended to a selector's queue after its last drain, or to a
  selector whose thread was cancelled before it ran (`Stray`), and those the
  executor has. A shutdown or a stop ends the application and every request, but
  for two hangs that an executor of its own brings with it: a submit holds the
  condition that the loop waits for (`Deadlocked`), or a request is left in the
  queue by a stop that cancelled the host task for it (`Stranded`), and a drain
  that has begun waits for it (`DrainHangs`). Both are defects of the code
  (see [below](#where-code-and-words-differ)) and last for good once they are
  there, so that the exceptions excuse nothing else. `http_service` says so of h11.
  On httptools a request that is dispatched to a closed group is forgotten.
- On httptools, a worker and the selector never use the parser at the same time
  although the dispatch is decided inside a feed, and whatever client, handler,
  sweep and size limit do, the n-th answer is the n-th request's, as long as
  clients do not pipeline (`Pipelining = FALSE`).
- On ASGI a lost peer can be told from the end of the body
  (`LossIsVisible`). On RSGI it cannot be, where the watcher has not run yet;
  the property says so.
- The router's answer follows from the set of registrations and the literal
  prefixes, not from the order of methods inside a template; the asynchronous
  application uses the order of registration instead. Compression and ranges
  never meet: a 206 is not compressed, and what is compressed has a length of its
  own or none.
  A date alone may keep a copy overwritten within the same second
  (`NotModifiedIsTrue` makes this exception and no other).
- In hosting, a shell that waits for its child to start hears of a shutdown
  only after the child has started or stopped; `GracefulShutdown` holds
  nevertheless, as long as the leaf starts or ends.
- In the scheduler, a follower that has the whole stream sees every result
  once and in order until another follower of the same task leaves early
  (`EarlyLeavers`); a shutdown ends every chain of followers.
- In the container the two locks are always taken in the order request,
  application; so no two threads wait for each other, and a service that could not
  be made leaves its dependencies in the stack below whatever comes next.

`CHECK_DEADLOCK FALSE` stands where the system may come to rest: a stopped
pool, an exited group, a server that is down, an application or a request that
has ended. The runs of the channel, `http_app`, `scheduler` and `services` check
deadlock: a receiver may always call get again, a client ask again, and the
modules with an end say where it is.

## Bounds

Two threads per side are what the channel's races need: one to be woken and one
to be overtaken. Capacity 1 with 3 items makes both sides block; a rendezvous
with 2 items has two handoffs in flight. Three tasks give one running, one
queued and one submitted late; a chain of three gives `__exit__` a task that
starts while its parent's creation is being waited for. Two requests on one
connection are what a give-back can go wrong with, two connections on one fd
what reuse can. Five chunks in `http_inline` are two complete requests and half a
third, which one callback may find together: it answers two in a row and stops in
the middle of the next. Two selectors are the fewest that can disagree about being
down; with two connections and two requests `ServiceSafe` was checked too
(3,747,496 states, up to symmetry of the connections), and the proof covers any number. A body of two units can be
split by a chunk, a read and a limit of one. Three registrations out of the
catalogue meet in pairs of templates that overlap, with a method in one and not
in the other. Four services are the smallest tree that has a sibling, a
"serve" parent and a grandchild; four tasks of a scheduler the smallest with a
chain and two followers of one task. Three threads are two in one scope and one
in its parent's.

Named bounds in guards: `MaxItems`, `MaxChunks`, `MaxSweeps`, `MaxRequests`,
`MaxUnits`, `MaxPieces`, `MaxRoutes`, `MaxWrites`, `MaxResults`, `Calls`, `Chunks`;
they only end the input, never a call in progress. `MayFailToStart` in
`FrontEnds.cfg` lets one of two services die before it has started; the other
case is `HostRsgiGate.cfg`'s. `MCHttpSelector!Symmetry` is used only in a run
without liveness properties.

## Fairness

Weak fairness only, and only for what the operating system or the event loop
does by itself: a thread that is not blocked runs, in the end gets the lock,
and goes on with the call it is in; selector threads keep turning; the event
loop resumes every task whose await is over; the cleanup ticker sweeps; sleeps
end. Task bodies and handlers are assumed to return where a property speaks of
waiting for them (`TaskEnd`, `BodyEnd`, `WorkerStep`, `WorkerEnds`, `HandlerStep`).
In `Hosting` only polite leaves are assumed to start and to obey, in `HostRsgi`
every service starts or ends and obeys. No client, no caller and no clock of a
user is obliged to anything: calls, closes, cancellations, deadlines, signals,
registrations and bytes may or may not come.

In `HttpService` each thread has a condition of its own, and the loop, the pool's
workers and the handlers have one together: they take finitely many steps, so
none of them can keep another waiting.

`FrontEndsSpec` and `PoolsSpec` put several parts into one behaviour of which
`way` or `use` chooses one for good. Steps of different ways share a fairness
condition there: in any behaviour all but one of them are never enabled, so it
says the same as a condition for each.

`PoolSettles`, `EndsPropagate` and `StopsComplete` have the form `<>[]P`, where
what P asks for stays true once it is; this is the conjunction of the `~>` a
reader expects, and a fraction of its cost.

## Proofs

Eight modules are checked by TLAPS with the SMT, Zenon and PTL back ends. What
is assumed of the constants is in the modules' `ASSUME`s (disjoint finite sets, a
capacity that is a natural or unbounded; a finite tree with its ancestor sets;
creators that are tasks, the owner or outsiders; at least one selector; marks
that are no connection, descriptor or type; what handlers may return and clients
send), which TLC evaluates in the runs. A theorem that needs more has it as its
hypothesis.

`ChannelProofs`, for any threads, handles, capacity and bound:

- `ChannelTypeOK`: `Spec => []TypeOK`. `TypeOK` is not inductive, because a put
  in its first phase will append `item[s]`, which must be a real item: `TInv` adds
  `CallsOK`, which says so. That `pending_handoffs` stays natural needs the
  guard in `ReleaseClaim`.
- `ChannelExactlyOnce`: `Spec => []ExactlyOnceInOrder`. `OInv` is `sent =
  delivered \o buffer` together with `Fresh` (numbers already sent are at most
  `puts`, and a put that has not yet appended has a number that was never sent)
  and `Distinct`. `StepCases` reduces the actions to five: those that leave
  queue and items alone (`Quiet`), the start of a put, an append by put or by
  put_nowait, and a take. Lemmas on sequences (`AppendToConcat`,
  `TakeKeepsConcat`, ...) do the rest.

- `ChannelCounters`: the counters count what they are named for. `CInv` adds
  `CallsHaveHandles`, since a call that runs on a handle never created could
  close it.
- `ChannelImplementsFifo`: `Spec => Abs!FifoSpec`. With `CInv`, an open side is
  one whose counter is positive, and each action is a step of `Fifo` or a stutter;
  that an item put is a new one comes from `OInv`.
- `ChannelHandoffExact`: `Spec => []HandoffExact`. With capacity 0,
  `items_consumed = Len(delivered)`, and a put in phase 2 has
  `sent[my_target] = item` (`TargetsCount`): so the count reaches its target
  exactly when its own item is taken, items being distinct. `EndsStay` and
  `DeliveredGrows` carry this from the put's last look to its return.
- `ChannelWaitersLearn`: `Spec => []WaitersLearn`: an end of stream is final, items
  do not wait for sleeping receivers only, nor places of a channel with a capacity
  above 0 for sleeping senders only. It does not speak of a rendezvous put that
  waits for a place or for its handoff to be taken: there a wake-up can be lost
  (`_channel.py:311`, `ChannelRendezvousPairsUp.cfg`). The proof compares the set of
  awake calls with the number of items (and of places): `StillEnough` names the
  three ways a step can change both, `ItemStep` and `RoomStep` show that each
  action is one of them, and `SleepersOpen` that who sleeps is in a call on an
  open handle, so that waking it adds to the awake.

`PoolProofs`, `PoolIsSafe`: `PoolSpec => []PoolSafe`. `PInv` strengthens
`PoolSafe` by what a worker's place says of its job and the job's future
(`JobsOK`), that no task is in two places (`Apart`), and that sleepers are
counted as idle (`WaitersOK`): `submit` notifies only when `idle` is positive,
and somebody who is counted is either asleep, and woken now, or on its way to
the queue.

`PoolProofs`, `GroupIsSafe`: if no thread outside the group creates tasks
(`NoOutsiders`; the run's constants satisfy it, and without it the statement is
false, see below), `Spec => []GroupSafe`. The hard part is that `__exit__` stops
looking too early: `DrainedIsQuiet` says that once a round finds nothing pending
every started task has settled. Its proof takes the set of tasks that have not,
finds one whose creator is not among them (`NoCircle`), and contradicts the round
by it.

`HostingProofs`, for any tree of services of any kinds:

- `HostingTypeOK`: `Spec => []TypeOK`; inductive as it stands.
- `HostingResources`: `Spec => []ResourcesOutliveTasks`; inductive with the
  typing of `pc`. `PcCases` reduces the actions to four ways a service moves.
- `HostingSiblings`: `Spec => []SiblingsSurvive`. The invariant needs a reason
  for the root's scope being cancelled: `RootCancelled` says it was a forced
  stop, the root's own failure, or the end of all children. That the last is
  stable needs `RootFirst` (children are started once), and that no other end of
  the body is possible needs `KindsOK`.

`HttpServiceProofs`, `ServiceIsSafe`: on h11, `Spec => []ServiceSafe`, for any
number of selectors, connections and requests, all three topologies and all
executors at once. `SInv` says why a thread has ended and which sockets are open
meanwhile (`LifeOK`), that a batch holds a selector's own connections
(`BatchesOK`), what the stage of a connection's selector leaves possible for its
place (`ConnsOK`), and how far the application can be while requests are in
its pool (`HandlersOK`): when an executor of its own has been left it is closed, has
no worker, and nobody holds its condition; and before a `stop()` a request in the
queue has a worker, a host task or a submit that is about to start one. The theorem
says that a stopped server has closed what is not with the executor, that no handler
runs on an executor that was left, and that its queue is empty if `stop()` was not
called. With `stop()` it need not be (`Stranded`).

`HttpSelectorProofs`, for any connections, descriptors, workers and sweeps:

- `OneOwnerAndNoLostWakeup`: `OwnerInv` says who may refer to a connection
  (`Referred`: nobody, before it is accepted), that a worker which answers or gives
  back has the connection to itself (`Owners`), and that while the selector is
  past its last look at the queue, an op in it has a byte in the pipe or a worker
  about to write one (`Bytes`). `Counts` says that every chunk is on the wire, in
  the parser, in work or answered. Each action is reduced to
  what it does to the references (`Flow`): a reference is copied from another or
  made by accept, and only what is referred to is closed.
- `NoStray408`: what `_cleanup_stale` answers 408 to is in the middle of a request.
- `ConnectionsStaySafe`: `Spec /\ ReuseIsLate => []ConnectionsSafe`. Ops and map
  entries name descriptors, so the code leans on accept not being handed one that
  something stale still names: that is `ReuseIsLate`, and the configuration
  `HttpFdReuse.cfg` shows that `NoOrphan` fails without it. The run `http_pool`
  has one connection to a descriptor, so there it holds. `Fresh` (a descriptor leads
  to one connection, as long as anything refers to it) and `Kept` (a tracked
  connection is watched, queued or being queued, and any other has a worker that
  will see to it) are the invariant.
- `InlineHandlersInStep`, `InlineShutdownCloses`: without a pool nothing is asked of
  the descriptors. The selector's map is then exactly the open connections
  (`InlineKeys`), so that shutdown closes them all, and no callback leaves an
  answered request behind (`InlineCycle`).

`HttpServiceProofs` also holds the theorems about `HttpApp`, for any handlers,
middlewares, registrations, requests, files and sequences of writes. What a
compiled router, a chain of middlewares or a document is was written as a
recursive function, so that it can be reasoned about: a lemma (`ChainExists`,
`DocExists`, ...) shows that there is a function with these equations, the next
that the operator is its value, and `UpTo` makes inductions over it.

- `NotModifiedMeansCurrent`: `AppSpec => []NotModifiedIsTrue`. `CopiesInv` keeps the
  client's copy, the stat and the file in the order they were written (`Precedes`),
  and says that what a handler is about to send is `Serve` of its stat, for
  conditions that are the copy's own validators.
- `RegistrationsDecide`: `AppSpec => []DispatchFollowsRegistration`. `Describes`
  says what the table is after n registrations (a row for each template, for each
  of its methods the last entry, rows in the order of first registration);
  sorting by literal prefixes is a bijection that ranks the rows; so the first row
  that matches is the one the property means (`DispatchedFollows`).
- `ChunksAreFlushed` and `ResponsesAreTrue`: `AnswersInv` says of each stage what has
  become of the length, the coding and the range: a handler's length is that of
  its body (`TrueDoing`), a static answer's range is what was asked for
  (`StaticAnswer`), the chunks that are left make up what a stream has promised
  and not yet sent, and its encoder holds nothing back between two of them
  (`Streaming`). `ResponsesAreTrue` has `~ShrinksWhileServed` as its hypothesis:
  `sendfile` sends what is there, whatever length it has announced, so a write that
  makes the file shorter between its stat and its sending breaks it. It also rests on
  `HandlersAssumption`: a handler that sets a `Content-Length` of its own sets the
  right one, which the code does not check.
- `OperationsMatchTheirDocument`: `FunctionsAsDocumented => (AppSpec =>
  []OperationMatchesItsDocument)`. `ResolvedAsDocumented` shows that what the
  resolvers of a function accept is what its contribution to the document says;
  `Documents` that a document is what its function and each middleware contribute
  and no more; `Outcome`, by induction over the layers, what may come out of the
  innermost n of them. `FunctionsAsDocumented` is what the code takes from the
  functions on trust or cannot document: that they answer what their annotations
  say and no 400 of their own, that a middleware which answers by itself refuses
  (a success of its own would be one for a request that the operation's document
  does not allow) and that one which authenticates documents its 401; no list in the
  path or a header, which no value satisfies; and of the body only a required JSON
  parameter of an operation, since one with a default is documented otherwise than it
  is checked (`resolvers.py:421`, below). TLC evaluates it in the run `http_app`,
  through an `ASSUME` of `MCHttpApp`.

`FrontEndsProofs`, for each of the four parts alone and for `FrontEnds`:

- `HostGateHolds`: the root follows its services and the gate follows the root;
  what the gate was opened for stays true (`HostStays`).
- `WsgiBorderIsFaithful`: `WsgiInv` reads off the place of the call what has been
  committed, sent and closed, in either direction.
- `BridgeBodyAndResponse`: `BodyInv` says that the pump holds a chunk only while it
  sends it and has ended early only if it saw the peer leave, so that the
  handler's reads lose nothing; `WireInv` says what of a response is on the wire at
  each place of the handler.
- `ToolsConnectionIsSafe`: `~Pipelining => (ToolsSpec => []ToolsSafe)`. A feed is a
  fold over the tokens of one recv, so besides the invariant between steps
  (`ToolsInv`) there is one between tokens: `TokenInv` relates the connection to the
  tokens that are still before it (whose head may come, what is left of which
  body, who has the request in hand), each callback keeps it for the tail, and
  an induction over the length of what is fed makes it hold at the end. With
  pipelining the statement is false (below).

`ServicesProofs`, for any types, dependencies, scopes and threads. `Moves` reduces
the threads' actions to eight moves on a stack of calls; lemmas on sequences
(`TopReplaced`, `CallPushed`, ...) say what each does to the stack.

- `DependenciesStayOpen`: `ScopeInv` says that a stack is a chain of calls, each
  waiting for the dependency above it in the provider where that is at home
  (`Shape`), that what a call asked for and no longer waits for is made there
  (`DepsMade`), that scopes open and close inside one another (`Nested`), and that
  what is published has its exit on the stack until the scope closes
  (`Published`).
- `MadeOncePerScope`: if no instance is falsy (with one, the statement is false:
  `ServicesFalsy.cfg`). `Locked` counts the calls that hold a reentrant lock.
  Dependencies may be cyclic, so one thread can be making a service twice:
  `Behind` says the second call for it is never further than the first, hence
  it cannot publish while the first is at work (`NoReturnIntoCycle`).

`SchedulerProofs`, for any scheduled tasks, triggers and middlewares. What `Keep`
leaves of a list is an induction over positions; the library's induction theorems
cannot be used (they take an operator), so `UpTo` derives it from the least
element of a set of naturals (`LeastOfNats`).

- `ResultsAreDelivered`: `Spec => []EveryResultOnce`. While nobody has left a task
  early all of its followers are subscribed (`Subscriptions`) with their streams
  open (`Closed`: who has closed its stream left early or follows a task that has
  finished, and a task that publishes has a user, `UsersCounted`). Then
  `enumerate` skips nobody (`VisitedSubscribers`), whatever the list was before.
- `TasksStayInStep`: `Spec => []TasksInStep`. That a follower which ends with its
  target has seen the last result is said while nobody has left the target early
  (`EarlyLeavers`): otherwise the code may have skipped it (`_scheduler.py:88`,
  `SchedulerMissed.cfg`). The rest of `TasksInStep` has no such condition. The proof
  uses the same facts, `Taken` (take_first
  ends the iteration in time) and `Successes` (an event of `after` is a success
  that its follower has taken out of its buffer; `quit` does not matter here, a
  follower that missed results handles fewer).

Only model-checked: every liveness property (`NobodyStarvesWhenReady`,
`BlockedCallsEnd`, `PoolSettles`, `GroupExitReturns`, `RequestsAreServed`,
`ServiceSettles`, `EveryRequestEnds`, `HostComesAndGoes`, `EndsPropagate`,
`StopsComplete`, `TasksEnd`, `ResolvesEnd`): fairness and `ENABLED` are outside the
prover. Every other property of a passing run is stated by a theorem.

Two things in the modules are there for the proofs. `Router` defines `:>` and `@@`
as the module `TLC` does, because the provers cannot expand that module's; and
`HttpApp` calls its parts `AppInit`, `AppNext` and `AppSpec`, because
`HttpServiceProofs` extends it together with `HttpService`.

## Where code and words differ

`findings` in `PROJECT.json` quotes the lines. The run `async_pool` and, for
reproduction, the configurations in brackets show them:

- `_executor.py:300`: a submit off the loop holds the condition while it waits for
  the loop, which may be waiting for the condition (`LoopNeverDeadlocks`).
- `_executor.py:297`: a host task cancelled before its thread runs takes with it
  the worker a queued task counted on (`AsyncPool.cfg`, with `NoTaskIsLost` as
  its invariant).
- `_executor.py:297`, `:279`: therefore an application with an executor of its own may
  never end: its drain waits for such a task, or leaving the executor blocks the loop
  while a selector's submit waits for it (`HttpServiceForgotten.cfg`, with
  `NeverHangs` as its invariant).
- `_channel.py:311`: puts waiting for room and puts waiting for their handoff
  sleep on one condition, and a `notify()` can go to the wrong one; a put then
  sleeps while a receiver waits (`ChannelRendezvousPairsUp.cfg`).
- `server_h11.py:345`: a request that arrived together with the one before is
  not looked at after a give-back until more bytes come (`HttpPipelined.cfg`).
- `_pool.py:103`: an error after the response closes a connection that has
  already been given back (`HttpForeignClose.cfg`).
- `_base.py:590`: a queued close names its connection by an fd number that may
  belong to a new connection by then (`HttpFdReuse.cfg`).
- `server_httptools.py:302`: two requests of one recv are called back in one
  feed, so that the second may be answered before the first
  (`HttpToolsPipelined.cfg`).
- `server_httptools.py:305`: a request that arrives after the group of
  `thread_pool_handler` has closed leaves its connection to nobody
  (`HttpServiceForgotten.cfg`).
- `scheduler/_scheduler.py:88`: a subscriber is deleted from the list that is being
  enumerated, and the next one misses a result (`SchedulerMissed.cfg`).
- `di/_services.py:77`: a falsy instance counts as a missing one
  (`ServicesFalsy.cfg`).
- `hosting/rsgi.py:204`: when one of several services ends before it has
  started, the gate stays shut (`HostRsgiGate.cfg`).
- `http/asgi.py:350`: while the handler does not read the body, the pump does
  not see the disconnect (`AsyncDisconnect.cfg`).
- `http/static.py:170`: under `to_wsgi`, `sendfile` captures a file that its `with`
  block closes before it is read (`WsgiSendfile.cfg`).
- `http/router.py:308`: a HEAD that gets the router's 404 or 405 on h11 is
  refused its body, and the connection is closed without an answer (`HttpApp.cfg`,
  with `HeadIsAnswered` as an invariant).

Met while reading, without a run:

- `openapi/_operation_core.py:297`: a bare `OpResult` in the return union of a
  middleware documents a 200.
- `openapi/resolvers.py:421`: a body parameter with a default is documented as
  optional, and an empty body is answered with 400.
- `http/_cancel.py:107`: `check_cancelled` under `to_wsgi` raises `LookupError`,
  where two docstrings call it a no-op.
- `_channel.py:270-271`: when the last receiver closes during phase 2, put
  returns normally although its item was not consumed; the docstring of
  `Channel.create` (25-26) says that put blocks until a receiver consumes it.
  `PutHandsOver` states what the code does.
- `_executor.py:132`: two submissions in a row may see the same idle worker,
  so a task can wait behind another; the docstring (23-26) says there is no
  backlog. `PoolSettles` states what holds.
- `_task_group.py:124-126`: a thread outside the group that is between check and
  append when `__exit__` closes leaves a task nobody waits for; the docstring
  (4-6) has no such exception. Runs and proof use creators inside the group.
- `server_h11.py:211` against `docs/design/connection-model.md:41-46`: after a
  quick give-back `_loop` may find a connection it lent already tracked again.
- `server_h11.py:329-345`: a connection given back by a worker keeps the
  read/write deadline and not the keep-alive one of `config.py:34-37`;
  `CycleInStep` is checked for inline handlers.
- `_base.py:850`, `:932`: a worker that looked at `shutting_down` before shutdown may
  append an op after the last drain (`Stray`), and then writes its wake-up to a
  pipe that is closed.
- A forced stop skips the drain of `thread_pool_handler` when the executor is
  shared, because `to_thread.run_sync` looks for a cancellation first.
- The asynchronous OpenAPI application matches routes in the order of
  registration, the synchronous one by literal prefix.
- `hosting/__init__.py:44` says run_app exits with 1 on failure; a crashed child
  under `_run_many` leaves 0, which `_run_many` documents as a limitation.

## Plan

Done: every component the inventory names, but for what the next section lists;
the refinement of the abstract queue; and thirty theorems, among them one for
every safety property of the runs. What is left, in this
order:

1. Reading a request body through h11 (`HttpTools` has the other backend's), with
   100 Continue and partial writes.
2. The cached OpenAPI document, rendered outside the lock while operations are
   registered.
3. Liveness of `HttpService` with two connections, which takes a smaller model
   of a turn.

## Not modelled

- The wrappers for third-party servers (`hosting/services/`):
  leaves of `Hosting` that pass a shutdown on.
- JSON schemas, the classes of the OpenAPI document and converters between them and
  Python types: reflection without state; a model would have to invent Python's
  types.
- Logging, tracing and error reporting: nothing depends on them.
- `http/flask.py`, an adapter over `wrap_wsgi`; header and address translation
  in the bridges.
- Of the parts that are modelled: the body's own exception, which `TaskGroup.__exit__`
  merges with those of the tasks (`_task_group.py:86-89`); `close()` of a WSGI iterable
  on the paths where iteration has not begun and nothing was committed, which
  `ClosedOnce` leaves open; a write that keeps a file's modification time
  (`StaticFiles` lets every write advance it); partial writes; bodies read through h11; the
  peek at the socket behind a cancellation token (a peer that leaves is a handler
  that raises); `observe_services`; a user-set exit code; class middlewares of the
  OpenAPI layer; the cached document; time as a quantity (deadlines and sleeps end
  at some time, in any order).
