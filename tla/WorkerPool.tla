------------------------------ MODULE WorkerPool ------------------------------
(***************************************************************************)
(* The spawn-on-demand pool of localpost/threadtools/_executor.py:         *)
(* _WorkerPoolBase and its synchronous subclass WorkerExecutor.            *)
(*                                                                         *)
(* A "with self._cond" block is one action.  A worker that wakes up from   *)
(* _cond.wait tests the loop condition in the same block, so waking and    *)
(* popping are one action.  The body of a task is an interval between      *)
(* TaskStart and TaskEnd during which anything else may happen.            *)
(***************************************************************************)
EXTENDS Integers, Sequences, FiniteSets

CONSTANTS
    Tasks,      \* the submissions, each made at most once
    Workers     \* thread names for _spawn_worker

NoTask == "no task"

ASSUME PoolAssumption ==
    /\ IsFiniteSet(Tasks) /\ IsFiniteSet(Workers)
    /\ NoTask \notin Tasks

VARIABLES
    queue,              \* _queue: tasks waiting for a worker
    idle, worker_count, opened, closed,
    sleeping,           \* workers asleep in _cond.wait
    future,             \* state of each task's Future
    wpc, job,           \* each worker: where it is, what it runs
    exiting             \* WorkerExecutor.__exit__: "no", "joining", "done"

condVars == <<queue, idle, worker_count, sleeping>>
lifeVars == <<opened, closed, exiting>>
poolVars == <<condVars, lifeVars, future, wpc, job>>

Alive(w) == wpc[w] \notin {"unborn", "dead"}
Settled(t) == future[t] \in {"done", "cancelled"}

-----------------------------------------------------------------------------
PoolInit ==
    /\ queue = <<>> /\ idle = 0 /\ worker_count = 0
    /\ opened = FALSE /\ closed = FALSE /\ exiting = "no"
    /\ sleeping = {}
    /\ future = [t \in Tasks |-> "new"]
    /\ wpc = [w \in Workers |-> "unborn"]
    /\ job = [w \in Workers |-> NoTask]

\* Condition.notify: one sleeper, if any.
Notified(waiters) ==
    IF waiters = {} THEN {{}} ELSE {waiters \ {w} : w \in waiters}

Enter ==
    /\ ~closed /\ ~opened
    /\ opened' = TRUE
    /\ UNCHANGED <<condVars, closed, exiting, future, wpc, job>>

\* _spawn_worker and the count: a new thread at the top of _run_worker.
SpawnWorker ==
    \E w \in Workers :
        /\ wpc[w] = "unborn"
        /\ wpc' = [wpc EXCEPT ![w] = "loop"]
        /\ worker_count' = worker_count + 1

SpawnIfNoneIdle ==
    IF idle = 0 THEN SpawnWorker ELSE UNCHANGED <<wpc, worker_count>>

NotifyNobody == UNCHANGED sleeping      \* mutant

NotifyWorker == sleeping' \in Notified(sleeping)

\* submit: append, spawn a worker if none is idle, notify.
Submit(t) ==
    /\ future[t] = "new"
    /\ opened /\ ~closed
    /\ queue' = Append(queue, t)
    /\ SpawnIfNoneIdle
    /\ NotifyWorker
    /\ future' = [future EXCEPT ![t] = "pending"]
    /\ UNCHANGED <<idle, lifeVars, job>>

\* submit on a pool that is not open raises.
SubmitRejected(t) ==
    /\ future[t] = "new"
    /\ ~opened \/ closed
    /\ future' = [future EXCEPT ![t] = "rejected"]
    /\ UNCHANGED <<condVars, lifeVars, wpc, job>>

\* Future.cancel by whoever holds the future: only while it is pending.
Cancel(t) ==
    /\ future[t] = "pending"
    /\ future' = [future EXCEPT ![t] = "cancelled"]
    /\ UNCHANGED <<condVars, lifeVars, wpc, job>>

MarkClosedSilently ==       \* mutant: no notify_all
    closed' = TRUE /\ UNCHANGED sleeping

\* _mark_closed; the second caller finds closed set and does nothing.
MarkClosed ==
    /\ closed' = TRUE
    /\ sleeping' = IF closed THEN sleeping ELSE {}

Stop ==
    /\ opened /\ ~closed
    /\ MarkClosed
    /\ UNCHANGED <<queue, idle, worker_count, opened, exiting, future, wpc, job>>

\* WorkerExecutor.__exit__: close, then join every worker in the list.
ExitClose ==
    /\ opened /\ exiting = "no"
    /\ MarkClosed
    /\ exiting' = "joining"
    /\ UNCHANGED <<queue, idle, worker_count, opened, future, wpc, job>>

ExitJoined ==
    /\ exiting = "joining"
    /\ \A w \in Workers : ~Alive(w)
    /\ exiting' = "done"
    /\ UNCHANGED <<condVars, opened, closed, future, wpc, job>>

-----------------------------------------------------------------------------
\* _run_worker, the block under the condition.  n is what idle is while
\* this worker is counted in it.
PopTask(w, n) ==
    /\ queue # <<>>
    /\ queue' = Tail(queue)
    /\ job' = [job EXCEPT ![w] = Head(queue)]
    /\ wpc' = [wpc EXCEPT ![w] = "got"]
    /\ idle' = n - 1
    /\ UNCHANGED sleeping

Leave(w, n) ==
    /\ queue = <<>> /\ closed
    /\ wpc' = [wpc EXCEPT ![w] = "dead"]
    /\ idle' = n - 1
    /\ UNCHANGED <<queue, job, sleeping>>

Sleep(w, n) ==
    /\ queue = <<>> /\ ~closed
    /\ wpc' = [wpc EXCEPT ![w] = "wait"]
    /\ sleeping' = sleeping \cup {w}
    /\ idle' = n
    /\ UNCHANGED <<queue, job>>

WorkerLoop(w) ==
    /\ wpc[w] = "loop"
    /\ PopTask(w, idle + 1) \/ Leave(w, idle + 1) \/ Sleep(w, idle + 1)
    /\ UNCHANGED <<worker_count, lifeVars, future>>

WorkerWake(w) ==
    /\ wpc[w] = "wait" /\ w \notin sleeping
    /\ PopTask(w, idle) \/ Leave(w, idle) \/ Sleep(w, idle)
    /\ UNCHANGED <<worker_count, lifeVars, future>>

\* Task.run: a future cancelled while queued is dropped without running.
TaskStart(w) ==
    /\ wpc[w] = "got"
    /\ IF future[job[w]] = "pending"
         THEN /\ future' = [future EXCEPT ![job[w]] = "running"]
              /\ wpc' = [wpc EXCEPT ![w] = "run"]
              /\ UNCHANGED job
         ELSE /\ wpc' = [wpc EXCEPT ![w] = "loop"]
              /\ job' = [job EXCEPT ![w] = NoTask]
              /\ UNCHANGED future
    /\ UNCHANGED <<condVars, lifeVars>>

\* The body returned or raised; either way the future is set.
TaskEnd(w) ==
    /\ wpc[w] = "run"
    /\ future' = [future EXCEPT ![job[w]] = "done"]
    /\ wpc' = [wpc EXCEPT ![w] = "loop"]
    /\ job' = [job EXCEPT ![w] = NoTask]
    /\ UNCHANGED <<condVars, lifeVars>>

WorkerStep(w) == WorkerLoop(w) \/ WorkerWake(w) \/ TaskStart(w)

-----------------------------------------------------------------------------
PoolNext ==
    \/ Enter \/ Stop \/ ExitClose \/ ExitJoined
    \/ \E t \in Tasks : Submit(t) \/ SubmitRejected(t) \/ Cancel(t)
    \/ \E w \in Workers : WorkerStep(w) \/ TaskEnd(w)

PoolSpec == PoolInit /\ [][PoolNext]_poolVars

\* Threads run, task bodies return, __exit__ returns from the last join.
PoolFairness ==
    /\ \A w \in Workers : WF_poolVars(WorkerStep(w)) /\ WF_poolVars(TaskEnd(w))
    /\ WF_poolVars(ExitJoined)

FairPoolSpec == PoolSpec /\ PoolFairness

-----------------------------------------------------------------------------
\* The type invariant of the pool.
PoolTypeOK ==
    /\ queue \in Seq(Tasks)
    /\ idle \in Nat /\ worker_count \in Nat
    /\ opened \in BOOLEAN /\ closed \in BOOLEAN
    /\ exiting \in {"no", "joining", "done"}
    /\ sleeping \subseteq Workers
    /\ future \in [Tasks -> {"new", "pending", "running", "done", "cancelled",
                             "rejected"}]
    /\ wpc \in [Workers -> {"unborn", "loop", "wait", "got", "run", "dead"}]
    /\ job \in [Workers -> Tasks \cup {NoTask}]

\* idle, which submit trusts, counts exactly the workers inside the wait
\* loop, across spurious wake-ups and both ways out of it.
IdleExact == idle = Cardinality({w \in Workers : wpc[w] = "wait"})

\* A queued task always has somebody coming for it: not every worker is
\* asleep or gone (spawn-or-notify in submit, drain before Leave).
QueueIsServed ==
    queue # <<>> => \E w \in Workers : Alive(w) /\ w \notin sleeping

\* Where a submitted task is: in the queue once, with one worker, or settled.
\* No task is dropped, run twice or run after its cancellation.
OneHolderPerTask ==
    \A t \in Tasks :
        LET places == {<<"queue", i>> : i \in {j \in 1..Len(queue) : queue[j] = t}}
                      \cup {<<"worker", w>> : w \in {v \in Workers : job[v] = t}}
        IN  /\ Cardinality(places) <= 1
            /\ future[t] = "pending" => places # {}
            /\ future[t] = "running" <=> \E w \in Workers : job[w] = t /\ wpc[w] = "run"
            /\ future[t] \in {"new", "done", "rejected"} => places = {}

\* When WorkerExecutor.__exit__ returns, every accepted task is settled and no
\* worker is left, even when submits raced with the close.
ExitMeansDrained ==
    exiting = "done" =>
        /\ queue = <<>>
        /\ \A w \in Workers : ~Alive(w)
        /\ \A t \in Tasks : Settled(t) \/ future[t] \in {"new", "rejected"}

\* Every task has one place, from which somebody fetches it, until the end.
PoolSafe == IdleExact /\ QueueIsServed /\ OneHolderPerTask /\ ExitMeansDrained

\* However many submissions there were, a time comes when each accepted one has
\* settled (as long as task bodies return) and no __exit__ is still joining
\* workers, whether or not the pool was stopped meanwhile.
PoolSettles ==
    <>[](exiting # "joining" /\ \A t \in Tasks : future[t] \notin {"pending", "running"})
=============================================================================
