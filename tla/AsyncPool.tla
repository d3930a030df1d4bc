------------------------------ MODULE AsyncPool ------------------------------
(***************************************************************************)
(* AsyncWorkerExecutor of localpost/threadtools/_executor.py: the pool of  *)
(* module WorkerPool, whose workers are threads that tasks of an event     *)
(* loop wait for (host_task), with Portal.run_sync of _portal.py.          *)
(*                                                                         *)
(* _spawn_worker runs on the loop while submit holds _cond, so the two are *)
(* no longer one action for a caller off the loop, and everybody else must *)
(* wait for _cond in between.  host_task's to_thread.run_sync checks for a *)
(* cancellation before it starts the thread (AnyIO, external).             *)
(***************************************************************************)
EXTENDS WorkerPool

VARIABLES
    submitter,  \* the task whose submit holds _cond and waits for the loop
    loopCall,   \* what code on the loop is calling: "none", "submit", "stop", "exit"
    toCancel,   \* stop off the loop has asked the loop to cancel the scope
    cancelled   \* the cancel scope of _tg

loopVars == <<submitter, loopCall, toCancel, cancelled>>
asyncVars == <<poolVars, loopVars>>

CondFree == submitter = NoTask
LoopFree == loopCall = "none"

-----------------------------------------------------------------------------
AsyncInit ==
    /\ PoolInit
    /\ submitter = NoTask /\ loopCall = "none"
    /\ toCancel = FALSE /\ cancelled = FALSE

\* _tg.start_soon(host_task): the task starts later.
StartHost ==
    \E w \in Workers :
        /\ wpc[w] = "unborn"
        /\ wpc' = [wpc EXCEPT ![w] = "hosted"]
        /\ worker_count' = worker_count + 1

\* submit off the loop: with a worker idle as in WorkerPool, else the caller
\* keeps _cond while the portal calls the loop.
SubmitOff(t) ==
    /\ CondFree /\ idle # 0 /\ Submit(t)
    /\ UNCHANGED loopVars

SubmitAsksLoop(t) ==
    /\ CondFree /\ idle = 0 /\ future[t] = "new" /\ opened /\ ~closed
    /\ queue' = Append(queue, t)
    /\ future' = [future EXCEPT ![t] = "pending"]
    /\ submitter' = t
    /\ UNCHANGED <<idle, worker_count, sleeping, lifeVars, wpc, job, loopCall,
                   toCancel, cancelled>>

\* The loop runs start_soon for the submitter, which counts and notifies.
LoopSpawns ==
    /\ LoopFree /\ ~CondFree
    /\ StartHost /\ NotifyWorker
    /\ submitter' = NoTask
    /\ UNCHANGED <<queue, idle, lifeVars, future, job, loopCall, toCancel, cancelled>>

\* host_task runs: the thread is started, unless the scope is cancelled.
HostRuns(w) ==
    /\ LoopFree /\ wpc[w] = "hosted"
    /\ wpc' = [wpc EXCEPT ![w] = IF cancelled THEN "dead" ELSE "loop"]
    /\ UNCHANGED <<condVars, lifeVars, future, job, loopVars>>

\* stop off the loop, and the call it makes into the loop.
StopOff ==
    /\ CondFree /\ Stop
    /\ toCancel' = TRUE
    /\ UNCHANGED <<submitter, loopCall, cancelled>>

LoopCancels ==
    /\ LoopFree /\ toCancel
    /\ toCancel' = FALSE /\ cancelled' = TRUE
    /\ UNCHANGED <<poolVars, submitter, loopCall>>

-----------------------------------------------------------------------------
\* Code on the loop calls submit, stop or __aexit__.  Until it has _cond the
\* loop runs nothing else.
LoopCalls ==
    /\ LoopFree /\ opened /\ exiting = "no"
    /\ loopCall' \in {"submit", "stop", "exit"}
    /\ UNCHANGED <<poolVars, submitter, toCancel, cancelled>>

LoopSubmits(t) ==
    /\ loopCall = "submit" /\ CondFree /\ future[t] = "new"
    /\ IF closed
         THEN /\ future' = [future EXCEPT ![t] = "rejected"]
              /\ UNCHANGED <<queue, wpc, worker_count, sleeping>>
         ELSE /\ queue' = Append(queue, t)
              /\ future' = [future EXCEPT ![t] = "pending"]
              /\ IF idle = 0 THEN StartHost ELSE UNCHANGED <<wpc, worker_count>>
              /\ NotifyWorker
    /\ loopCall' = "none"
    /\ UNCHANGED <<idle, lifeVars, job, submitter, toCancel, cancelled>>

LoopStops ==
    /\ loopCall = "stop" /\ CondFree
    /\ MarkClosed
    /\ cancelled' = (cancelled \/ ~closed)
    /\ loopCall' = "none"
    /\ UNCHANGED <<queue, idle, worker_count, opened, exiting, future, wpc, job,
                   submitter, toCancel>>

\* __aexit__ closes, then awaits the host tasks: the loop is free again.
LoopExits ==
    /\ loopCall = "exit" /\ CondFree /\ ExitClose
    /\ loopCall' = "none"
    /\ UNCHANGED <<submitter, toCancel, cancelled>>

\* What is as in WorkerPool.  A worker needs _cond to take a task or to leave.
PoolStep ==
    /\ \/ LoopFree /\ (Enter \/ ExitJoined)
       \/ \E t \in Tasks : (CondFree /\ SubmitRejected(t)) \/ Cancel(t)
       \/ \E w \in Workers : (CondFree /\ (WorkerLoop(w) \/ WorkerWake(w))) \/ TaskStart(w)
       \/ \E w \in Workers : TaskEnd(w)
    /\ UNCHANGED loopVars

AsyncNext ==
    \/ PoolStep
    \/ \E t \in Tasks : SubmitOff(t) \/ SubmitAsksLoop(t) \/ LoopSubmits(t)
    \/ LoopSpawns \/ StopOff \/ LoopCancels \/ LoopCalls \/ LoopStops \/ LoopExits
    \/ \E w \in Workers : HostRuns(w)

AsyncSpec == AsyncInit /\ [][AsyncNext]_asyncVars

-----------------------------------------------------------------------------
\* What README.md of threadtools says: "submit and stop are safe to call from
\* any thread".  The loop never waits for _cond while its holder waits for the
\* loop.
LoopNeverDeadlocks == ~(submitter # NoTask /\ loopCall # "none")

\* Every accepted task settles: its worker, or another one, gets to it before
\* __aexit__ is over.
NoTaskIsLost ==
    exiting = "done" => \A t \in Tasks : future[t] # "pending"
=============================================================================
