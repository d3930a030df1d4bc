------------------------------ MODULE TaskGroup ------------------------------
(***************************************************************************)
(* TaskGroup of localpost/threadtools/_task_group.py on top of the pool of *)
(* module WorkerPool.                                                      *)
(*                                                                         *)
(* create_task takes the group's lock twice and calls the executor between *)
(* the two, so it is four actions: check, submit, append, add_done_callback.*)
(* Who calls it is a constant: the thread that runs the "with" block, a    *)
(* task of the group, or some other thread.                                *)
(***************************************************************************)
EXTENDS WorkerPool

CONSTANTS
    Creator     \* "owner", "outside" or a task, for each task

Creators == {"owner", "outside"} \cup Tasks

ASSUME CreatorAssumption ==
    /\ Creator \in [Tasks -> Creators]
    /\ Tasks \cap {"owner", "outside"} = {}

VARIABLES
    tasks,     \* the futures the group keeps, as their tasks
    tgClosed,   \* TaskGroup._closed
    gpc,        \* the owner: "body", "drain", "wait", "close", "collect", "exited"
    pending,    \* the list __exit__ is looking at
    cpc,        \* progress of create_task for each task
    raised,     \* tasks whose body raised
    errors      \* what the exception group of __exit__ holds

groupVars == <<tasks, tgClosed, gpc, pending, cpc, raised, errors>>
vars == <<poolVars, groupVars>>

InCreate == {"checked", "submitted", "appended"}

\* A caller that is in the middle of create_task does nothing else.
Busy(c) == \E t \in Tasks : Creator[t] = c /\ cpc[t] \in InCreate

\* The caller of create_task for t is running its own code.
CreatorRuns(t) ==
    \/ Creator[t] = "outside"
    \/ Creator[t] = "owner" /\ gpc = "body"
    \/ Creator[t] \in Tasks /\ future[Creator[t]] = "running"

-----------------------------------------------------------------------------
Init ==
    /\ PoolInit
    /\ tasks = {} /\ tgClosed = FALSE /\ gpc = "body" /\ pending = {}
    /\ cpc = [t \in Tasks |-> "none"]
    /\ raised = {} /\ errors = {}

\* create_task, first lock: refused once the group is closed.
CreateCheck(t) ==
    /\ cpc[t] = "none" /\ CreatorRuns(t) /\ ~Busy(Creator[t])
    /\ cpc' = [cpc EXCEPT ![t] = IF tgClosed THEN "refused" ELSE "checked"]
    /\ UNCHANGED <<poolVars, tasks, tgClosed, gpc, pending, raised, errors>>

\* The call of the executor; when it raises, create_task raises.
CreateSubmit(t) ==
    /\ cpc[t] = "checked"
    /\ \/ Submit(t) /\ cpc' = [cpc EXCEPT ![t] = "submitted"]
       \/ SubmitRejected(t) /\ cpc' = [cpc EXCEPT ![t] = "refused"]
    /\ UNCHANGED <<tasks, tgClosed, gpc, pending, raised, errors>>

\* Second lock: the group learns of the future.
CreateAppend(t) ==
    /\ cpc[t] = "submitted"
    /\ tasks' = tasks \cup {t}
    /\ cpc' = [cpc EXCEPT ![t] = "appended"]
    /\ UNCHANGED <<poolVars, tgClosed, gpc, pending, raised, errors>>

CreateCallback(t) ==
    /\ cpc[t] = "appended"
    /\ cpc' = [cpc EXCEPT ![t] = "created"]
    /\ UNCHANGED <<poolVars, tasks, tgClosed, gpc, pending, raised, errors>>

\* _on_done, run once the future is settled and the callback is there: only a
\* successful task is forgotten.
OnDone(t) ==
    /\ cpc[t] = "created" /\ Settled(t)
    /\ cpc' = [cpc EXCEPT ![t] = "called back"]
    /\ tasks' = IF future[t] = "done" /\ t \notin raised THEN tasks \ {t}
                                                          ELSE tasks
    /\ UNCHANGED <<poolVars, tgClosed, gpc, pending, raised, errors>>

-----------------------------------------------------------------------------
\* The body ends: __exit__ starts.
ExitGroup ==
    /\ gpc = "body" /\ ~Busy("owner")
    /\ gpc' = "drain"
    /\ UNCHANGED <<poolVars, tasks, tgClosed, pending, cpc, raised, errors>>

DrainAll ==     \* mutant: settled futures are waited for again
    /\ gpc = "drain"
    /\ pending' = tasks
    /\ gpc' = IF pending' = {} THEN "close" ELSE "wait"
    /\ UNCHANGED <<poolVars, tasks, tgClosed, cpc, raised, errors>>

Drain ==
    /\ gpc = "drain"
    /\ pending' = {t \in tasks : ~Settled(t)}
    /\ gpc' = IF pending' = {} THEN "close" ELSE "wait"
    /\ UNCHANGED <<poolVars, tasks, tgClosed, cpc, raised, errors>>

WaitOnce ==     \* mutant: the list is not read again after the wait
    /\ gpc = "wait" /\ \A t \in pending : Settled(t)
    /\ gpc' = "close"
    /\ UNCHANGED <<poolVars, tasks, tgClosed, pending, cpc, raised, errors>>

WaitAll ==
    /\ gpc = "wait" /\ \A t \in pending : Settled(t)
    /\ gpc' = "drain"
    /\ UNCHANGED <<poolVars, tasks, tgClosed, pending, cpc, raised, errors>>

CloseGroup ==
    /\ gpc = "close"
    /\ tgClosed' = TRUE
    /\ pending' = tasks
    /\ gpc' = "collect"
    /\ UNCHANGED <<poolVars, tasks, cpc, raised, errors>>

\* f.exception() waits for f; cancelled futures are skipped.
Collect ==
    /\ gpc = "collect" /\ \A t \in pending : Settled(t)
    /\ errors' = pending \cap raised
    /\ gpc' = "exited"
    /\ UNCHANGED <<poolVars, tasks, tgClosed, pending, cpc, raised>>

-----------------------------------------------------------------------------
\* The body of a task returns or raises; not while it is inside create_task.
BodyEnd(w) ==
    /\ TaskEnd(w)
    /\ ~Busy(job[w])
    /\ raised' \in {raised, raised \cup {job[w]}}
    /\ UNCHANGED <<tasks, tgClosed, gpc, pending, cpc, errors>>

\* Steps of the executor that the group has no part in.  Its owner may leave
\* the executor only after the group.
ExecutorStep ==
    /\ \/ Enter
       \/ gpc = "exited" /\ (ExitClose \/ ExitJoined)
       \/ Stop
       \/ \E t \in Tasks : Cancel(t)
       \/ \E w \in Workers : WorkerStep(w)
    /\ UNCHANGED groupVars

CreateStep(t) ==
    CreateSubmit(t) \/ CreateAppend(t) \/ CreateCallback(t) \/ OnDone(t)

OwnerStep == Drain \/ WaitAll \/ CloseGroup \/ Collect

Next ==
    \/ ExecutorStep
    \/ \E t \in Tasks : CreateCheck(t) \/ CreateStep(t)
    \/ \E w \in Workers : BodyEnd(w)
    \/ ExitGroup \/ OwnerStep

Spec == Init /\ [][Next]_vars

\* Calls in progress go on, workers run, and task bodies end.
Fairness ==
    /\ \A t \in Tasks : WF_vars(CreateStep(t))
    /\ \A w \in Workers : /\ WF_vars(WorkerStep(w) /\ UNCHANGED groupVars)
                          /\ WF_vars(BodyEnd(w))
    /\ WF_vars(OwnerStep)

FairSpec == Spec /\ Fairness

-----------------------------------------------------------------------------
\* The type invariant; the pool's idle count never goes below zero.
TypeOK ==
    /\ PoolTypeOK
    /\ tasks \subseteq Tasks /\ pending \subseteq Tasks
    /\ raised \subseteq Tasks /\ errors \subseteq Tasks
    /\ tgClosed \in BOOLEAN
    /\ gpc \in {"body", "drain", "wait", "close", "collect", "exited"}
    /\ cpc \in [Tasks -> InCreate \cup {"none", "created", "called back", "refused"}]

\* Submitted through the group.
Started(t) == cpc[t] \in {"submitted", "appended", "created", "called back"}

\* Structured concurrency: when the block has been left, every task started
\* through the group is settled, whoever among the given callers started it.
ExitWaitsForAll ==
    gpc = "exited" => \A t \in Tasks : Started(t) => Settled(t)

\* No failure is swallowed: the exception group holds exactly the tasks that
\* raised, although _on_done removes futures from the list while it is read.
FailuresSurface == gpc = "exited" => errors = raised

\* A group that is closed has nobody left in create_task beyond the check.
NobodyCreatesAfterClose ==
    tgClosed => \A t \in Tasks : cpc[t] \notin InCreate

\* __exit__ returns when task bodies do, although tasks start further tasks.
GroupExitReturns == (gpc = "drain") ~> (gpc = "exited")
\* A group that has been left has nothing running, and told everything (__exit__).
GroupSafe == TypeOK /\ ExitWaitsForAll /\ FailuresSurface /\ NobodyCreatesAfterClose
=============================================================================
