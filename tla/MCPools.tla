------------------------------- MODULE MCPools -------------------------------
(***************************************************************************)
(* A small pool, either used by whoever has it (module WorkerPool) or by a *)
(* task group (module TaskGroup) whose owner starts a task, which starts a *)
(* second one, which starts a third.                                       *)
(***************************************************************************)
EXTENDS TaskGroup, TLC

CONSTANTS t1, t2, t3

Nested == (t1 :> "owner") @@ (t2 :> t1) @@ (t3 :> t2)

VARIABLE use        \* "pool" or "group"

pvars == <<use, vars>>

OnPool(Step)  == use = "pool" /\ Step /\ UNCHANGED <<use, groupVars>>
OnGroup(Step) == use = "group" /\ Step /\ UNCHANGED use

PoolsInit == use \in {"pool", "group"} /\ Init
PoolsNext == OnPool(PoolNext) \/ OnGroup(Next)

\* The fairness of the two, use being constant.
WorkerRuns(w) ==
    \/ OnPool(WorkerStep(w) \/ TaskEnd(w))
    \/ OnGroup(WorkerStep(w) /\ UNCHANGED groupVars) \/ OnGroup(BodyEnd(w))

OwnerRuns ==
    \/ OnPool(ExitJoined)
    \/ OnGroup(OwnerStep \/ (gpc = "exited" /\ ExitJoined /\ UNCHANGED groupVars))

PoolsSpec ==
    /\ PoolsInit /\ [][PoolsNext]_pvars
    /\ \A w \in Workers : WF_pvars(WorkerRuns(w))
    /\ \A t \in Tasks : WF_pvars(OnGroup(CreateStep(t)))
    /\ WF_pvars(OwnerRuns)
=============================================================================
