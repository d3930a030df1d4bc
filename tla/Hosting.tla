------------------------------- MODULE Hosting -------------------------------
(***************************************************************************)
(* Lifetimes of hosted services: localpost/hosting/_host.py and            *)
(* middleware.py.                                                          *)
(*                                                                         *)
(* Everything here runs on one event loop, so the code between two awaits  *)
(* is one action; calls from other threads reach the loop as one callback  *)
(* (Portal.run_sync).  A service is one of three kinds: "many", the body   *)
(* of _run_many; "serve", a context-manager service that runs one child    *)
(* with "async with" (_service_cm around _serve_in); "leaf", anything the  *)
(* user wrote.  The services form a tree below Root, which run_app starts  *)
(* under shutdown_on_signal.                                               *)
(***************************************************************************)
EXTENDS Integers, FiniteSets

CONSTANTS
    Services, Root,
    Parent,     \* the service in whose task group each other one runs
    Ancestors,  \* the services above each one
    Kind,       \* "many", "serve" or "leaf"
    Sync,       \* leaves that run in a thread, which nobody can cancel
    Guarded,    \* services wrapped in start_timeout
    ShutByApp,  \* services whose view.shutdown() the application calls
    Rude,       \* leaves that may never start and may ignore the shutdown
    CleanupFails    \* services with a deferred cleanup that may raise

Children(s) == {c \in Services \ {Root} : Parent[c] = s}
Leaves == {s \in Services : Kind[s] = "leaf"}

ASSUME HostingAssumption ==
    /\ IsFiniteSet(Services) /\ Root \in Services
    /\ Parent \in [Services \ {Root} -> Services]
    /\ Ancestors \in [Services -> SUBSET Services]
    /\ Ancestors[Root] = {}
    /\ \A s \in Services \ {Root} :
          /\ Ancestors[s] = {Parent[s]} \cup Ancestors[Parent[s]]
          /\ s \notin Ancestors[s]
    /\ Kind \in [Services -> {"many", "serve", "leaf"}]
    /\ \A s \in Services : /\ Kind[s] = "leaf" => Children(s) = {}
                           /\ Kind[s] = "serve" => Cardinality(Children(s)) = 1
    /\ Sync \subseteq Leaves /\ Guarded \subseteq Services
    /\ ShutByApp \subseteq Services
    /\ Rude \subseteq Leaves /\ CleanupFails \subseteq Services

VARIABLES
    pc,             \* how far _run is; "stopped" is the event lt.stopped
    started, shutting_down,     \* the other two events
    cancelled,      \* cancel() was called on lt.tg.cancel_scope
    raised,         \* the body, or a task beside it, raised
    exception,      \* lt.exception: "none", "cancelled" or "error"
    helper,         \* propagate_shutdown, or bind_parent_to: is it running
    watch,          \* _observe_started: is it running
    handling,       \* _handle_signals: is it running
    forced,         \* history: _handle_signals called stop()
    polite          \* the leaves that start, and that end when told to

eventVars == <<started, shutting_down>>
runVars   == <<pc, cancelled, raised, exception>>
taskVars  == <<helper, watch>>
sigVars   == <<handling, forced>>
vars == <<eventVars, runVars, taskVars, sigVars, polite>>

Child(s) == CHOOSE c \in Children(s) : TRUE

\* An await of s raises CancelledError: its own scope, or one around it.
CancelledAround(s) == \E a \in Ancestors[s] : cancelled[a]
Cancelled(s) == cancelled[s] \/ CancelledAround(s)

InBody == {"body", "wait_all", "wait_started", "inside", "leaving"}

-----------------------------------------------------------------------------
Init ==
    /\ pc = [s \in Services |-> IF s = Root THEN "new" ELSE "unborn"]
    /\ started = [s \in Services |-> FALSE]
    /\ shutting_down = [s \in Services |-> FALSE]
    /\ cancelled = [s \in Services |-> FALSE]
    /\ raised = [s \in Services |-> FALSE]
    /\ exception = [s \in Services |-> "none"]
    /\ helper = [s \in Services |-> FALSE]
    /\ watch = [s \in Services |-> FALSE]
    /\ handling = FALSE /\ forced = FALSE
    /\ polite \in {p \in SUBSET Leaves : Leaves \ Rude \subseteq p}

\* ServiceLifetimeView.shutdown of several services.
ShutDown(ss) ==
    shutting_down' =
        [s \in Services |-> shutting_down[s] \/ (s \in ss /\ pc[s] # "stopped")]

\* Where each kind of service function first waits.
FirstAwait(s) ==
    IF Kind[s] = "leaf" THEN "body"
    ELSE IF Kind[s] = "many" THEN "wait_all" ELSE "wait_started"

\* _run, up to the first await of the service function.  The middlewares add
\* their tasks; _run_many and _serve_in start the children.
Begin(s) ==
    /\ pc[s] = "new"
    /\ pc' = [t \in Services |->
                IF t = s THEN FirstAwait(s)
                ELSE IF t \in Children(s) THEN "new" ELSE pc[t]]
    /\ helper' = [helper EXCEPT ![s] = Children(s) # {}]
    /\ watch' = [watch EXCEPT ![s] = s \in Guarded]
    /\ handling' = (handling \/ s = Root)
    /\ UNCHANGED <<eventVars, cancelled, raised, exception, forced, polite>>

\* The service function returned or raised: the task group is told to cancel
\* whatever else runs in it.
EndBody(s, failed) ==
    /\ pc' = [pc EXCEPT ![s] = "ended"]
    /\ raised' = [raised EXCEPT ![s] = @ \/ failed]
    /\ cancelled' = [cancelled EXCEPT ![s] = TRUE]
    /\ UNCHANGED <<started, exception, taskVars, sigVars, polite>>

\* CancelledError reached the service function; bind_parent_to, which runs in
\* a task group of the function, goes with it.
CancelBodyShielded(s) ==    \* mutant: cancelling a parent does not reach s
    /\ pc[s] \in InBody /\ s \notin Sync /\ cancelled[s]
    /\ pc' = [pc EXCEPT ![s] = "ended"]
    /\ helper' = [helper EXCEPT ![s] = @ /\ Kind[s] = "many"]
    /\ UNCHANGED <<eventVars, cancelled, raised, exception, watch, sigVars, polite>>

CancelBody(s) ==
    /\ pc[s] \in InBody /\ s \notin Sync /\ Cancelled(s)
    /\ pc' = [pc EXCEPT ![s] = "ended"]
    /\ helper' = [helper EXCEPT ![s] = @ /\ Kind[s] = "many"]
    /\ UNCHANGED <<eventVars, cancelled, raised, exception, watch, sigVars, polite>>

-----------------------------------------------------------------------------
\* A leaf: set_started, and then any end at any time.
SetStarted(s) ==
    /\ pc[s] = "body" /\ ~started[s]
    /\ started' = [started EXCEPT ![s] = TRUE]
    /\ UNCHANGED <<shutting_down, runVars, taskVars, sigVars, polite>>

LeafEnds(s) ==
    /\ pc[s] = "body"
    /\ \E failed \in BOOLEAN : EndBody(s, failed)
    /\ UNCHANGED shutting_down

\* The end that a polite leaf comes to: it waits for shutting_down, and in a
\* thread it polls from_thread.check_cancelled as well.
LeafObeys(s) ==
    /\ s \in polite /\ (shutting_down[s] \/ Cancelled(s))
    /\ LeafEnds(s)

\* view.shutdown() called by the application's own code.
ApplicationShutdown(s) ==
    /\ s \in ShutByApp
    /\ pc[s] \notin {"unborn", "stopped"} /\ ~shutting_down[s]
    /\ ShutDown({s})
    /\ UNCHANGED <<started, runVars, taskVars, sigVars, polite>>

-----------------------------------------------------------------------------
\* _run_many: wait until all children have stopped.
AllStopped(s) == \A c \in Children(s) : pc[c] = "stopped"

WaitAny(s) ==       \* mutant: the first child to stop ends the service
    /\ pc[s] = "wait_all" /\ \E c \in Children(s) : pc[c] = "stopped"
    /\ EndBody(s, FALSE)
    /\ UNCHANGED shutting_down

WaitAll(s) ==
    /\ pc[s] = "wait_all" /\ AllStopped(s)
    /\ EndBody(s, FALSE)
    /\ UNCHANGED shutting_down

\* propagate_shutdown.
PropagateOne(s) ==      \* mutant: only one child is told
    /\ Kind[s] = "many" /\ helper[s] /\ shutting_down[s]
    /\ ShutDown({Child(s)})
    /\ helper' = [helper EXCEPT ![s] = FALSE]
    /\ UNCHANGED <<started, runVars, watch, sigVars, polite>>

Propagate(s) ==
    /\ Kind[s] = "many" /\ helper[s] /\ shutting_down[s]
    /\ ShutDown(Children(s))
    /\ helper' = [helper EXCEPT ![s] = FALSE]
    /\ UNCHANGED <<started, runVars, watch, sigVars, polite>>

\* _serve_in up to its yield: the child has started or stopped.  _service_cm
\* then marks the service itself as started.
Entered(s) ==
    /\ pc[s] = "wait_started"
    /\ started[Child(s)] \/ pc[Child(s)] = "stopped"
    /\ pc' = [pc EXCEPT ![s] = "inside"]
    /\ started' = [started EXCEPT ![s] = TRUE]
    /\ UNCHANGED <<shutting_down, cancelled, raised, exception, taskVars,
                   sigVars, polite>>

\* bind_parent_to: the child has stopped.
Bind(s) ==
    /\ Kind[s] = "serve" /\ helper[s] /\ pc[Child(s)] = "stopped"
    /\ ShutDown({s})
    /\ helper' = [helper EXCEPT ![s] = FALSE]
    /\ UNCHANGED <<started, runVars, watch, sigVars, polite>>

\* _serve_in after its yield.  The scope it has just cancelled is the one its
\* own last await runs in, so that await does not wait for the child.
LeaveServe(s) ==
    /\ pc[s] = "inside" /\ shutting_down[s]
    /\ pc' = [pc EXCEPT ![s] = "leaving"]
    /\ helper' = [helper EXCEPT ![s] = FALSE]
    /\ ShutDown({Child(s)})
    /\ UNCHANGED <<started, cancelled, raised, exception, watch, sigVars, polite>>

LeftServe(s) ==
    /\ pc[s] = "leaving"
    /\ EndBody(s, FALSE)
    /\ UNCHANGED shutting_down

-----------------------------------------------------------------------------
\* _observe_started: the timeout, or the end of the watch.
StartTimeout(s) ==
    /\ watch[s] /\ ~started[s] /\ ~shutting_down[s] /\ ~Cancelled(s)
    /\ watch' = [watch EXCEPT ![s] = FALSE]
    /\ raised' = [raised EXCEPT ![s] = TRUE]
    /\ cancelled' = [cancelled EXCEPT ![s] = TRUE]
    /\ UNCHANGED <<eventVars, pc, exception, helper, sigVars, polite>>

WatchEnds(s) ==
    /\ watch[s] /\ (started[s] \/ shutting_down[s])
    /\ watch' = [watch EXCEPT ![s] = FALSE]
    /\ UNCHANGED <<eventVars, runVars, helper, sigVars, polite>>

\* A signal reaches _handle_signals: shutdown, or stop when the shutdown has
\* already begun.
HandleSignal ==
    /\ handling
    /\ IF ~shutting_down[Root]
         THEN ShutDown({Root}) /\ UNCHANGED <<cancelled, handling, forced>>
         ELSE /\ cancelled' = [cancelled EXCEPT ![Root] = TRUE]
              /\ handling' = FALSE /\ forced' = TRUE
              /\ UNCHANGED shutting_down
    /\ UNCHANGED <<started, pc, raised, exception, taskVars, polite>>

-----------------------------------------------------------------------------
\* The task group has been left: children and helpers are gone.
TasksDoneEarly(s) ==        \* mutant: lt.scope is left before the task group
    /\ pc[s] = "ended"
    /\ pc' = [pc EXCEPT ![s] = "cleanup"]
    /\ helper' = [helper EXCEPT ![s] = FALSE]
    /\ watch' = [watch EXCEPT ![s] = FALSE]
    /\ handling' = (handling /\ s # Root)
    /\ UNCHANGED <<eventVars, cancelled, raised, exception, forced, polite>>

TasksDone(s) ==
    /\ pc[s] = "ended" /\ AllStopped(s)
    /\ pc' = [pc EXCEPT ![s] = "cleanup"]
    /\ helper' = [helper EXCEPT ![s] = FALSE]
    /\ watch' = [watch EXCEPT ![s] = FALSE]
    /\ handling' = (handling /\ s # Root)
    /\ UNCHANGED <<eventVars, cancelled, raised, exception, forced, polite>>

\* lt.scope has been left, and lt.stopped is set.  A deferred cleanup may
\* raise, and a cancellation from outside may or may not have met an await.
WrappedOutcomes(s) ==   \* mutant: unwrap_exc is left out
    IF raised[s] THEN {"group"}
    ELSE {"none"} \cup (IF s \in CleanupFails THEN {"error"} ELSE {})
                  \cup (IF CancelledAround(s) THEN {"cancelled"} ELSE {})

Outcomes(s) ==
    IF raised[s] THEN {"error"}
    ELSE {"none"} \cup (IF s \in CleanupFails THEN {"error"} ELSE {})
                  \cup (IF CancelledAround(s) THEN {"cancelled"} ELSE {})

Stopped(s) ==
    /\ pc[s] = "cleanup"
    /\ pc' = [pc EXCEPT ![s] = "stopped"]
    /\ \E e \in Outcomes(s) : exception' = [exception EXCEPT ![s] = e]
    /\ UNCHANGED <<eventVars, cancelled, raised, taskVars, sigVars, polite>>

-----------------------------------------------------------------------------
\* What the event loop does by itself.
LoopStep(s) ==
    \/ Begin(s) \/ CancelBody(s) \/ WaitAll(s) \/ Propagate(s) \/ Entered(s)
    \/ Bind(s) \/ LeaveServe(s) \/ LeftServe(s) \/ WatchEnds(s)
    \/ TasksDone(s) \/ Stopped(s)

Next ==
    \/ \E s \in Services : \/ LoopStep(s) \/ SetStarted(s) \/ LeafEnds(s)
                           \/ ApplicationShutdown(s) \/ StartTimeout(s)
    \/ HandleSignal

Spec == Init /\ [][Next]_vars
\* The event loop runs every task that can go on, and a polite service starts
\* and ends when it is told to.  Nobody else is obliged to anything.
Fairness ==
    /\ \A s \in Services : WF_vars(LoopStep(s))
    /\ \A s \in Leaves : /\ WF_vars(LeafObeys(s))
                          /\ WF_vars(s \in polite /\ SetStarted(s))

FairSpec == Spec /\ Fairness

-----------------------------------------------------------------------------
\* The type invariant; in particular lt.exception has no value that _run does
\* not set: nothing, a cancellation, or an error past unwrap_exc.
TypeOK ==
    /\ pc \in [Services -> InBody \cup {"unborn", "new", "ended", "cleanup",
                                       "stopped"}]
    /\ started \in [Services -> BOOLEAN]
    /\ shutting_down \in [Services -> BOOLEAN]
    /\ cancelled \in [Services -> BOOLEAN]
    /\ raised \in [Services -> BOOLEAN]
    /\ exception \in [Services -> {"none", "cancelled", "error"}]
    /\ helper \in [Services -> BOOLEAN] /\ watch \in [Services -> BOOLEAN]
    /\ handling \in BOOLEAN /\ forced \in BOOLEAN
    /\ polite \subseteq Leaves

\* While a service runs, the resources its parent deferred (lt.scope) are not
\* released, and so the parent is not stopped either (_run, "deferred cleanups
\* run AFTER the task group has finished").
ResourcesOutliveTasks ==
    \A c \in Services \ {Root} :
        pc[c] \notin {"unborn", "stopped"} => pc[Parent[c]] \notin {"cleanup", "stopped"}

\* The end of one service, crash or not, never cancels its siblings under
\* _run_many: only the second signal or the start timeout of the root does.
SiblingsSurvive ==
    Kind[Root] = "many" => \A c \in Children(Root) :
        exception[c] = "cancelled" => forced \/ raised[Root]

\* shutdown() of a parent has got to its children, unless cancellation or their
\* own end was faster (propagate_shutdown, _serve_in).  A "serve" parent tells
\* its child only once that child has started.
ShutdownReached ==
    \A c \in Services \ {Root} :
        shutting_down[Parent[c]] /\ (Kind[Parent[c]] = "many" \/ started[Parent[c]])
            => shutting_down[c] \/ Cancelled(c) \/ pc[c] = "stopped"

\* A service does not outlive the child it serves as a shell: when the child
\* stops, in whatever way and however early, the parent is shut down.
ShellFollowsChild ==
    \A s \in Services : Kind[s] = "serve" =>
        (pc[Child(s)] = "stopped" => shutting_down[s] \/ pc[s] = "stopped")

\* The end of a service is passed on, to those below it and to the one above.
\* (What is asked here, once true, stays true: <>[](P => Q) is P ~> Q.)
EndsPropagate == <>[](ShutdownReached /\ ShellFollowsChild)

LeavesBelow(s) == {d \in Leaves : s \in Ancestors[d]}

\* shutdown() stops a service whose leaves are polite, however starts, ends,
\* crashes and timeouts of the services below fall.
GracefulShutdown ==
    \A s \in Services \ Leaves :
        shutting_down[s] /\ LeavesBelow(s) \subseteq polite => pc[s] = "stopped"

\* stop() stops a service even if its leaves ignore the shutdown, except for
\* threads that do not poll.
ForcedStop ==
    \A s \in Services \ Leaves :
        cancelled[s] /\ LeavesBelow(s) \cap Sync \subseteq polite
            => pc[s] = "stopped"

\* Both ways to stop a service do, in the end.
StopsComplete == <>[](GracefulShutdown /\ ForcedStop)
=============================================================================
