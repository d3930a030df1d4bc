----------------------------- MODULE Scheduler -----------------------------
(***************************************************************************)
(* scheduler/_scheduler.py, _trigger.py, _cond.py, cond/cron.py.           *)
(*                                                                         *)
(* A scheduled task couples a Task (a handler and the subscribers to its   *)
(* results) with a trigger: a timer (every, cron) or the results of        *)
(* another task (after, after_all), seen through take_first and delay.     *)
(* All of it runs on one event loop, so an action is the code between two  *)
(* awaits.  Durations are left out: a sleep ends at any time.              *)
(***************************************************************************)
EXTENDS Integers, Sequences, SequencesExt, FiniteSets

CONSTANTS Scheds,      \* the scheduled tasks, in the order of registration
          Tasks,
          TaskOf,      \* scheduled task -> the Task it runs
          Source,      \* scheduled task -> "timer", "after", "after_all"
          Target,      \* scheduled task -> the Task whose results it follows
          Take,        \* scheduled task -> n of take_first(n), 0 without it
          Delayed,     \* the scheduled tasks with a delay middleware
          MaxResults   \* bound: the results of a task run by timers

Sched == Range(Scheds)
Timers == {s \in Sched : Source[s] = "timer"}
Followers == Sched \ Timers

ASSUME SchedulerAssumption ==
    /\ Scheds \in Seq(Sched)
    /\ \A s \in Sched : TaskOf[s] \in Tasks /\ Take[s] \in Nat
    /\ Source \in [Sched -> {"timer", "after", "after_all"}]
    /\ \A s \in Followers : Target[s] \in Tasks
    /\ Delayed \subseteq Sched
    /\ MaxResults \in Nat

VARIABLES
    pc,          \* scheduled task -> where _ScheduledTask.run is:
                 \*   "new"; "next" in `async for`; "pause" in delay's sleep;
                 \*   "handle" in the handler; "close" leaving a middleware;
                 \*   "join" leaving the trigger; "stopped"
    gen,         \* timer -> generate(): "first" at its send, "sleep", "done"
    open,        \* scheduled tasks whose receive stream is open
    inbox,       \* follower -> results in its stream's buffer
    yielded,     \* scheduled task -> events that passed take_first
    subscribers, \* Task -> _subscribers
    users,       \* Task -> _users
    finished,    \* the Tasks that are _finished: their send streams are closed
    shutdown,    \* the scheduler's lt.shutting_down
    results,     \* history: Task -> its published results
    seen,        \* history: follower -> the results it received
    quit         \* history: who left its source from inside a middleware

vars == <<pc, gen, open, inbox, yielded, subscribers, users, finished,
          shutdown, results, seen, quit>>

\* A result is known by its number; `ok` is FALSE when the handler raised.
Results == [n : Nat \ {0}, ok : BOOLEAN]

TypeOK ==
    /\ pc \in [Sched -> {"new", "next", "pause", "handle", "close", "join", "stopped"}]
    /\ gen \in [Timers -> {"first", "sleep", "done"}]
    /\ quit \subseteq Sched
    /\ open \subseteq Sched /\ finished \subseteq Tasks /\ shutdown \in BOOLEAN
    /\ yielded \in [Sched -> Nat] /\ users \in [Tasks -> 0..Len(Scheds)]
    /\ \A s \in Followers : inbox[s] \in Seq(Results) /\ seen[s] \in Seq(Results)
    /\ \A t \in Tasks : subscribers[t] \in Seq(Followers)

Init ==
    /\ pc = [s \in Sched |-> "new"]
    /\ gen = [s \in Timers |-> "first"]
    /\ open = Sched
    /\ inbox = [s \in Followers |-> <<>>]
    /\ yielded = [s \in Sched |-> 0]
    /\ subscribers = [t \in Tasks |-> <<>>]
    /\ users = [t \in Tasks |-> 0]
    /\ finished = {}
    /\ shutdown = FALSE
    /\ results = [t \in Tasks |-> <<>>]
    /\ seen = [s \in Followers |-> <<>>]
    /\ quit = {}

---------------------------------------------------------------------------
\* Task

\* The members of a list that are in S, in its order.
Keep(list, S) ==
    LET kept[i \in 0..Len(list)] ==
            IF i = 0 THEN <<>>
            ELSE IF list[i] \in S THEN Append(kept[i - 1], list[i]) ELSE kept[i - 1]
    IN  kept[Len(list)]

\* `enumerate` goes on by position while `del` shifts the rest of the list to
\* the left: the subscriber after a deleted one is not visited.
Visited(subs) ==
    LET visited[i \in 1..Len(subs)] ==
            i = 1 \/ ~(visited[i - 1] /\ subs[i - 1] \notin open)
    IN  {subs[i] : i \in {j \in 1..Len(subs) : visited[j]}}

PublishResultIfRead(t, result) ==   \* mutant: a buffer of one, dropped on full
    /\ inbox' = [s \in Followers |-> IF s \in Visited(subscribers[t]) /\ inbox[s] = <<>>
                                      THEN <<result>> ELSE inbox[s]]
    /\ subscribers' = subscribers
    /\ results' = [results EXCEPT ![t] = Append(@, result)]

PublishResult(t, result) ==
    LET visited == Visited(subscribers[t])
    IN  /\ inbox' = [s \in Followers |-> IF s \in visited \cap open
                                          THEN Append(inbox[s], result)
                                          ELSE inbox[s]]
        /\ subscribers' = [subscribers EXCEPT ![t] =
               Keep(@, {s \in Followers : s \in open \/ s \notin visited})]
        /\ results' = [results EXCEPT ![t] = Append(@, result)]

\* Task.__aexit__: the last user closes every send stream.
LeaveTaskFirst(t) ==     \* mutant: the streams close with the first user
    /\ users' = [users EXCEPT ![t] = @ - 1]
    /\ finished' = finished \cup {t}

LeaveTask(t) ==
    /\ users' = [users EXCEPT ![t] = @ - 1]
    /\ finished' = IF users[t] = 1 THEN finished \cup {t} ELSE finished

---------------------------------------------------------------------------
\* Scheduler.__call__ and _ScheduledTask.run

\* The children are started in one turn of the loop, each up to its first
\* await: it subscribes to its target, enters the trigger and the task.
Start ==
    /\ \A s \in Sched : pc[s] = "new"
    /\ pc' = [s \in Sched |-> "next"]
    /\ subscribers' = [t \in Tasks |-> Keep(Scheds, {s \in Followers : Target[s] = t})]
    /\ users' = [t \in Tasks |-> Cardinality({s \in Sched : TaskOf[s] = t})]
    /\ UNCHANGED <<gen, open, inbox, yielded, finished, shutdown, results, seen, quit>>

Goto(s, label) == pc' = [pc EXCEPT ![s] = label]

\* propagate_shutdown, in one turn for all children.
Shutdown ==
    /\ ~shutdown
    /\ shutdown' = TRUE
    /\ UNCHANGED <<pc, gen, open, inbox, yielded, subscribers, users, finished, results, seen, quit>>

\* An event leaves the source: delay sleeps first, take_first counts what
\* it yields.
Passed(s) == yielded' = [yielded EXCEPT ![s] = @ + 1]

Deliver(s) ==
    IF s \in Delayed
    THEN Goto(s, "pause") /\ UNCHANGED yielded
    ELSE Goto(s, "handle") /\ Passed(s)

\* delay: the sleep is cut short by a shutdown, which drops the event.
Pause(s) ==
    /\ pc[s] = "pause"
    /\ IF shutdown THEN Goto(s, "close") /\ UNCHANGED yielded
                   ELSE Goto(s, "handle") /\ Passed(s)
    /\ UNCHANGED <<gen, open, inbox, subscribers, users, finished, shutdown, results, seen, quit>>

\* The handler returns or raises, the result is published, and take_first
\* ends the iteration when its next event is asked for.
AfterHandler(s) == IF Take[s] > 0 /\ yielded[s] >= Take[s] THEN "close" ELSE "next"

Handle(s, ok) ==
    /\ pc[s] = "handle"
    /\ PublishResult(TaskOf[s], [n |-> Len(results[TaskOf[s]]) + 1, ok |-> ok])
    /\ Goto(s, AfterHandler(s))
    /\ UNCHANGED <<gen, open, yielded, users, finished, shutdown, seen, quit>>

\* Leaving the source from inside a middleware closes its reader.
CloseSource(s) ==
    /\ pc[s] = "close"
    /\ open' = open \ {s}
    /\ quit' = quit \cup {s}
    /\ Goto(s, "join")
    /\ UNCHANGED <<gen, inbox, yielded, subscribers, users, finished, shutdown, results, seen>>

\* The trigger's task group waits for generate; then the run is over.
Leave(s) ==
    /\ pc[s] = "join"
    /\ s \in Timers => gen[s] = "done"
    /\ LeaveTask(TaskOf[s])
    /\ Goto(s, "stopped")
    /\ UNCHANGED <<gen, open, inbox, yielded, subscribers, shutdown, results, seen, quit>>

---------------------------------------------------------------------------
\* wait_trigger (every, cron)

Room(s) ==
    Len(results[TaskOf[s]])
      + Cardinality({r \in Sched : TaskOf[r] = TaskOf[s] /\ pc[r] \in {"pause", "handle"}})
    < MaxResults

\* The first send waits for the reader; a later one skips the event unless
\* the reader is waiting, and learns that the reader has been closed.
Generate(s) ==
    /\ gen[s] \in {"first", "sleep"}
    /\ s \in open /\ pc[s] = "next" /\ Room(s)
    /\ gen' = [gen EXCEPT ![s] = "sleep"]
    /\ Deliver(s)
    /\ UNCHANGED <<open, inbox, subscribers, users, finished, shutdown, results, seen, quit>>

GenerateBroken(s) ==
    /\ gen[s] # "done" /\ s \notin open
    /\ gen' = [gen EXCEPT ![s] = "done"]
    /\ UNCHANGED <<pc, open, inbox, yielded, subscribers, users, finished, shutdown, results, seen, quit>>

GenerateCancelled(s) ==
    /\ gen[s] # "done" /\ shutdown /\ pc[s] # "new"
    /\ gen' = [gen EXCEPT ![s] = "done"]
    /\ UNCHANGED <<pc, open, inbox, yielded, subscribers, users, finished, shutdown, results, seen, quit>>

TimerEnd(s) ==
    /\ pc[s] = "next" /\ gen[s] = "done"
    /\ open' = open \ {s}
    /\ Goto(s, "join")
    /\ UNCHANGED <<gen, inbox, yielded, subscribers, users, finished, shutdown, results, seen, quit>>

---------------------------------------------------------------------------
\* After and AfterAll: neither looks at shutting_down

Skips(s, result) == Source[s] = "after" /\ ~result.ok

Receive(s) ==
    /\ pc[s] = "next" /\ inbox[s] # <<>>
    /\ inbox' = [inbox EXCEPT ![s] = Tail(@)]
    /\ seen' = [seen EXCEPT ![s] = Append(@, Head(inbox[s]))]
    /\ IF Skips(s, Head(inbox[s])) THEN UNCHANGED <<pc, yielded>> ELSE Deliver(s)
    /\ UNCHANGED <<gen, open, subscribers, users, finished, shutdown, results, quit>>

\* EndOfStream: the target has finished and the buffer is empty.
TargetEndedOnShutdown(s) ==   \* mutant: the end shows only in a shutdown
    inbox[s] = <<>> /\ Target[s] \in finished /\ shutdown

TargetEnded(s) == inbox[s] = <<>> /\ Target[s] \in finished

FollowEnd(s) ==
    /\ pc[s] = "next" /\ TargetEnded(s)
    /\ open' = open \ {s}
    /\ Goto(s, "join")
    /\ UNCHANGED <<gen, inbox, yielded, subscribers, users, finished, shutdown, results, seen, quit>>

---------------------------------------------------------------------------

TimerStep(s) == Generate(s) \/ GenerateBroken(s) \/ GenerateCancelled(s) \/ TimerEnd(s)

RunStep(s) ==
    \/ Pause(s)
    \/ \E ok \in BOOLEAN : Handle(s, ok)
    \/ CloseSource(s)
    \/ Leave(s)

FollowStep(s) == Receive(s) \/ FollowEnd(s)

Next ==
    \/ Start
    \/ Shutdown
    \/ \E s \in Sched : RunStep(s)
    \/ \E s \in Timers : TimerStep(s)
    \/ \E s \in Followers : FollowStep(s)

\* The loop runs every task that can go on, sleeps end and handlers return.
\* Nothing makes anybody ask for a shutdown.
Fairness ==
    /\ WF_vars(Start)
    /\ \A s \in Sched : WF_vars(RunStep(s))
    /\ \A s \in Timers : WF_vars(TimerStep(s))
    /\ \A s \in Followers : WF_vars(FollowStep(s))

Spec == Init /\ [][Next]_vars /\ Fairness

---------------------------------------------------------------------------
\* Properties

EarlyLeavers(t) == {s \in Followers \cap quit : Target[s] = t}

\* While nobody has left early, every follower gets every result of its
\* target exactly once and in the order of publication, whatever the others
\* do (Task._publish_result).
EveryResultOnce ==
    \A s \in Followers :
        pc[s] # "new" /\ EarlyLeavers(Target[s]) = {}
            => seen[s] \o inbox[s] = results[Target[s]]

\* A follower that ends because its target did has seen the target's last
\* result, if no follower of that target has left before it ended (one that
\* has may have made _publish_result skip another, and SchedulerMissed.cfg
\* shows the result it lost); and nobody uses the target any more: results
\* are not published into streams that its __aexit__ has closed.
EndsWithItsTarget ==
    /\ \A s \in Followers :
           s \notin open /\ Target[s] \in finished /\ EarlyLeavers(Target[s]) = {}
               => seen[s] = results[Target[s]]
    /\ \A s \in Sched : pc[s] \notin {"new", "stopped"} => TaskOf[s] \notin finished

\* An event runs the handler at most once, and take_first(n) lets exactly n
\* of them through: a task that follows with `after` never handles more
\* events than its target had successes.
HandledOnce ==
    /\ \A s \in Sched : Take[s] > 0 => yielded[s] <= Take[s]
    /\ \A s \in Followers : Source[s] = "after" =>
           yielded[s] <= Cardinality({i \in DOMAIN results[Target[s]] : results[Target[s]][i].ok})

\* What the tasks of a scheduler have in common stays consistent as they come
\* and go.
TasksInStep == TypeOK /\ EndsWithItsTarget /\ HandledOnce

\* A shutdown of the scheduler stops every scheduled task: the timers by
\* themselves, the followers when what they follow has ended
\* (Scheduler.__call__ waits for all of them).
ShutdownStops == shutdown ~> \A s \in Sched : pc[s] = "stopped"

\* When the last user of a task has left, everybody who follows it ends,
\* shutdown or not.
FollowersEnd ==
    \A s \in Followers : Target[s] \in finished ~> pc[s] = "stopped"

\* Nobody waits for ever, be it for the shutdown or for a task to follow.
TasksEnd == ShutdownStops /\ FollowersEnd

\* What the comment on Task.subscribe promises: "a slow consumer trades memory
\* for never missing a result".
NeverMissesAResult ==
    \A s \in Followers \cap open :
        pc[s] # "new" => seen[s] \o inbox[s] = results[Target[s]]
=============================================================================
