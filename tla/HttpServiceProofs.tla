------------------------- MODULE HttpServiceProofs -------------------------
(***************************************************************************)
(* Proofs about HttpService, for every number of selectors, connections    *)
(* and requests, in all three topologies and with every executor; and      *)
(* about HttpApp, the application it serves, for any registrations,        *)
(* handlers, middlewares, requests and files.                              *)
(***************************************************************************)
EXTENDS HttpService, HttpApp, FiniteSetTheorems, SequenceTheorems, WellFoundedInduction, TLAPS

\* Where a thread, a connection and the application can be.
Stages == {"new", "never", "turn", "batch", "post", "submit", "spawning", "filing", "ending",
           "flagged", "done"}
Ended == {"ending", "flagged", "done"}
Places == {"new", "backlog", "posting", "queued", "map", "held", "waiting", "lent", "returning",
           "closed", "forgotten"}
Phases == {"starting", "serving", "draining", "drained", "unwinding", "closing", "executor",
           "left", "stopped"}

\* What every variable that the rest speaks of may be.
Typed ==
    /\ topology \in {"single", "multi", "acceptor"}
    /\ executor \in {"none", "shared", "own"}
    /\ app \in Phases /\ group \in {"open", "closed"}
    /\ started \in BOOLEAN /\ shutting \in BOOLEAN
    /\ stopped \in BOOLEAN /\ cancelled \in BOOLEAN /\ appCancelled \in BOOLEAN
    /\ poolClosed \in BOOLEAN /\ hosted \in Nat /\ looping \in Nat /\ idle \in Nat
    /\ thread \in [Threads -> Stages]
    /\ batch \in [Threads -> SUBSET Conns]
    /\ down \in [Threads -> BOOLEAN]
    /\ listening \subseteq Listeners
    /\ next \in 0..(Selectors - 1)
    /\ place \in [Conns -> Places] /\ home \in [Conns -> Threads]

\* Threads end for a reason, and the sockets they listen on are there while they run.
LifeOK ==
    /\ \A t \in Threads :
          /\ thread[t] # "new" => t \in Used
          /\ thread[t] \in Ended => shutting \/ cancelled
          /\ thread[t] = "never" => cancelled
          /\ topology # "acceptor" =>
                (t \in listening <=> thread[t] \notin {"new", "never", "done"})
    /\ topology = "acceptor" /\ listening = {} =>
          stopped \/ \A t \in Threads : thread[t] \in {"new", "never"}
    /\ started => \A t \in Used : thread[t] # "new"
    /\ stopped =>
          /\ listening = {}
          /\ \/ \A t \in Used : thread[t] \in {"done", "never"}
             \/ /\ topology = "acceptor" /\ cancelled
                /\ \A t \in Threads : thread[t] \in {"new", "never"}

\* A thread calls back the connections of its own selector, and only the acceptor
\* hands one on.
BatchesOK ==
    \A t \in Threads :
        /\ thread[t] = "post" => topology = "acceptor" /\ t = Acceptor
        /\ \A c \in batch[t] :
              /\ thread[t] \in {"batch", "post", "submit", "spawning", "filing"}
              /\ home[c] = t /\ place[c] \in {"backlog", "map"}

\* Where the selector of a connection is, depending on where the connection is.
ConnsOK ==
    /\ \A c \in Conns :
          /\ place[c] \in {"posting", "queued", "map", "held", "waiting", "lent", "returning"} =>
                /\ home[c] \in Used
                /\ topology = "acceptor" => thread[Acceptor] \notin {"new", "never"}
                /\ topology # "acceptor" => thread[home[c]] \notin {"new", "never"}
          /\ place[c] = "backlog" => home[c] \in listening
          /\ place[c] = "map" => thread[home[c]] \notin {"new", "never", "done"}
          /\ place[c] = "posting" => topology = "acceptor" /\ thread[Acceptor] = "post"
          /\ place[c] = "held" => thread[home[c]] = "submit"
          /\ place[c] = "queued" /\ thread[home[c]] = "done" => c \in late
    /\ \A c, d \in Conns :
          /\ place[c] = "posting" /\ place[d] = "posting" => c = d
          /\ place[c] = "held" /\ place[d] = "held" /\ home[c] = home[d] => c = d

\* With h11 no connection is forgotten.  A pool that is closed is not asked for a
\* worker; when it has been left it has none; and before a stop what waits in its queue
\* has one, or is about to get one.
HandlersOK ==
    /\ Backend = "h11" => \A c \in Conns : place[c] # "forgotten"
    /\ executor = "own" =>
          /\ app \in {"executor", "left", "stopped"} => poolClosed /\ CondFree
          /\ app \in {"left", "stopped"} =>
                Lent = {} /\ hosted = 0 /\ looping = 0 /\ idle = 0
          /\ Waiting # {} /\ ~appCancelled =>
                hosted + looping + idle > 0 \/ Lent # {} \/ ~CondFree

\* The inductive invariant.
SInv == Typed /\ LifeOK /\ BatchesOK /\ ConnsOK /\ HandlersOK

\* A server that has not been entered.
LEMMA InitSInv == Init => SInv
<1> SUFFICES ASSUME Init PROVE SInv
  OBVIOUS
<1> USE DEF Init
<1>1. Typed
  <2>1. next \in 0..(Selectors - 1) /\ Acceptor \in Threads
    BY HttpServiceAssumption DEF Threads, Acceptor
  <2>2. thread \in [Threads -> Stages] /\ place \in [Conns -> Places]
    BY DEF Stages, Places
  <2>3. QED
    BY <2>1, <2>2 DEF Typed, Phases
<1>2. LifeOK
  BY DEF LifeOK, Ended
<1>3. BatchesOK /\ ConnsOK
  BY DEF BatchesOK, ConnsOK
<1>4. HandlersOK
  BY DEF HandlersOK, CondFree, Waiting, Lent
<1>5. QED
  BY <1>1, <1>2, <1>3, <1>4 DEF SInv

\* The threads of each topology, and those of them that listen.
LEMMA UsedFacts ==
  ASSUME Typed
  PROVE  /\ Used \subseteq Threads /\ Used # {} /\ Listeners \subseteq Used
         /\ Acceptor \in Threads /\ 1..Selectors \subseteq Threads
         /\ topology = "acceptor" => Used = Threads /\ Listeners = {Acceptor}
         /\ topology # "acceptor" => Listeners = Used
         /\ topology = "single" => Used = {1}
  BY HttpServiceAssumption DEF Typed, Threads, Acceptor, Used, Listeners

\* The topology is chosen once.
LEMMA SameTopology ==
  ASSUME [Next]_vars
  PROVE  UNCHANGED modeVars /\ UNCHANGED <<Used, Listeners>>
<1>1. UNCHANGED modeVars
  <2>1. CASE UNCHANGED vars
    BY <2>1 DEF vars, modeVars
  <2>2. ASSUME NEW t \in Threads, ThreadStep(t) \/ OpenFails(t) PROVE UNCHANGED modeVars
    <3>1. CASE Open(t) \/ OpenFails(t) \/ NeverRuns(t) \/ Check(t) \/ Select(t) \/ DrainWakeup(t)
      BY <3>1 DEF modeVars, Open, OpenFails, NeverRuns, Check, Select, DrainWakeup
    <3>2. CASE SetShuttingDown(t) \/ CloseRegistered(t)
      BY <3>2 DEF modeVars, SetShuttingDown, CloseRegistered, Walk
    <3>3. ASSUME NEW c \in Conns, AcceptHere(t, c) \/ AcceptRoundRobin(t, c) \/ PostTrack(t, c)
          PROVE  UNCHANGED modeVars
      BY <3>3 DEF modeVars, AcceptHere, AcceptRoundRobin, PostTrack
    <3>4. ASSUME NEW c \in Conns, Handle(t, c) \/ Dispatch(t, c) \/ DispatchRefused(t, c)
          PROVE  UNCHANGED modeVars
      BY <3>4 DEF modeVars, Handle, Dispatch, DispatchRefused
    <3>5. ASSUME NEW c \in Conns, Submit(t, c) \/ SubmitRefused(t, c)
          PROVE  UNCHANGED modeVars
      BY <3>5 DEF modeVars, Submit, SubmitRefused
    <3>6. CASE LoopSpawns(t) \/ AppendTask(t)
      BY <3>6 DEF modeVars, LoopSpawns, AppendTask
    <3>7. QED
      BY <2>2, <3>1, <3>2, <3>3, <3>4, <3>5, <3>6 DEF ThreadStep
  <2>3. ASSUME NEW c \in Conns, WorkerStep(c) \/ Connects(c) \/ Sends(c) PROVE UNCHANGED modeVars
    BY <2>3 DEF modeVars, WorkerStep, WorkerTakes, HandlerReturns, HandlerCancelled, GiveBack,
                Connects, Sends
  <2>4. CASE ServerStep \/ BindFails \/ PoolStep
    BY <2>4 DEF modeVars, ServerStep, Bind, SetStarted, ServerStops, BindFails, PoolStep,
                HostRuns, WorkerLoops, WorkerLeaves
  <2>5. CASE AppStep \/ AppShutdown \/ AppStop
    BY <2>5 DEF modeVars, AppStep, AppStarts, BindParent, AppLeaves, GroupDrained, GroupCloses,
                ExecutorExits, MarkClosed, ExecutorLeft, AppStops, AppShutdown, AppStop
  <2>6. QED
    BY <2>1, <2>2, <2>3, <2>4, <2>5 DEF Next
<1>2. QED
  BY <1>1 DEF modeVars, Used, Listeners

\* Every step leaves every variable within its range.
LEMMA NextTyped ==
  ASSUME Typed, [Next]_vars
  PROVE  Typed'
<1>1. UNCHANGED modeVars /\ UNCHANGED <<Used, Listeners>>
  BY SameTopology
<1>2. Used \subseteq Threads /\ Listeners \subseteq Used
  BY UsedFacts
<1> USE <1>1, <1>2, HttpServiceAssumption
<1>3. CASE UNCHANGED vars
  BY <1>3 DEF vars, modeVars, appVars, poolVars, lifeVars, selVars, connVars, Typed
<1>4. ASSUME NEW t \in Threads, ThreadStep(t) \/ OpenFails(t)
      PROVE  Typed'
  <2>1. CASE Open(t)
    BY <2>1 DEF Open, Typed, Stages, modeVars, poolVars, appVars, connVars
  <2>2. CASE OpenFails(t) \/ NeverRuns(t) \/ Check(t) \/ SetShuttingDown(t)
    <3>1. CASE OpenFails(t)
      BY <3>1 DEF OpenFails, Fails, Typed, Stages, modeVars, poolVars, appVars, connVars
    <3>2. CASE NeverRuns(t)
      BY <3>2 DEF NeverRuns, Typed, Stages, modeVars, poolVars, appVars, lifeVars, connVars
    <3>3. CASE Check(t)
      BY <3>3 DEF Check, Typed, Stages, modeVars, poolVars, appVars, lifeVars, connVars
    <3>4. CASE SetShuttingDown(t)
      BY <3>4 DEF SetShuttingDown, Typed, Stages, modeVars, poolVars, appVars, lifeVars,
                  connVars
    <3>5. QED
      BY <2>2, <3>1, <3>2, <3>3, <3>4
  <2>3. CASE Select(t)
    BY <2>3 DEF Select, At, Moved, Typed, Stages, Places, modeVars, poolVars, appVars, lifeVars
  <2>4. CASE DrainWakeup(t) \/ CloseRegistered(t)
    BY <2>4 DEF DrainWakeup, CloseRegistered, Walk, Moved, Typed, Stages, Places,
                modeVars, poolVars, appVars, lifeVars, selVars
  <2>5. ASSUME NEW c \in Conns, AcceptRoundRobin(t, c)
        PROVE  Typed'
    <3>1. next + 1 \in Threads /\ (next + 1) % Selectors \in 0..(Selectors - 1)
      BY DEF Typed, Threads, Acceptor
    <3>2. QED
      BY <2>5, <3>1 DEF AcceptRoundRobin, Called, Moved, Typed, Stages, Places, modeVars,
                        poolVars, appVars, lifeVars
  <2>6. ASSUME NEW c \in Conns,
               AcceptHere(t, c) \/ PostTrack(t, c) \/ Handle(t, c) \/ DispatchRefused(t, c)
        PROVE  Typed'
    BY <2>6 DEF AcceptHere, PostTrack, Handle, DispatchRefused, StartRefused, Called, Moved,
                Typed, Stages, Places, modeVars, poolVars, appVars, lifeVars
  <2>7. ASSUME NEW c \in Conns, Dispatch(t, c) \/ Submit(t, c) \/ SubmitRefused(t, c)
        PROVE  Typed'
    BY <2>7 DEF Dispatch, Submit, SubmitRefused, StartRefused, Called, Moved, Typed, Stages, Places,
                modeVars, poolVars, appVars, lifeVars
  <2>8. CASE LoopSpawns(t) \/ AppendTask(t)
    BY <2>8 DEF LoopSpawns, AppendTask, Typed, Stages, modeVars, appVars, lifeVars, connVars
  <2>9. QED
    BY <1>4, <2>1, <2>2, <2>3, <2>4, <2>5, <2>6, <2>7, <2>8 DEF ThreadStep
<1>5. ASSUME NEW c \in Conns, WorkerStep(c) \/ Connects(c) \/ Sends(c)
      PROVE  Typed'
  <2>1. CASE Connects(c) \/ Sends(c)
    BY <2>1 DEF Connects, Sends, Typed, Places, modeVars, poolVars, appVars, lifeVars, selVars
  <2>2. CASE WorkerTakes(c)
    BY <2>2 DEF WorkerTakes, Moved, Typed, Places, modeVars, poolVars, appVars, lifeVars, selVars
  <2>3. CASE HandlerReturns(c)
    BY <2>3 DEF HandlerReturns, TaskOver, Moved, Typed, Places, modeVars, poolVars, appVars,
                lifeVars, selVars
  <2>4. CASE HandlerCancelled(c) \/ GiveBack(c)
    BY <2>4 DEF HandlerCancelled, GiveBack, TaskOver, Moved, Typed, Places, modeVars, poolVars,
                appVars, lifeVars, selVars
  <2>5. QED
    BY <1>5, <2>1, <2>2, <2>3, <2>4 DEF WorkerStep
<1>6. CASE ServerStep \/ BindFails
  <2>1. CASE Bind
    BY <2>1, UsedFacts DEF Bind, Typed, modeVars, poolVars, appVars, lifeVars, connVars
  <2>2. CASE SetStarted
    BY <2>2 DEF SetStarted, Typed, modeVars, poolVars, appVars, selVars, connVars
  <2>3. CASE ServerStops
    BY <2>3 DEF ServerStops, Moved, Typed, Places, modeVars, poolVars, appVars
  <2>4. CASE BindFails
    BY <2>4 DEF BindFails, Fails, Typed, modeVars, poolVars, appVars, selVars, connVars
  <2>5. QED
    BY <1>6, <2>1, <2>2, <2>3, <2>4 DEF ServerStep
<1>7. CASE AppStep \/ AppShutdown \/ AppStop
  <2>1. CASE AppLeaves
    BY <2>1 DEF AppLeaves, Typed, Phases, modeVars, poolVars, selVars, connVars
  <2>2. CASE AppStop
    BY <2>2 DEF AppStop, Typed, Phases, modeVars, poolVars, selVars, connVars
  <2>3. CASE AppStarts \/ BindParent \/ GroupDrained \/ AppStops \/ AppShutdown
    BY <2>3 DEF AppStarts, BindParent, GroupDrained, AppStops, AppShutdown, Typed, Phases,
                modeVars, poolVars, lifeVars, selVars, connVars
  <2>4. CASE GroupCloses
    BY <2>4 DEF GroupCloses, Typed, Phases, modeVars, poolVars, lifeVars, selVars, connVars
  <2>5. CASE MarkClosed
    BY <2>5 DEF MarkClosed, Typed, Phases, modeVars, lifeVars, selVars, connVars
  <2>6. CASE ExecutorExits
    BY <2>6 DEF ExecutorExits, Typed, Phases, modeVars, poolVars, selVars, connVars
  <2>7. CASE ExecutorLeft
    BY <2>7 DEF ExecutorLeft, Typed, Phases, modeVars, poolVars, selVars, connVars
  <2>8. QED
    BY <1>7, <2>1, <2>2, <2>3, <2>4, <2>5, <2>6, <2>7 DEF AppStep
<1>8. CASE PoolStep
  BY <1>8 DEF PoolStep, HostRuns, WorkerLoops, WorkerLeaves, Typed, modeVars, appVars, lifeVars,
              selVars, connVars
<1>9. QED
  BY <1>3, <1>4, <1>5, <1>6, <1>7, <1>8 DEF Next

\* A thread ends because of a shutdown or a cancellation, and with it, or with the
\* whole server, what it listens on.
LEMMA NextLife ==
  ASSUME Typed, LifeOK, [Next]_vars
  PROVE  LifeOK'
<1>1. UNCHANGED modeVars /\ UNCHANGED <<Used, Listeners>>
  BY SameTopology
<1>2. /\ Used \subseteq Threads /\ Used # {} /\ Listeners \subseteq Used
      /\ topology = "acceptor" => Used = Threads /\ Listeners = {Acceptor}
      /\ topology # "acceptor" => Listeners = Used
      /\ Acceptor \in Threads
  BY UsedFacts
<1> USE <1>1, <1>2
<1>3. CASE UNCHANGED <<lifeVars, thread, listening>>
  BY <1>3 DEF LifeOK, lifeVars, modeVars
<1>4. ASSUME NEW t \in Threads, ThreadStep(t) \/ OpenFails(t)
      PROVE  LifeOK'
  <2>1. CASE Open(t)
    BY <2>1, UsedFacts DEF Open, Typed, LifeOK, Ended, modeVars
  <2>2. CASE OpenFails(t)
    BY <2>2 DEF OpenFails, Fails, Typed, LifeOK, Ended, modeVars
  <2>3. CASE NeverRuns(t)
    BY <2>3 DEF NeverRuns, Typed, LifeOK, Ended, modeVars, lifeVars
  <2>4. CASE Check(t)
    BY <2>4 DEF Check, Typed, LifeOK, Ended, modeVars, lifeVars
  <2>5. CASE Select(t) \/ SetShuttingDown(t)
    BY <2>5 DEF Select, SetShuttingDown, Typed, LifeOK, Ended,
                modeVars, lifeVars
  <2>6. CASE CloseRegistered(t)
    BY <2>6 DEF CloseRegistered, Walk, Typed, LifeOK, Ended, modeVars, lifeVars
  <2>7. ASSUME NEW c \in Conns, AcceptRoundRobin(t, c) \/ PostTrack(t, c)
        PROVE  LifeOK'
    BY <2>7 DEF AcceptRoundRobin, Called, PostTrack, Typed, LifeOK, Ended, modeVars, lifeVars
  <2>8. CASE DrainWakeup(t)
    BY <1>3, <2>8 DEF DrainWakeup, lifeVars, selVars
  <2>9. ASSUME NEW c \in Conns, AcceptHere(t, c) \/ Handle(t, c) \/ DispatchRefused(t, c)
        PROVE  LifeOK'
    BY <1>3, <2>9 DEF AcceptHere, Handle, DispatchRefused, lifeVars
  <2>10. ASSUME NEW c \in Conns, Dispatch(t, c) \/ Submit(t, c) \/ SubmitRefused(t, c)
         PROVE  LifeOK'
    BY <2>10 DEF Dispatch, Called, Submit, SubmitRefused, Typed, LifeOK, Ended, modeVars, lifeVars
  <2>11. CASE LoopSpawns(t) \/ AppendTask(t)
    BY <2>11 DEF LoopSpawns, AppendTask, Typed, LifeOK, Ended, modeVars, lifeVars
  <2>12. QED
    BY <1>4, <2>1, <2>2, <2>3, <2>4, <2>5, <2>6, <2>7, <2>8, <2>9, <2>10, <2>11 DEF ThreadStep
<1>5. ASSUME NEW c \in Conns, WorkerStep(c) \/ Connects(c) \/ Sends(c)
      PROVE  LifeOK'
  BY <1>3, <1>5 DEF WorkerStep, WorkerTakes, HandlerReturns, HandlerCancelled, GiveBack,
                    Connects, Sends, lifeVars, selVars
<1>6. CASE ServerStep \/ BindFails
  <2>1. CASE Bind
    BY <2>1 DEF Bind, Typed, LifeOK, modeVars, lifeVars
  <2>2. CASE BindFails
    BY <2>2 DEF BindFails, Fails, LifeOK, modeVars, selVars
  <2>3. CASE SetStarted
    BY <2>3 DEF SetStarted, LifeOK, modeVars, selVars
  <2>4. CASE ServerStops
    BY <2>4 DEF ServerStops, Typed, LifeOK, modeVars
  <2>5. QED
    BY <1>6, <2>1, <2>2, <2>3, <2>4 DEF ServerStep
<1>7. CASE AppStep \/ AppShutdown \/ AppStop
  <2>1. CASE AppLeaves \/ ExecutorExits \/ ExecutorLeft \/ AppStop
    BY <2>1 DEF AppLeaves, ExecutorExits, ExecutorLeft, AppStop, Typed, LifeOK, modeVars, selVars
  <2>2. CASE \/ AppStarts \/ BindParent \/ GroupDrained \/ GroupCloses \/ MarkClosed
             \/ AppStops \/ AppShutdown
    BY <1>3, <2>2 DEF AppStarts, BindParent, GroupDrained, GroupCloses, MarkClosed, AppStops,
                      AppShutdown, lifeVars, selVars
  <2>3. QED
    BY <1>7, <2>1, <2>2 DEF AppStep
<1>8. CASE UNCHANGED vars
  BY <1>3, <1>8 DEF vars, selVars
<1>9. CASE PoolStep
  BY <1>3, <1>9 DEF PoolStep, HostRuns, WorkerLoops, WorkerLeaves, lifeVars, selVars
<1>10. QED
  BY <1>4, <1>5, <1>6, <1>7, <1>8, <1>9 DEF Next

\* Only a thread in a batch, or at the end of one, has connections to call back.
LEMMA NextBatches ==
  ASSUME Typed, LifeOK, BatchesOK, ConnsOK, [Next]_vars
  PROVE  BatchesOK'
<1>1. UNCHANGED modeVars /\ UNCHANGED <<Used, Listeners>>
  BY SameTopology
<1>2. topology = "acceptor" => Listeners = {Acceptor}
  BY UsedFacts
<1> USE <1>1
<1>3. ASSUME UNCHANGED <<thread, batch>>,
             \A t \in Threads : \A c \in batch[t] :
                 home'[c] = home[c] /\ (place'[c] = place[c] \/ place'[c] = "map")
      PROVE  BatchesOK'
  BY <1>3 DEF BatchesOK, modeVars
<1>4. ASSUME NEW t \in Threads, ThreadStep(t) \/ OpenFails(t)
      PROVE  BatchesOK'
  <2>1. CASE Open(t) \/ OpenFails(t) \/ NeverRuns(t) \/ Check(t)
    BY <2>1 DEF Open, OpenFails, NeverRuns, Check, Typed, BatchesOK, modeVars,
                connVars
  <2>2. CASE SetShuttingDown(t)
    BY <2>2 DEF SetShuttingDown, Typed, BatchesOK, modeVars, connVars
  <2>3. CASE Select(t)
    BY <2>3 DEF Select, At, Moved, Typed, BatchesOK, modeVars
  <2>4. CASE DrainWakeup(t)
    BY <2>4 DEF DrainWakeup, At, Moved, Typed, BatchesOK, selVars, modeVars
  <2>5. CASE CloseRegistered(t)
    BY <2>5 DEF CloseRegistered, Walk, At, Moved, Typed, BatchesOK, modeVars
  <2>6. ASSUME NEW c \in Conns, AcceptRoundRobin(t, c)
        PROVE  BatchesOK'
    <3>1. t = Acceptor
      BY <2>6, <1>2 DEF AcceptRoundRobin, Called, BatchesOK, ConnsOK, Typed
    <3>2. QED
      BY <2>6, <3>1 DEF AcceptRoundRobin, Called, Moved, Typed, BatchesOK, modeVars
  <2>7. ASSUME NEW c \in Conns, PostTrack(t, c)
        PROVE  BatchesOK'
    BY <2>7 DEF PostTrack, Moved, Typed, BatchesOK, modeVars
  <2>8. ASSUME NEW c \in Conns, AcceptHere(t, c) \/ Handle(t, c) \/ DispatchRefused(t, c)
        PROVE  BatchesOK'
    BY <2>8 DEF AcceptHere, Handle, DispatchRefused, StartRefused, Called, Moved, Typed, BatchesOK,
                modeVars
  <2>9. ASSUME NEW c \in Conns, Dispatch(t, c) \/ Submit(t, c) \/ SubmitRefused(t, c)
        PROVE  BatchesOK'
    BY <2>9 DEF Dispatch, Called, Submit, SubmitRefused, StartRefused, Moved, Typed, BatchesOK,
                modeVars
  <2>10. CASE LoopSpawns(t) \/ AppendTask(t)
    BY <2>10 DEF LoopSpawns, AppendTask, Typed, BatchesOK, modeVars, connVars
  <2>11. QED
    BY <1>4, <2>1, <2>2, <2>3, <2>4, <2>5, <2>6, <2>7, <2>8, <2>9, <2>10 DEF ThreadStep
<1>5. ASSUME NEW c \in Conns, WorkerStep(c) \/ Connects(c) \/ Sends(c)
      PROVE  BatchesOK'
  BY <1>5 DEF WorkerStep, WorkerTakes, HandlerReturns, HandlerCancelled, GiveBack, Connects, Sends,
              Moved, Typed, BatchesOK, selVars, modeVars
<1>6. CASE ServerStep \/ BindFails
  <2>1. CASE ServerStops
    <3>1. \A t \in Threads : batch[t] = {}
      BY <2>1 DEF ServerStops, LifeOK, BatchesOK
    <3>2. QED
      BY <2>1, <3>1 DEF ServerStops, BatchesOK, modeVars
  <2>2. CASE Bind \/ SetStarted \/ BindFails
    BY <1>3, <2>2 DEF Bind, SetStarted, BindFails, selVars, connVars
  <2>3. QED
    BY <1>6, <2>1, <2>2 DEF ServerStep
<1>7. CASE AppStep \/ AppShutdown \/ AppStop
  BY <1>3, <1>7 DEF AppStep, AppStarts, BindParent, AppLeaves, GroupDrained, GroupCloses,
                    ExecutorExits, MarkClosed, ExecutorLeft, AppStops, AppShutdown, AppStop, selVars, connVars
<1>8. CASE UNCHANGED vars
  BY <1>3, <1>8 DEF vars, selVars, connVars
<1>9. CASE PoolStep
  BY <1>3, <1>9 DEF PoolStep, HostRuns, WorkerLoops, WorkerLeaves, selVars, connVars
<1>10. QED
  BY <1>4, <1>5, <1>6, <1>7, <1>8, <1>9 DEF Next

\* Wherever a connection goes, its selector is one that takes it or closes it.
LEMMA NextConns ==
  ASSUME Typed, LifeOK, BatchesOK, ConnsOK, [Next]_vars
  PROVE  ConnsOK'
<1>1. UNCHANGED modeVars /\ UNCHANGED <<Used, Listeners>>
  BY SameTopology
<1>2. /\ Used \subseteq Threads /\ Listeners \subseteq Used
      /\ topology = "acceptor" => Used = Threads /\ Listeners = {Acceptor}
      /\ topology # "acceptor" => Listeners = Used
      /\ Acceptor \in Threads /\ 1..Selectors \subseteq Threads
  BY UsedFacts
<1> USE <1>1, <1>2
<1>3. CASE UNCHANGED <<thread, listening, place, home, late>>
  BY <1>3 DEF ConnsOK, modeVars
<1>4. ASSUME NEW t \in Threads, ThreadStep(t) \/ OpenFails(t)
      PROVE  ConnsOK'
  <2>1. CASE Open(t)
    BY <2>1 DEF Open, Typed, ConnsOK, modeVars, connVars
  <2>2. CASE OpenFails(t) \/ NeverRuns(t) \/ Check(t) \/ SetShuttingDown(t)
    BY <2>2 DEF OpenFails, NeverRuns, Check, SetShuttingDown, Typed, ConnsOK, modeVars,
                connVars
  <2>3. CASE Select(t)
    BY <2>3 DEF Select, At, Moved, Typed, ConnsOK, modeVars
  <2>4. CASE DrainWakeup(t)
    BY <2>4 DEF DrainWakeup, At, Moved, Typed, ConnsOK, modeVars, selVars
  <2>5. CASE CloseRegistered(t)
    BY <2>5 DEF CloseRegistered, Walk, At, Moved, Typed, ConnsOK, modeVars
  <2>7. ASSUME NEW c \in Conns, AcceptRoundRobin(t, c)
        PROVE  ConnsOK'
    <3>1. t = Acceptor /\ thread[t] = "batch"
      BY <2>7 DEF AcceptRoundRobin, Called, BatchesOK, ConnsOK, Typed
    <3>2. next + 1 \in 1..Selectors
      BY HttpServiceAssumption DEF Typed
    <3>3. QED
      BY <2>7, <3>1, <3>2 DEF AcceptRoundRobin, Moved, Typed, ConnsOK, modeVars
  <2>8. ASSUME NEW c \in Conns, PostTrack(t, c)
        PROVE  ConnsOK'
    <3>1. t = Acceptor
      BY <2>8 DEF PostTrack, BatchesOK
    <3>2. QED
      BY <2>8, <3>1 DEF PostTrack, Moved, Appended, Typed, ConnsOK, modeVars
  <2>9. ASSUME NEW c \in Conns,
               AcceptHere(t, c) \/ Handle(t, c) \/ Dispatch(t, c) \/ DispatchRefused(t, c)
        PROVE  ConnsOK'
    <3>1. thread[t] = "batch" /\ home[c] = t
      BY <2>9 DEF AcceptHere, Handle, Dispatch, DispatchRefused, Called, BatchesOK
    <3>2. t \in Used
      BY <3>1 DEF LifeOK
    <3>3. CASE AcceptHere(t, c) \/ Handle(t, c)
      BY <3>1, <3>2, <3>3 DEF AcceptHere, Handle, Moved, Typed, ConnsOK, modeVars, lifeVars
    <3>4. CASE DispatchRefused(t, c)
      BY <3>1, <3>2, <3>4 DEF DispatchRefused, StartRefused, Moved, Typed, ConnsOK, modeVars, lifeVars
    <3>5. CASE Dispatch(t, c)
      BY <3>1, <3>2, <3>5 DEF Dispatch, Moved, Typed, ConnsOK, modeVars, lifeVars
    <3>6. QED
      BY <2>9, <3>3, <3>4, <3>5
  <2>10. ASSUME NEW c \in Conns, Submit(t, c) \/ SubmitRefused(t, c)
         PROVE  ConnsOK'
    <3>1. home[c] = t /\ place[c] = "held" /\ thread[t] = "submit" /\ t \in Used
      BY <2>10 DEF Submit, SubmitRefused, LifeOK
    <3>2. \A d \in Conns : place[d] = "held" /\ home[d] = t => d = c
      BY <3>1 DEF ConnsOK
    <3>3. CASE Submit(t, c)
      BY <3>1, <3>2, <3>3 DEF Submit, Moved, Typed, ConnsOK, modeVars, lifeVars
    <3>4. CASE SubmitRefused(t, c)
      BY <3>1, <3>2, <3>4 DEF SubmitRefused, StartRefused, Moved, Typed, ConnsOK, modeVars, lifeVars
    <3>5. QED
      BY <2>10, <3>3, <3>4
  <2>11. CASE LoopSpawns(t) \/ AppendTask(t)
    BY <2>11 DEF LoopSpawns, AppendTask, Typed, ConnsOK, modeVars, connVars
  <2>12. QED
    BY <1>4, <2>1, <2>2, <2>3, <2>4, <2>5, <2>7, <2>8, <2>9, <2>10, <2>11 DEF ThreadStep
<1>5. ASSUME NEW c \in Conns, WorkerStep(c) \/ Connects(c) \/ Sends(c)
      PROVE  ConnsOK'
  <2>1. CASE WorkerTakes(c) \/ HandlerReturns(c) \/ HandlerCancelled(c) \/ Sends(c)
    BY <2>1 DEF WorkerTakes, HandlerReturns, HandlerCancelled, Sends, Moved, Typed, ConnsOK, selVars, modeVars
  <2>2. CASE GiveBack(c)
    BY <2>2 DEF GiveBack, Appended, Moved, Typed, ConnsOK, selVars, modeVars
  <2>3. CASE Connects(c)
    BY <2>3 DEF Connects, Typed, ConnsOK, selVars, modeVars
  <2>4. QED
    BY <1>5, <2>1, <2>2, <2>3 DEF WorkerStep
<1>6. CASE ServerStep \/ BindFails
  <2>1. CASE ServerStops
    BY <2>1 DEF ServerStops, Moved, Typed, ConnsOK, modeVars
  <2>2. CASE Bind
    BY <2>2 DEF Bind, ConnsOK, modeVars, connVars
  <2>3. CASE SetStarted \/ BindFails
    BY <1>3, <2>3 DEF SetStarted, BindFails, selVars, connVars
  <2>4. QED
    BY <1>6, <2>1, <2>2, <2>3 DEF ServerStep
<1>7. CASE AppStep \/ AppShutdown \/ AppStop
  BY <1>3, <1>7 DEF AppStep, AppStarts, BindParent, AppLeaves, GroupDrained, GroupCloses,
                    ExecutorExits, MarkClosed, ExecutorLeft, AppStops, AppShutdown, AppStop, selVars, connVars
<1>8. CASE UNCHANGED vars
  BY <1>3, <1>8 DEF vars, selVars, connVars
<1>9. CASE PoolStep
  BY <1>3, <1>9 DEF PoolStep, HostRuns, WorkerLoops, WorkerLeaves, selVars, connVars
<1>10. QED
  BY <1>4, <1>5, <1>6, <1>7, <1>8, <1>9 DEF Next

\* h11 tracks again what it could not dispatch; and with an executor of its own, before
\* a stop, what is queued has a worker from the submit to the end of the pool.
LEMMA NextHandlers ==
  ASSUME Typed, HandlersOK, [Next]_vars
  PROVE  HandlersOK'
<1>1. UNCHANGED modeVars
  BY SameTopology
<1> USE <1>1
<1>2. ASSUME UNCHANGED <<app, appCancelled, poolClosed, hosted, looping, idle>>,
             Lent' = Lent, Waiting' = Waiting, CondFree' = CondFree,
             \A c \in Conns : place'[c] = "forgotten" => place[c] = "forgotten"
      PROVE  HandlersOK'
  BY <1>2 DEF HandlersOK, modeVars
<1>3. ASSUME UNCHANGED <<app, appCancelled, poolClosed, hosted, looping, idle, thread, place>>
      PROVE  HandlersOK'
  <2>1. Lent' = Lent /\ Waiting' = Waiting
    BY <1>3 DEF Lent, Waiting
  <2>2. CondFree' = CondFree
    BY <1>3 DEF CondFree
  <2>3. QED
    BY <1>2, <1>3, <2>1, <2>2
<1>4. ASSUME NEW t \in Threads, ThreadStep(t) \/ OpenFails(t)
      PROVE  HandlersOK'
  <2>1. ASSUME thread[t] # "spawning", thread'[t] # "spawning",
               \A u \in Threads \ {t} : thread'[u] = thread[u]
        PROVE  CondFree' = CondFree
    BY <2>1 DEF CondFree
  <2>2. CASE Open(t) \/ OpenFails(t) \/ NeverRuns(t) \/ Check(t) \/ SetShuttingDown(t)
    <3>1. CondFree' = CondFree
      BY <2>1, <2>2 DEF Open, OpenFails, NeverRuns, Check, SetShuttingDown, Typed
    <3>2. UNCHANGED <<appVars, poolVars, place>>
      BY <2>2 DEF Open, OpenFails, NeverRuns, Check, SetShuttingDown, connVars
    <3>3. QED
      BY <1>2, <3>1, <3>2 DEF appVars, poolVars, Lent, Waiting
  <2>3. CASE Select(t) \/ DrainWakeup(t) \/ CloseRegistered(t)
    <3>1. CondFree' = CondFree
      BY <2>1, <2>3 DEF Select, DrainWakeup, CloseRegistered, Walk, Typed, selVars
    <3>2. UNCHANGED <<appVars, poolVars>>
      BY <2>3 DEF Select, DrainWakeup, CloseRegistered, Walk
    <3>3. \A c \in Conns : \/ place'[c] = place[c]
                           \/ /\ place[c] \in {"queued", "map", "backlog"}
                              /\ place'[c] \in {"map", "closed"}
      BY <2>3 DEF Select, DrainWakeup, CloseRegistered, Walk, At, Moved, Typed
    <3>4. Lent' = Lent /\ Waiting' = Waiting
      BY <3>3 DEF Lent, Waiting
    <3>5. QED
      BY <1>2, <3>1, <3>2, <3>3, <3>4 DEF appVars, poolVars
  <2>4. ASSUME NEW c \in Conns,
               AcceptHere(t, c) \/ AcceptRoundRobin(t, c) \/ PostTrack(t, c) \/ Handle(t, c)
        PROVE  HandlersOK'
    <3>1. CondFree' = CondFree
      BY <2>1, <2>4 DEF AcceptHere, AcceptRoundRobin, PostTrack, Handle, Called, Typed
    <3>2. UNCHANGED <<appVars, poolVars>>
      BY <2>4 DEF AcceptHere, AcceptRoundRobin, PostTrack, Handle
    <3>3. \A d \in Conns : \/ place'[d] = place[d]
                           \/ /\ place[d] \in {"backlog", "posting"}
                              /\ place'[d] \in {"map", "closed", "posting", "queued"}
      BY <2>4 DEF AcceptHere, AcceptRoundRobin, PostTrack, Handle, Moved, Typed
    <3>4. Lent' = Lent /\ Waiting' = Waiting
      BY <3>3 DEF Lent, Waiting
    <3>5. QED
      BY <1>2, <3>1, <3>2, <3>3, <3>4 DEF appVars, poolVars
  <2>5. ASSUME NEW c \in Conns,
               Dispatch(t, c) \/ DispatchRefused(t, c) \/ SubmitRefused(t, c)
        PROVE  HandlersOK'
    <3>1. CondFree' = CondFree
      BY <2>1, <2>5 DEF Dispatch, DispatchRefused, SubmitRefused, Called, Typed
    <3>2. UNCHANGED <<app, appCancelled, poolClosed, hosted, looping, idle>>
      BY <2>5 DEF Dispatch, DispatchRefused, SubmitRefused, appVars, poolVars
    <3>3. \A d \in Conns : \/ place'[d] = place[d]
                           \/ /\ place[d] \in {"map", "held"}
                              /\ place'[d] \in {"map", "held", "forgotten"}
      BY <2>5 DEF Dispatch, DispatchRefused, SubmitRefused, StartRefused, Moved, Typed
    <3>4. Lent' = Lent /\ Waiting' = Waiting
      BY <3>3 DEF Lent, Waiting
    <3>5. ASSUME Backend = "h11", NEW d \in Conns, place'[d] = "forgotten"
          PROVE  place[d] = "forgotten"
      BY <2>5, <3>5 DEF Dispatch, DispatchRefused, SubmitRefused, StartRefused, Moved, Typed
    <3>6. QED
      BY <3>1, <3>2, <3>4, <3>5 DEF HandlersOK, modeVars
  <2>6. ASSUME NEW c \in Conns, Submit(t, c)
        PROVE  HandlersOK'
    <3>1. UNCHANGED <<app, appCancelled, poolClosed, hosted, looping, idle>>
      BY <2>6 DEF Submit, appVars, poolVars
    <3>2. /\ place[c] = "held" /\ place'[c] = "waiting"
          /\ \A d \in Conns \ {c} : place'[d] = place[d]
      BY <2>6 DEF Submit, Moved, Typed
    <3>3. Lent' = Lent
      BY <3>2 DEF Lent
    <3>4. ASSUME executor = "own"
          PROVE  idle > 0 \/ ~CondFree'
      BY <2>6, <3>4 DEF Submit, Typed, CondFree
    <3>5. ASSUME executor = "own"
          PROVE  CondFree /\ ~poolClosed
      BY <2>6, <3>5 DEF Submit
    <3>6. ASSUME executor = "own", Waiting' # {}, ~appCancelled'
          PROVE  hosted' + looping' + idle' > 0 \/ Lent' # {} \/ ~CondFree'
      BY <3>1, <3>4, <3>6 DEF Typed
    <3>7. ASSUME executor = "own" PROVE app' \notin {"executor", "left", "stopped"}
      BY <3>1, <3>5, <3>7 DEF HandlersOK
    <3>8. Backend = "h11" => \A d \in Conns : place'[d] # "forgotten"
      BY <3>2 DEF HandlersOK
    <3>9. QED
      BY <3>6, <3>7, <3>8 DEF HandlersOK, modeVars
  <2>7. CASE LoopSpawns(t)
    <3>1. UNCHANGED <<app, appCancelled, poolClosed, looping, idle, place>> /\ hosted' = hosted + 1
      BY <2>7 DEF LoopSpawns, appVars, connVars
    <3>2. ~CondFree
      BY <2>7 DEF LoopSpawns, CondFree
    <3>3. hosted' + looping' + idle' > 0
      BY <3>1 DEF Typed
    <3>4. QED
      BY <3>1, <3>2, <3>3 DEF HandlersOK, modeVars
  <2>8. CASE AppendTask(t)
    <3>1. CondFree' = CondFree
      BY <2>1, <2>8 DEF AppendTask, Typed
    <3>2. UNCHANGED <<app, appCancelled, poolClosed, hosted, looping, idle, place>>
      BY <2>8 DEF AppendTask, appVars, connVars
    <3>3. QED
      BY <1>2, <3>1, <3>2 DEF Lent, Waiting
  <2>9. QED
    BY <1>4, <2>2, <2>3, <2>4, <2>5, <2>6, <2>7, <2>8 DEF ThreadStep
<1>5. ASSUME NEW c \in Conns, WorkerStep(c)
      PROVE  HandlersOK'
  <2>1. UNCHANGED <<app, appCancelled, poolClosed, hosted, thread>>
    BY <1>5 DEF WorkerStep, WorkerTakes, HandlerReturns, HandlerCancelled, GiveBack, TaskOver,
                appVars, poolVars, selVars
  <2>2. CondFree' = CondFree
    BY <2>1 DEF CondFree
  <2>3. Backend = "h11" => \A d \in Conns : place'[d] # "forgotten"
    BY <1>5 DEF WorkerStep, WorkerTakes, HandlerReturns, HandlerCancelled, GiveBack, Moved,
                Typed, HandlersOK
  <2>4. ASSUME executor = "own", WorkerTakes(c)
        PROVE  HandlersOK'
    <3>1. idle > 0 /\ c \in Lent' /\ c \in Waiting
      BY <2>4 DEF WorkerTakes, Moved, Typed, Lent, Waiting
    <3>2. app \notin {"left", "stopped"}
      BY <2>4, <3>1 DEF HandlersOK
    <3>3. QED
      BY <2>1, <2>2, <2>3, <3>1, <3>2 DEF HandlersOK, modeVars
  <2>5. ASSUME executor = "own", HandlerReturns(c) \/ HandlerCancelled(c) \/ GiveBack(c)
        PROVE  HandlersOK'
    <3>1. c \in Lent
      BY <2>5 DEF HandlerReturns, HandlerCancelled, GiveBack, Lent
    <3>2. app \notin {"left", "stopped"}
      BY <2>5, <3>1 DEF HandlersOK
    <3>3. idle' = idle /\ (looping' = looping + 1 \/ c \in Lent')
      BY <2>5 DEF HandlerReturns, HandlerCancelled, GiveBack, TaskOver, poolVars, Moved, Typed, Lent
    <3>4. hosted' + looping' + idle' > 0 \/ Lent' # {}
      BY <2>1, <3>3 DEF Typed
    <3>5. QED
      BY <2>1, <2>2, <2>3, <3>2, <3>4 DEF HandlersOK, modeVars
  <2>6. CASE executor # "own"
    BY <2>3, <2>6 DEF HandlersOK, modeVars
  <2>7. QED
    BY <1>5, <2>4, <2>5, <2>6 DEF WorkerStep
<1>6. ASSUME NEW c \in Conns, Connects(c) \/ Sends(c)
      PROVE  HandlersOK'
  <2>1. UNCHANGED <<app, appCancelled, poolClosed, hosted, looping, idle, thread>>
    BY <1>6 DEF Connects, Sends, appVars, poolVars, selVars
  <2>2. \A d \in Conns : place'[d] = place[d] \/ (place[d] = "new" /\ place'[d] = "backlog")
    BY <1>6 DEF Connects, Sends, Typed
  <2>3. Lent' = Lent /\ Waiting' = Waiting
    BY <2>2 DEF Lent, Waiting
  <2>4. CondFree' = CondFree
    BY <2>1 DEF CondFree
  <2>5. QED
    BY <1>2, <2>1, <2>2, <2>3, <2>4
<1>7. CASE ServerStep \/ BindFails
  <2>1. CASE ServerStops
    <3>1. UNCHANGED <<app, appCancelled, poolClosed, hosted, looping, idle, thread>>
      BY <2>1 DEF ServerStops, appVars, poolVars
    <3>2. \A d \in Conns : place'[d] = place[d] \/ (place[d] = "backlog" /\ place'[d] = "closed")
      BY <2>1 DEF ServerStops, Moved, Typed
    <3>3. Lent' = Lent /\ Waiting' = Waiting
      BY <3>2 DEF Lent, Waiting
    <3>4. CondFree' = CondFree
      BY <3>1 DEF CondFree
    <3>5. QED
      BY <1>2, <3>1, <3>2, <3>3, <3>4
  <2>2. CASE Bind \/ SetStarted \/ BindFails
    BY <1>3, <2>2 DEF Bind, SetStarted, BindFails, appVars, poolVars, selVars, connVars
  <2>3. QED
    BY <1>7, <2>1, <2>2 DEF ServerStep
<1>8. CASE AppStep \/ AppShutdown \/ AppStop
  <2>1. UNCHANGED <<hosted, looping, idle, thread, place>>
    BY <1>8 DEF AppStep, AppStarts, BindParent, AppLeaves, GroupDrained, GroupCloses,
                ExecutorExits, MarkClosed, ExecutorLeft, AppStops, AppShutdown, AppStop, poolVars,
                selVars, connVars
  <2>2. CondFree' = CondFree /\ Lent' = Lent /\ Waiting' = Waiting
    BY <2>1 DEF CondFree, Lent, Waiting
  <2>3. appCancelled => appCancelled'
    BY <1>8 DEF AppStep, AppStarts, BindParent, AppLeaves, GroupDrained, GroupCloses,
                ExecutorExits, MarkClosed, ExecutorLeft, AppStops, AppShutdown, AppStop, Typed
  <2>4. executor = "own" /\ app' \in {"executor", "left", "stopped"} => poolClosed' /\ CondFree
    BY <1>8 DEF AppStep, AppStarts, BindParent, AppLeaves, GroupDrained, GroupCloses,
                ExecutorExits, MarkClosed, ExecutorLeft, AppStops, AppShutdown, AppStop, poolVars,
                HandlersOK
  <2>5. executor = "own" /\ app' \in {"left", "stopped"} =>
          Lent = {} /\ hosted = 0 /\ looping = 0 /\ idle = 0
    BY <1>8 DEF AppStep, AppStarts, BindParent, AppLeaves, GroupDrained, GroupCloses,
                ExecutorExits, MarkClosed, ExecutorLeft, AppStops, AppShutdown, AppStop, HandlersOK
  <2>6. QED
    BY <2>1, <2>2, <2>3, <2>4, <2>5 DEF HandlersOK, modeVars
<1>9. CASE UNCHANGED vars
  BY <1>3, <1>9 DEF vars, appVars, poolVars, selVars, connVars
<1>10. CASE PoolStep
  <2>1. UNCHANGED <<app, appCancelled, poolClosed, thread, place>>
    BY <1>10 DEF PoolStep, HostRuns, WorkerLoops, WorkerLeaves, appVars, selVars, connVars
  <2>2. CondFree' = CondFree /\ Lent' = Lent /\ Waiting' = Waiting
    BY <2>1 DEF CondFree, Lent, Waiting
  <2>3. hosted + looping + idle > 0
    BY <1>10 DEF PoolStep, HostRuns, WorkerLoops, WorkerLeaves, Typed
  <2>4. executor = "own" => app \notin {"left", "stopped"}
    BY <2>3 DEF HandlersOK
  <2>5. Waiting # {} /\ ~appCancelled => hosted' + looping' + idle' > 0
    BY <1>10 DEF PoolStep, HostRuns, WorkerLoops, WorkerLeaves, Typed
  <2>6. QED
    BY <2>1, <2>2, <2>4, <2>5 DEF HandlersOK, modeVars
<1>11. QED
  BY <1>4, <1>5, <1>6, <1>7, <1>8, <1>9, <1>10 DEF Next

-----------------------------------------------------------------------------
\* The invariant is kept by every step.
LEMMA NextSInv == SInv /\ [Next]_vars => SInv'
  BY NextTyped, NextLife, NextBatches, NextConns, NextHandlers DEF SInv

\* What the invariant says when nobody dispatches to a closed group on httptools.
LEMMA SInvSafe == ASSUME Backend = "h11" PROVE SInv => ServiceSafe
<1> SUFFICES ASSUME SInv PROVE ServiceSafe
  OBVIOUS
<1>1. /\ Used \subseteq Threads /\ Used # {} /\ Listeners \subseteq Used
      /\ topology = "acceptor" => Used = Threads /\ Listeners = {Acceptor}
      /\ topology # "acceptor" => Listeners = Used
      /\ Acceptor \in Threads
  BY UsedFacts DEF SInv
<1>2. ASSUME stopped, NEW c \in Conns
      PROVE  place[c] \in {"new", "closed", "waiting", "lent", "returning"} \/ Stray(c)
  <2>1. place[c] \notin {"forgotten", "backlog"}
    BY <1>2 DEF SInv, HandlersOK, ConnsOK, LifeOK
  <2>2. CASE \A t \in Used : thread[t] \in {"done", "never"}
    BY <1>1, <2>1, <2>2 DEF SInv, ConnsOK, Typed, Places, Stray
  <2>3. CASE topology = "acceptor" /\ \A t \in Threads : thread[t] \in {"new", "never"}
    BY <1>1, <2>1, <2>3 DEF SInv, ConnsOK, Typed, Places
  <2>4. QED
    BY <1>2, <2>2, <2>3 DEF SInv, LifeOK
<1>3. ASSUME app \in {"left", "stopped"}, executor = "own"
      PROVE  Lent = {} /\ (Waiting = {} \/ appCancelled)
  BY <1>3 DEF SInv, HandlersOK
<1>4. ASSUME started, ~shutting, ~cancelled
      PROVE  /\ \A t \in Used : thread[t] \notin {"new", "never"} \cup Ended
             /\ listening = Listeners
  <2>1. \A t \in Used : thread[t] \notin {"new", "never"} \cup Ended
    BY <1>1, <1>4 DEF SInv, LifeOK, Typed, Stages, Ended
  <2>2. ~stopped
    BY <1>1, <1>4, <2>1 DEF SInv, LifeOK, Ended
  <2>3. CASE topology = "acceptor"
    <3>1. Listeners = {Acceptor} /\ listening \subseteq Listeners
      BY <1>1, <2>3 DEF SInv, Typed
    <3>2. listening # {}
      BY <1>1, <2>1, <2>2, <2>3 DEF SInv, LifeOK, Ended
    <3>3. QED
      BY <2>1, <3>1, <3>2
  <2>4. CASE topology # "acceptor"
    <3>1. Listeners = Used /\ listening \subseteq Listeners /\ Used \subseteq Threads
      BY <1>1, <2>4 DEF SInv, Typed
    <3>2. \A t \in Used : t \in listening
      BY <2>1, <2>4, <3>1 DEF SInv, LifeOK, Ended
    <3>3. QED
      BY <2>1, <3>1, <3>2
  <2>5. QED
    BY <2>3, <2>4
<1>5. QED
  BY <1>2, <1>3, <1>4 DEF ServiceSafe, LeavesNothing, StartedMeansListening, Ended

\* Whatever the topology, the executor and the number of selectors and connections: an
\* h11 server that has stopped has closed all its connections but strays and those the
\* executor has; an application that has left an executor of its own has no handler
\* running on it, and nothing in its queue unless stop() was called; and a server that
\* has started serves on every selector and socket until it is told to end (run_single,
\* run_multi, _run_acceptor, AsyncWorkerExecutor.__aexit__).
THEOREM ServiceIsSafe == ASSUME Backend = "h11" PROVE Spec => []ServiceSafe
<1>1. Init => SInv
  BY InitSInv
<1>2. SInv /\ [Next]_vars => SInv'
  BY NextSInv
<1>3. SInv => ServiceSafe
  BY SInvSafe
<1>4. QED
  BY <1>1, <1>2, <1>3, PTL DEF Spec

-----------------------------------------------------------------------------
(* The served file and the client's copies of it *)

Files == [version : Nat \ {0}, size : Nat, mtime : Nat]

\* What was the file at some moment, and what it was later: a later version
\* has a later time.
Precedes(old, new) ==
    /\ old.version <= new.version
    /\ old.version = new.version => old = new
    /\ old.version < new.version => old.mtime < new.mtime

\* The conditional headers of a request are the validators of the copy.
ConditionsOK(headers) ==
    /\ "if-none-match" \in DOMAIN headers =>
          /\ copy # NoFile
          /\ headers["if-none-match"] = [any |-> FALSE, tags |-> {[weak |-> TRUE, of |-> Etag(copy)]}]
    /\ "if-modified-since" \in DOMAIN headers =>
          copy # NoFile /\ headers["if-modified-since"] = LastModified(copy)

CopiesInv ==
    /\ file \in Files
    /\ stat = NoFile \/ (stat \in Files /\ Precedes(stat, file))
    /\ copy = NoFile \/ (copy \in Files /\ Precedes(copy, file))
    /\ stat # NoFile =>
          /\ pc = "send" /\ doing = Serve(req, stat)
          /\ copy = NoFile \/ Precedes(copy, stat)
    /\ pc \in {"dispatch", "stat", "send"} => ConditionsOK(req.headers)

LEMMA NoFileIsNoFile == \A f \in Files : f # NoFile
BY DEF Files, NoFile

LEMMA PrecedesItself == \A f \in Files : Precedes(f, f)
BY DEF Precedes, Files

LEMMA PrecedesAll ==
  ASSUME NEW a \in Files, NEW b \in Files, NEW c \in Files, Precedes(a, b), Precedes(b, c)
  PROVE  Precedes(a, c)
BY DEF Precedes, Files

\* What a response of the static handler says and does.
LEMMA SendFileStatus ==
  ASSUME NEW m, NEW s, NEW o, NEW l
  PROVE  /\ SendFile(m, s, o, l, TRUE).do \in {"complete", "sendfile"}
         /\ SendFile(m, s, o, l, TRUE).response.status = 206
         /\ SendFile(m, s, o, l, FALSE).do \in {"complete", "sendfile"}
         /\ SendFile(m, s, o, l, FALSE).response.status = 200
BY DEF SendFile

LEMMA ServeStatus ==
  ASSUME NEW r, NEW s
  PROVE  /\ Serve(r, s).do \in {"complete", "sendfile"}
         /\ Serve(r, s).response.status = 304 <=> NotModified(r, s)
<1> DEFINE range == IF "range" \in DOMAIN r.headers
                    THEN ParseRange(r.headers["range"], s.size)
                    ELSE [kind |-> "ignored"]
<1>0. Serve(r, s) = CASE NotModified(r, s) -> SendNotModified(s)
        [] ~NotModified(r, s) /\ range.kind = "unsatisfiable" ->
             SendRangeNotSatisfiable(r.method, s)
        [] ~NotModified(r, s) /\ range.kind = "slice" ->
             SendFile(r.method, s, range.offset, range.length, TRUE)
        [] OTHER -> SendFile(r.method, s, 0, s.size, FALSE)
  BY Zenon DEF Serve
<1> HIDE DEF range
<1>1. SendNotModified(s).do = "complete" /\ SendNotModified(s).response.status = 304
  BY DEF SendNotModified
<1>2. /\ SendRangeNotSatisfiable(r.method, s).do = "complete"
      /\ SendRangeNotSatisfiable(r.method, s).response.status = 416
  BY DEF SendRangeNotSatisfiable, Text
<1>3. CASE NotModified(r, s)
  BY <1>0, <1>1, <1>3
<1>4. CASE ~NotModified(r, s) /\ range.kind = "unsatisfiable"
  BY <1>0, <1>2, <1>4
<1>5. CASE ~NotModified(r, s) /\ range.kind # "unsatisfiable" /\ range.kind = "slice"
  <2>1. Serve(r, s) = SendFile(r.method, s, range.offset, range.length, TRUE)
    BY <1>0, <1>5
  <2>2. Serve(r, s).do \in {"complete", "sendfile"} /\ Serve(r, s).response.status = 206
    BY <2>1 DEF SendFile
  <2>3. QED
    BY <1>5, <2>2
<1>6. CASE ~NotModified(r, s) /\ range.kind # "unsatisfiable" /\ range.kind # "slice"
  <2>1. Serve(r, s) = SendFile(r.method, s, 0, s.size, FALSE)
    BY <1>0, <1>6
  <2>2. Serve(r, s).do \in {"complete", "sendfile"} /\ Serve(r, s).response.status = 200
    BY <2>1 DEF SendFile
  <2>3. QED
    BY <1>6, <2>2
<1>7. QED
  BY <1>3, <1>4, <1>5, <1>6

\* The headers a request may have: its own and some of the copy's validators.
LEMMA ConditionsAreOK ==
  ASSUME NEW headers, NEW h \in Conditions(headers),
         {"if-none-match", "if-modified-since"} \cap DOMAIN headers = {}
  PROVE  /\ ConditionsOK(h)
         /\ \A n \in DOMAIN headers : n \in DOMAIN h /\ h[n] = headers[n]
         /\ \A n \in DOMAIN h \ DOMAIN headers : n \in {"if-none-match", "if-modified-since"}
<1> DEFINE tag == "if-none-match" :> [any |-> FALSE, tags |-> {[weak |-> TRUE, of |-> Etag(copy)]}]
           date == "if-modified-since" :> LastModified(copy)
           both == tag @@ date
<1>1. /\ DOMAIN tag = {"if-none-match"}
      /\ tag["if-none-match"] = [any |-> FALSE, tags |-> {[weak |-> TRUE, of |-> Etag(copy)]}]
  BY DEF :>
<1>2. DOMAIN date = {"if-modified-since"} /\ date["if-modified-since"] = LastModified(copy)
  BY DEF :>
<1>3. \/ h = headers
      \/ copy # NoFile /\ (h = tag @@ headers \/ h = date @@ headers \/ h = both @@ headers)
  BY DEF Conditions
<1> HIDE DEF tag, date
<1>4. /\ DOMAIN both = {"if-none-match", "if-modified-since"}
      /\ both["if-none-match"] = tag["if-none-match"]
      /\ both["if-modified-since"] = date["if-modified-since"]
  <2>1. /\ DOMAIN both = DOMAIN tag \cup DOMAIN date
        /\ \A n \in DOMAIN tag : both[n] = tag[n]
        /\ \A n \in DOMAIN date \ DOMAIN tag : both[n] = date[n]
    BY DEF @@
  <2> HIDE DEF both
  <2>2. QED
    BY <1>1, <1>2, <2>1
<1> HIDE DEF both
<1>5. CASE h = headers
  BY <1>5 DEF ConditionsOK
<1>6. ASSUME NEW f, h = f @@ headers, copy # NoFile,
             DOMAIN f \subseteq {"if-none-match", "if-modified-since"},
             "if-none-match" \in DOMAIN f =>
               f["if-none-match"] = [any |-> FALSE, tags |-> {[weak |-> TRUE, of |-> Etag(copy)]}],
             "if-modified-since" \in DOMAIN f => f["if-modified-since"] = LastModified(copy)
      PROVE  /\ ConditionsOK(h)
             /\ \A n \in DOMAIN headers : n \in DOMAIN h /\ h[n] = headers[n]
             /\ \A n \in DOMAIN h \ DOMAIN headers : n \in {"if-none-match", "if-modified-since"}
  <2>1. /\ DOMAIN h = DOMAIN f \cup DOMAIN headers
        /\ \A n \in DOMAIN f : h[n] = f[n]
        /\ \A n \in DOMAIN headers \ DOMAIN f : h[n] = headers[n]
    BY <1>6 DEF @@
  <2>2. \A n \in DOMAIN headers : n \in DOMAIN h /\ h[n] = headers[n]
    BY <1>6, <2>1
  <2>3. \A n \in DOMAIN h \ DOMAIN headers : n \in {"if-none-match", "if-modified-since"}
    BY <1>6, <2>1
  <2>4. "if-none-match" \in DOMAIN h =>
          h["if-none-match"] = [any |-> FALSE, tags |-> {[weak |-> TRUE, of |-> Etag(copy)]}]
    BY <1>6, <2>1
  <2>5. "if-modified-since" \in DOMAIN h => h["if-modified-since"] = LastModified(copy)
    BY <1>6, <2>1
  <2>6. QED
    BY <1>6, <2>2, <2>3, <2>4, <2>5 DEF ConditionsOK
<1>7. CASE copy # NoFile /\ h = tag @@ headers
  BY <1>1, <1>6, <1>7
<1>8. CASE copy # NoFile /\ h = date @@ headers
  BY <1>2, <1>6, <1>8
<1>9. CASE copy # NoFile /\ h = both @@ headers
  BY <1>1, <1>2, <1>4, <1>6, <1>9
<1>10. QED
  BY <1>3, <1>5, <1>7, <1>8, <1>9

\* The request that a client sends is the one it chose, with those headers.
LEMMA ReceivedRequest ==
  ASSUME NEW r \in Requests, NEW accept, NEW headers,
         req' = [r EXCEPT !.headers = headers] @@ [accept |-> accept]
  PROVE  /\ req'.headers = headers
         /\ \A f \in DOMAIN r \ {"headers"} : req'[f] = r[f]
         /\ "accept" \notin DOMAIN r => req'.accept = accept
<1> DEFINE with == [r EXCEPT !.headers = headers]
           rest == [accept |-> accept]
<1>1. /\ DOMAIN with = DOMAIN r /\ with["headers"] = headers
      /\ \A f \in DOMAIN r \ {"headers"} : with[f] = r[f]
  BY FilesAssumption
<1>2. DOMAIN rest = {"accept"} /\ rest["accept"] = accept
  OBVIOUS
<1>3. req' = with @@ rest
  OBVIOUS
<1> HIDE DEF with, rest
<1>4. /\ \A n \in DOMAIN with : req'[n] = with[n]
      /\ \A n \in DOMAIN rest \ DOMAIN with : req'[n] = rest[n]
  BY <1>3 DEF @@
<1>5. "headers" \in DOMAIN r
  BY FilesAssumption
<1>6. QED
  BY <1>1, <1>2, <1>4, <1>5

LEMMA InitCopies == AppInit => CopiesInv
<1> SUFFICES ASSUME AppInit PROVE CopiesInv
  OBVIOUS
<1>1. file \in Files
  <2>1. PICK s \in Sizes : file = [version |-> 1, size |-> s, mtime |-> 0]
    BY DEF AppInit
  <2>2. QED
    BY <2>1, FilesAssumption DEF Files
<1>2. pc \notin {"dispatch", "stat", "send"}
  BY DEF AppInit
<1>3. QED
  BY <1>1, <1>2 DEF AppInit, CopiesInv

\* The file is rewritten: what it was precedes what it becomes.
LEMMA WriteCopies ==
  ASSUME CopiesInv, NEW s \in Sizes, NEW l \in {1, 2}, Write(s, l)
  PROVE  CopiesInv'
<1>1. file' \in Files /\ Precedes(file, file')
  BY FilesAssumption DEF Write, CopiesInv, Files, Precedes
<1>2. UNCHANGED <<pc, req, stat, doing, copy>>
  BY DEF Write
<1>3. stat = NoFile \/ (stat \in Files /\ Precedes(stat, file'))
  BY <1>1, PrecedesAll DEF CopiesInv
<1>4. copy = NoFile \/ (copy \in Files /\ Precedes(copy, file'))
  BY <1>1, PrecedesAll DEF CopiesInv
<1>5. ConditionsOK(req.headers) => ConditionsOK(req.headers)'
  BY <1>2 DEF ConditionsOK, Etag, LastModified
<1>6. Serve(req, stat)' = Serve(req, stat)
  BY <1>2
<1>7. QED
  BY <1>1, <1>2, <1>3, <1>4, <1>5, <1>6 DEF CopiesInv

\* The handler takes its stat, of the file as it is now.
LEMMA StatCopies == CopiesInv /\ Stat => CopiesInv'
<1> SUFFICES ASSUME CopiesInv, Stat PROVE CopiesInv'
  OBVIOUS
<1>1. UNCHANGED <<file, req, copy>> /\ stat' = file /\ pc' = "send" /\ pc = "stat"
  BY DEF Stat
<1>2. stat' \in Files /\ Precedes(stat', file')
  BY <1>1, PrecedesItself DEF CopiesInv
<1>3. doing' = Serve(req', stat')
  BY <1>1 DEF Stat
<1>4. ConditionsOK(req.headers)'
  BY <1>1 DEF CopiesInv, ConditionsOK, Etag, LastModified
<1>5. copy' = NoFile \/ (copy' \in Files /\ Precedes(copy', file') /\ Precedes(copy', stat'))
  BY <1>1 DEF CopiesInv
<1>6. QED
  BY <1>1, <1>2, <1>3, <1>4, <1>5 DEF CopiesInv

LEMMA ReceiveCopies ==
  ASSUME CopiesInv, NEW r \in Requests, NEW a, Receive(r, a)
  PROVE  CopiesInv'
<1>1. pc = "idle" /\ pc' = "dispatch" /\ UNCHANGED <<file, stat, copy>>
  BY DEF Receive
<1>2. PICK headers \in Conditions(r.headers) :
         req' = [r EXCEPT !.headers = headers] @@ [accept |-> a]
  BY DEF Receive
<1>3. req'.headers = headers
  BY <1>2, ReceivedRequest
<1>4. ConditionsOK(headers)
  BY FilesAssumption, ConditionsAreOK
<1>5. ConditionsOK(req.headers)'
  BY <1>1, <1>3, <1>4 DEF ConditionsOK, Etag, LastModified
<1>6. stat = NoFile
  BY <1>1 DEF CopiesInv
<1>7. QED
  BY <1>1, <1>5, <1>6 DEF CopiesInv

\* A response ends the request; what the client keeps is what was taken of the file.
LEMMA SentCopies == CopiesInv /\ (SendComplete \/ SendFileBytes) => CopiesInv'
<1> SUFFICES ASSUME CopiesInv, SendComplete \/ SendFileBytes PROVE CopiesInv'
  OBVIOUS
<1>1. pc' = "answered" /\ stat' = NoFile /\ file' = file /\ copy' \in {copy, stat}
  BY DEF SendComplete, SendFileBytes, Kept
<1>2. QED
  BY <1>1 DEF CopiesInv

\* The other steps leave the file and its copies alone.
LEMMA OtherCopies ==
  ASSUME CopiesInv, UNCHANGED <<file, stat, copy>>, stat = NoFile,
         \/ UNCHANGED req
         \/ pc' \notin {"dispatch", "stat", "send"},
         pc' \in {"dispatch", "stat", "send"} => pc \in {"dispatch", "stat", "send"}
  PROVE  CopiesInv'
<1>1. ConditionsOK(req.headers) /\ UNCHANGED req => ConditionsOK(req.headers)'
  BY DEF ConditionsOK, Etag, LastModified
<1>2. QED
  BY <1>1 DEF CopiesInv

LEMMA NextCopies == CopiesInv /\ [AppNext]_avars => CopiesInv'
<1> SUFFICES ASSUME CopiesInv, [AppNext]_avars PROVE CopiesInv'
  OBVIOUS
<1>1. ASSUME NEW r \in Registrable, Register(r) PROVE CopiesInv'
  <2>1. pc = "register" /\ UNCHANGED <<pc, file, stat, copy>>
    BY <1>1 DEF Register
  <2>2. QED
    BY <2>1, OtherCopies DEF CopiesInv
<1>2. ASSUME Build \/ BuildRefused PROVE CopiesInv'
  <2>1. pc = "register" /\ pc' \in {"register", "idle"} /\ UNCHANGED <<file, stat, copy>>
    BY <1>2 DEF Build, BuildRefused
  <2>2. QED
    BY <2>1, OtherCopies DEF CopiesInv
<1>3. ASSUME NEW r \in Requests, NEW a \in Accepts, Receive(r, a) PROVE CopiesInv'
  BY <1>3, ReceiveCopies
<1>4. CASE DispatchRequest
  <2>1. pc = "dispatch" /\ UNCHANGED <<req, file, stat, copy>>
    BY <1>4 DEF DispatchRequest
  <2>2. QED
    BY <2>1, OtherCopies DEF CopiesInv
<1>5. CASE Stat
  BY <1>5, StatCopies
<1>6. CASE SendComplete \/ SendFileBytes
  BY <1>6, SentCopies
<1>7. CASE SendStart
  <2>1. stat = NoFile
    BY <1>7, ServeStatus DEF SendStart, CopiesInv
  <2>2. pc' = "stream" /\ UNCHANGED <<file, stat, copy>>
    BY <1>7 DEF SendStart
  <2>3. QED
    BY <2>1, <2>2, OtherCopies
<1>8. CASE SendChunk \/ SendEnd
  <2>1. /\ pc = "stream" /\ pc' \in {"stream", "answered"}
        /\ UNCHANGED <<file, stat, copy>>
    BY <1>8 DEF SendChunk, SendEnd
  <2>2. QED
    BY <2>1, OtherCopies DEF CopiesInv
<1>9. CASE Answered
  <2>1. pc = "answered" /\ pc' = "idle" /\ UNCHANGED <<file, stat, copy>>
    BY <1>9 DEF Answered
  <2>2. QED
    BY <2>1, OtherCopies DEF CopiesInv
<1>10. ASSUME NEW s \in Sizes, NEW l \in {1, 2}, Write(s, l) PROVE CopiesInv'
  BY <1>10, WriteCopies
<1>11. CASE UNCHANGED avars
  <2>1. UNCHANGED <<file, stat, copy, req, pc, doing>>
    BY <1>11 DEF avars
  <2>2. ConditionsOK(req.headers) <=> ConditionsOK(req.headers)'
    BY <2>1 DEF ConditionsOK, Etag, LastModified
  <2>3. QED
    BY <2>1, <2>2 DEF CopiesInv
<1>12. QED
  BY <1>1, <1>2, <1>3, <1>4, <1>5, <1>6, <1>7, <1>8, <1>9, <1>10, <1>11 DEF AppNext

LEMMA CopiesSafe == CopiesInv => NotModifiedIsTrue
<1> SUFFICES ASSUME CopiesInv, pc = "send", stat # NoFile
             PROVE  LET tagged == "if-none-match" \in DOMAIN req.headers
                    IN  /\ doing.response.status = 304 =>
                             \/ copy.version = stat.version
                             \/ ~tagged /\ Second(copy.mtime) = Second(stat.mtime)
                        /\ (tagged /\ copy.version = stat.version) => doing.response.status = 304
  BY DEF NotModifiedIsTrue
<1>1. doing.response.status = 304 <=> NotModified(req, stat)
  BY ServeStatus DEF CopiesInv
<1>2. ConditionsOK(req.headers) /\ stat \in Files /\ (copy = NoFile \/ (copy \in Files /\ Precedes(copy, stat)))
  BY DEF CopiesInv
<1>3. CASE "if-none-match" \in DOMAIN req.headers
  <2>1. copy \in Files /\ Precedes(copy, stat)
    BY <1>2, <1>3 DEF ConditionsOK
  <2>2. NotModified(req, stat) <=> Etag(copy) = Etag(stat)
    <3> DEFINE given == req.headers["if-none-match"]
    <3>1. given = [any |-> FALSE, tags |-> {[weak |-> TRUE, of |-> Etag(copy)]}]
      BY <1>2, <1>3 DEF ConditionsOK
    <3>2. NotModified(req, stat) <=> IfNoneMatchMatches(given, Etag(stat))
      BY <1>3 DEF NotModified
    <3> HIDE DEF given
    <3>3. /\ ~given.any
          /\ \A t \in given.tags : t.of = Etag(copy)
          /\ [weak |-> TRUE, of |-> Etag(copy)] \in given.tags
      BY <3>1
    <3>4. IfNoneMatchMatches(given, Etag(stat)) <=> Etag(copy) = Etag(stat)
      BY <3>3 DEF IfNoneMatchMatches
    <3>5. QED
      BY <3>2, <3>4
  <2>3. Etag(copy) = Etag(stat) <=> copy.version = stat.version
    BY <1>2, <2>1 DEF Etag, Precedes, Files
  <2>4. QED
    BY <1>1, <1>3, <2>2, <2>3
<1>4. CASE "if-none-match" \notin DOMAIN req.headers
  <2>1. SUFFICES ASSUME NotModified(req, stat)
                 PROVE  Second(copy.mtime) = Second(stat.mtime)
    BY <1>1, <1>4
  <2>2. /\ copy \in Files /\ Precedes(copy, stat)
        /\ IfModifiedSinceSatisfied(LastModified(copy), stat)
    BY <1>2, <1>4, <2>1 DEF ConditionsOK, NotModified
  <2>3. copy.mtime <= stat.mtime /\ copy.mtime \in Nat /\ stat.mtime \in Nat
    BY <1>2, <2>2 DEF Precedes, Files
  <2>4. Second(stat.mtime) <= Second(copy.mtime)
    BY <2>2 DEF IfModifiedSinceSatisfied, LastModified
  <2>5. QED
    BY <2>3, <2>4 DEF Second
<1>5. QED
  BY <1>3, <1>4

\* Whatever the files, the requests and the moments at which the file is
\* rewritten: only a copy that is current is confirmed as such, or one whose date
\* alone was sent and cannot tell; and a current one always is by its entity tag.
THEOREM NotModifiedMeansCurrent == AppSpec => []NotModifiedIsTrue
<1>1. AppInit => CopiesInv
  BY InitCopies
<1>2. CopiesInv /\ [AppNext]_avars => CopiesInv'
  BY NextCopies
<1>3. CopiesInv => NotModifiedIsTrue
  BY CopiesSafe
<1>4. QED
  BY <1>1, <1>2, <1>3, PTL DEF AppSpec

-----------------------------------------------------------------------------
(* The routes: what the builder holds after the first n registrations       *)

\* Sets of natural numbers have a least element, and induction up to a bound.
LEMMA LeastOfNats ==
  ASSUME NEW T \in SUBSET Nat, T # {}
  PROVE  \E n \in T : \A m \in T : n <= m
<1> DEFINE R == OpToRel(<, Nat)
<1>1. IsWellFoundedOn(R, Nat)
  BY NatLessThanWellFounded
<1>2. R = {ss \in Nat \X Nat : ss[1] < ss[2]}
  BY DEF OpToRel
<1> HIDE DEF R
<1>3. PICK n \in T : \A m \in T : <<m, n>> \notin R
  BY <1>1, WFMin
<1>4. ASSUME NEW m \in T PROVE n <= m
  <2>1. <<m, n>> \in Nat \X Nat /\ <<m, n>>[1] = m /\ <<m, n>>[2] = n
    OBVIOUS
  <2>2. ~(m < n)
    BY <1>2, <1>3, <2>1
  <2>3. QED
    BY <2>2
<1>5. QED
  BY <1>4

LEMMA UpTo ==
  ASSUME NEW n \in Nat, NEW T, 0 \in T, \A i \in 0 .. n - 1 : i \in T => i + 1 \in T
  PROVE  \A i \in 0 .. n : i \in T
<1>1. SUFFICES ASSUME (0 .. n) \ T # {} PROVE FALSE
  OBVIOUS
<1> DEFINE U == (0 .. n) \ T
<1>u. U \in SUBSET Nat /\ U # {}
  BY <1>1
<1> HIDE DEF U
<1>2a. PICK m \in U : \A k \in U : m <= k
  BY <1>u, LeastOfNats
<1>2. m \in (0 .. n) \ T /\ \A k \in (0 .. n) \ T : m <= k
  BY <1>2a DEF U
<1>3. m # 0 /\ m - 1 \in 0 .. n - 1 /\ m - 1 \in 0 .. n /\ ~(m <= m - 1) /\ m - 1 + 1 = m
  BY <1>2
<1>4. m - 1 \in T
  BY <1>2, <1>3
<1>5. QED
  BY <1>2, <1>3, <1>4

Verbs == {Entries[k].method : k \in 1 .. Len(Entries)}
Tables == UNION {[M -> Nat] : M \in SUBSET Verbs}
Rows == [template : Seq(Segments), methods : Tables]

\* Each template once, in the order in which they first came, with each of its
\* methods mapped to the last registration.
Describes(T, n) ==
    /\ T \in Seq(Rows)
    /\ \A p, q \in 1 .. Len(T) : T[p].template = T[q].template => p = q
    /\ \A k \in 1 .. n : \E p \in 1 .. Len(T) :
          T[p].template = Entries[k].template /\ Entries[k].method \in DOMAIN T[p].methods
    /\ \A p \in 1 .. Len(T) : \A m \in DOMAIN T[p].methods :
          /\ T[p].methods[m] \in 1 .. n
          /\ Entries[T[p].methods[m]].template = T[p].template
          /\ Entries[T[p].methods[m]].method = m
          /\ \A j \in 1 .. n :
                Entries[j].template = T[p].template /\ Entries[j].method = m => j <= T[p].methods[m]
    /\ \A p, q \in 1 .. Len(T) : p < q =>
          \E k \in 1 .. n :
             /\ Entries[k].template = T[p].template
             /\ \A l \in 1 .. n : Entries[l].template = T[q].template => k < l
    /\ \A p \in 1 .. Len(T) : \E k \in 1 .. n : Entries[k].template = T[p].template

\* What is registered, and when.
EntriesTyped ==
    /\ Len(Entries) \in Nat /\ DOMAIN Entries = 1 .. Len(Entries)
    /\ \A k \in 1 .. Len(Entries) : Entries[k].template \in Seq(Segments)

LEMMA EntriesAreTyped ==
  ASSUME registry \in Seq(Registrable)
  PROVE  EntriesTyped
<1>1. CASE mount.app = "openapi"
  <2> DEFINE B == {BuiltIns[i] : i \in DOMAIN BuiltIns}
             R == Registrable \cup B
  <2>1. registry \in Seq(R) /\ BuiltIns \in Seq(R)
    <3>1. BuiltIns \in Seq(B)
      BY RoutesAssumption
    <3> HIDE DEF B
    <3>2. QED
      BY <3>1, SeqMonotonic
  <2>2. Entries = registry \o BuiltIns
    BY <1>1 DEF Entries
  <2>3. \A r \in R : r.template \in Seq(Segments)
    BY RoutesAssumption
  <2> HIDE DEF R
  <2>4. Entries \in Seq(R)
    BY <2>1, <2>2, ConcatProperties
  <2>5. QED
    BY <2>3, <2>4, LenProperties, ElementOfSeq DEF EntriesTyped
<1>2. CASE mount.app # "openapi"
  <2>1. Entries = registry
    BY <1>2 DEF Entries
  <2>2. QED
    BY <2>1, RoutesAssumption, LenProperties, ElementOfSeq DEF EntriesTyped
<1>3. QED
  BY <1>1, <1>2

\* A method put into a table.
LEMMA PutMethod ==
  ASSUME NEW f \in Tables, NEW m \in Verbs, NEW h \in Nat
  PROVE  /\ (m :> h) @@ f \in Tables
         /\ DOMAIN ((m :> h) @@ f) = DOMAIN f \cup {m}
         /\ ((m :> h) @@ f)[m] = h
         /\ \A x \in DOMAIN f \ {m} : ((m :> h) @@ f)[x] = f[x]
<1>1. DOMAIN (m :> h) = {m} /\ (m :> h)[m] = h
  BY DEF :>
<1>2. PICK M \in SUBSET Verbs : f \in [M -> Nat]
  BY DEF Tables
<1> DEFINE g == (m :> h) @@ f
<1>3. /\ g = [x \in {m} \cup M |-> IF x \in {m} THEN (m :> h)[x] ELSE f[x]]
  BY <1>1, <1>2 DEF @@
<1> HIDE DEF g
<1>4. g \in [M \cup {m} -> Nat] /\ M \cup {m} \in SUBSET Verbs
  BY <1>1, <1>2, <1>3
<1>5. g \in Tables /\ DOMAIN g = DOMAIN f \cup {m} /\ g[m] = h
  BY <1>1, <1>2, <1>3, <1>4 DEF Tables
<1>6. \A x \in DOMAIN f \ {m} : g[x] = f[x]
  BY <1>2, <1>3
<1>7. QED
  BY <1>5, <1>6 DEF g

\* A template that was there keeps its place and gets the method ...
LEMMA AddToOld ==
  ASSUME EntriesTyped, NEW n \in 0 .. (Len(Entries) - 1), NEW T, Describes(T, n),
         NEW o \in 1 .. Len(T), T[o].template = Entries[n + 1].template
  PROVE  Describes(Add(T, Entries[n + 1].method, Entries[n + 1].template, n + 1), n + 1)
<1> DEFINE m == Entries[n + 1].method
           t == Entries[n + 1].template
           U == Add(T, m, t, n + 1)
           row == [T[o] EXCEPT !.methods = (m :> (n + 1)) @@ T[o].methods]
<1>1. /\ n + 1 \in 1 .. Len(Entries) /\ n + 1 \in Nat /\ m \in Verbs /\ t \in Seq(Segments)
      /\ Len(T) \in Nat /\ T \in [1 .. Len(T) -> Rows] /\ DOMAIN T = 1 .. Len(T) /\ T[o] \in Rows
  <2>1. n + 1 \in 1 .. Len(Entries) /\ n + 1 \in Nat
    BY DEF EntriesTyped
  <2>2. T \in Seq(Rows)
    BY DEF Describes
  <2>3. QED
    BY <2>1, <2>2, LenProperties DEF EntriesTyped, Verbs
<1>2. \A p \in 1 .. Len(T) : T[p].template = t <=> p = o
  BY DEF Describes
<1>3. U = [i \in 1 .. Len(T) |-> IF i = o THEN row ELSE T[i]]
  <2>1. U = [i \in DOMAIN T |->
               IF T[i].template = t THEN [T[i] EXCEPT !.methods = (m :> (n + 1)) @@ T[i].methods] ELSE T[i]]
    BY <1>1 DEF Add
  <2>2. QED
    BY <1>1, <1>2, <2>1
<1>4. /\ row \in Rows /\ row.template = t
      /\ DOMAIN row.methods = DOMAIN T[o].methods \cup {m}
      /\ row.methods[m] = n + 1
      /\ \A x \in DOMAIN T[o].methods \ {m} : row.methods[x] = T[o].methods[x]
  <2> DEFINE f == (m :> (n + 1)) @@ T[o].methods
  <2>1. T[o].methods \in Tables
    BY <1>1 DEF Rows
  <2>2. /\ f \in Tables /\ DOMAIN f = DOMAIN T[o].methods \cup {m} /\ f[m] = n + 1
        /\ \A x \in DOMAIN T[o].methods \ {m} : f[x] = T[o].methods[x]
    <3>1. T[o].methods \in Tables /\ m \in Verbs /\ n + 1 \in Nat
      BY <1>1, <2>1
    <3> HIDE DEF m, f
    <3>2. ASSUME NEW g \in Tables, NEW v \in Verbs, NEW h \in Nat
          PROVE  LET k == (v :> h) @@ g
                 IN  /\ k \in Tables /\ DOMAIN k = DOMAIN g \cup {v} /\ k[v] = h
                     /\ \A x \in DOMAIN g \ {v} : k[x] = g[x]
      BY PutMethod, ZenonT(60)
    <3> DEFINE g == T[o].methods
               h == n + 1
    <3> HIDE DEF g, h
    <3>3. g \in Tables /\ m \in Verbs /\ h \in Nat
      BY <3>1 DEF g, h
    <3>4. LET k == (m :> h) @@ g
          IN  /\ k \in Tables /\ DOMAIN k = DOMAIN g \cup {m} /\ k[m] = h
              /\ \A x \in DOMAIN g \ {m} : k[x] = g[x]
      BY <3>2, <3>3, ZenonT(60)
    <3>5. QED
      BY <3>4, Zenon DEF f, g, h
  <2> HIDE DEF f
  <2>3. row = [T[o] EXCEPT !.methods = f]
    BY DEF f
  <2>4. row.methods = f /\ row.template = T[o].template /\ row \in Rows
    BY <1>1, <2>2, <2>3 DEF Rows
  <2>5. QED
    BY <2>2, <2>4
<1> HIDE DEF U, row
<1>5. U \in Seq(Rows) /\ Len(U) = Len(T)
  <2>1. U \in [1 .. Len(T) -> Rows]
    BY <1>1, <1>3, <1>4
  <2>2. U \in Seq(Rows)
    BY <1>1, <2>1, SeqDef
  <2>3. QED
    BY <1>1, <2>1, <2>2, LenProperties
<1>6. \A p \in 1 .. Len(T) : U[p].template = T[p].template /\ (p # o => U[p] = T[p])
  BY <1>2, <1>3, <1>4
<1>7. U[o] = row
  BY <1>3
<1>8. \A p, q \in 1 .. Len(U) : U[p].template = U[q].template => p = q
  BY <1>5, <1>6 DEF Describes
<1>9. \A k \in 1 .. (n + 1) : \E p \in 1 .. Len(U) :
         U[p].template = Entries[k].template /\ Entries[k].method \in DOMAIN U[p].methods
  <2>1. ASSUME NEW k \in 1 .. n
        PROVE  \E p \in 1 .. Len(U) :
                  U[p].template = Entries[k].template /\ Entries[k].method \in DOMAIN U[p].methods
    <3>1. PICK p \in 1 .. Len(T) :
             T[p].template = Entries[k].template /\ Entries[k].method \in DOMAIN T[p].methods
      BY DEF Describes
    <3>2. DOMAIN T[p].methods \subseteq DOMAIN U[p].methods
      BY <1>4, <1>6, <1>7
    <3>3. QED
      BY <1>5, <1>6, <3>1, <3>2
  <2>2. U[o].template = t /\ m \in DOMAIN U[o].methods
    BY <1>4, <1>7
  <2>3. \A k \in 1 .. (n + 1) : k \in 1 .. n \/ k = n + 1
    OBVIOUS
  <2>4. QED
    BY <1>5, <2>1, <2>2, <2>3
<1>10. ASSUME NEW p \in 1 .. Len(U), NEW x \in DOMAIN U[p].methods
       PROVE  /\ U[p].methods[x] \in 1 .. (n + 1)
              /\ Entries[U[p].methods[x]].template = U[p].template
              /\ Entries[U[p].methods[x]].method = x
              /\ \A j \in 1 .. (n + 1) :
                    Entries[j].template = U[p].template /\ Entries[j].method = x => j <= U[p].methods[x]
  <2>1. CASE p = o /\ x = m
    <3>1. U[p].methods[x] = n + 1 /\ U[p].template = t
      BY <1>4, <1>7, <2>1
    <3>2. \A j \in 1 .. (n + 1) : j <= n + 1
      OBVIOUS
    <3>3. QED
      BY <1>1, <2>1, <3>1, <3>2
  <2>2. CASE ~(p = o /\ x = m)
    <3>1. x \in DOMAIN T[p].methods /\ U[p].methods[x] = T[p].methods[x] /\ U[p].template = T[p].template
      BY <1>4, <1>5, <1>6, <1>7, <2>2
    <3>2. /\ T[p].methods[x] \in 1 .. n
          /\ Entries[T[p].methods[x]].template = T[p].template
          /\ Entries[T[p].methods[x]].method = x
          /\ \A j \in 1 .. n :
                Entries[j].template = T[p].template /\ Entries[j].method = x => j <= T[p].methods[x]
      BY <1>5, <3>1 DEF Describes
    <3>3. ~(Entries[n + 1].template = T[p].template /\ Entries[n + 1].method = x)
      BY <1>2, <1>5, <2>2
    <3>4. \A j \in 1 .. (n + 1) : j \in 1 .. n \/ j = n + 1
      OBVIOUS
    <3>5. U[p].methods[x] \in 1 .. (n + 1)
      BY <3>1, <3>2
    <3>6. QED
      BY <3>1, <3>2, <3>3, <3>4, <3>5
  <2>3. QED
    BY <2>1, <2>2
<1>11. ASSUME NEW p \in 1 .. Len(U), NEW q \in 1 .. Len(U), p < q
       PROVE  \E k \in 1 .. (n + 1) :
                 /\ Entries[k].template = U[p].template
                 /\ \A l \in 1 .. (n + 1) : Entries[l].template = U[q].template => k < l
  <2>1. PICK k \in 1 .. n :
           /\ Entries[k].template = T[p].template
           /\ \A l \in 1 .. n : Entries[l].template = T[q].template => k < l
    <3> DEFINE Ordered(a, b) ==
                 \E k \in 1 .. n :
                    /\ Entries[k].template = T[a].template
                    /\ \A l \in 1 .. n : Entries[l].template = T[b].template => k < l
    <3>1. \A a, b \in 1 .. Len(T) : a < b => Ordered(a, b)
      BY DEF Describes
    <3>2. p \in 1 .. Len(T) /\ q \in 1 .. Len(T)
      BY <1>5
    <3> HIDE DEF Ordered
    <3>3. Ordered(p, q)
      BY <1>11, <3>1, <3>2
    <3>4. QED
      BY <3>3 DEF Ordered
  <2>2. \A l \in 1 .. (n + 1) : l \in 1 .. n \/ k < l
    OBVIOUS
  <2>3. QED
    BY <1>5, <1>6, <2>1, <2>2, SMTT(30)
<1>12. \A p \in 1 .. Len(U) : \E k \in 1 .. (n + 1) : Entries[k].template = U[p].template
  <2>1. \A k \in 1 .. n : k \in 1 .. (n + 1)
    OBVIOUS
  <2>2. QED
    BY <1>5, <1>6, <2>1 DEF Describes
<1>13. Describes(U, n + 1)
  BY <1>5, <1>8, <1>9, <1>10, <1>11, <1>12 DEF Describes
<1>14. QED
  BY <1>13 DEF U

\* ... and one that was not comes last.
LEMMA AddNew ==
  ASSUME EntriesTyped, NEW n \in 0 .. (Len(Entries) - 1), NEW T, Describes(T, n),
         \A o \in 1 .. Len(T) : T[o].template # Entries[n + 1].template
  PROVE  Describes(Add(T, Entries[n + 1].method, Entries[n + 1].template, n + 1), n + 1)
<1> DEFINE m == Entries[n + 1].method
           t == Entries[n + 1].template
           U == Add(T, m, t, n + 1)
           row == [template |-> t, methods |-> (m :> (n + 1))]
           e == Len(T) + 1
<1>1. /\ n + 1 \in 1 .. Len(Entries) /\ n + 1 \in Nat /\ m \in Verbs /\ t \in Seq(Segments)
      /\ T \in Seq(Rows) /\ Len(T) \in Nat /\ DOMAIN T = 1 .. Len(T)
  <2>1. n + 1 \in 1 .. Len(Entries) /\ n + 1 \in Nat
    BY DEF EntriesTyped
  <2>2. T \in Seq(Rows)
    BY DEF Describes
  <2>3. QED
    BY <2>1, <2>2, LenProperties DEF EntriesTyped, Verbs
<1>2. U = Append(T, row)
  <2>1. ~(\E i \in DOMAIN T : T[i].template = t)
    BY <1>1
  <2>2. QED
    BY <2>1 DEF Add
<1>3. row \in Rows /\ row.template = t /\ DOMAIN row.methods = {m} /\ row.methods[m] = n + 1
  <2> DEFINE f == m :> (n + 1)
  <2>1. f = [x \in {m} |-> n + 1]
    BY DEF :>
  <2> HIDE DEF m, f
  <2>2. f \in [{m} -> Nat] /\ {m} \in SUBSET Verbs /\ DOMAIN f = {m} /\ f[m] = n + 1
    BY <1>1, <2>1
  <2>3. f \in Tables
    BY <2>2 DEF Tables
  <2>4. row = [template |-> t, methods |-> f]
    BY DEF f, m
  <2>5. row.template = t /\ row.methods = f /\ row \in Rows
    BY <1>1, <2>3, <2>4 DEF Rows
  <2>6. QED
    BY <2>2, <2>5
<1> HIDE DEF U, row
<1>4. /\ U \in Seq(Rows) /\ Len(U) = e /\ e \in Nat /\ U[e] = row
      /\ \A p \in 1 .. Len(T) : U[p] = T[p]
  BY <1>1, <1>2, <1>3, AppendProperties
<1>5. /\ \A p \in 1 .. Len(U) : p \in 1 .. Len(T) \/ p = e
      /\ e \in 1 .. Len(U) /\ \A p \in 1 .. Len(T) : p \in 1 .. Len(U) /\ p < e
  BY <1>1, <1>4
<1>6. \A p \in 1 .. Len(U) : U[p].template = t <=> p = e
  BY <1>3, <1>4, <1>5
<1> HIDE DEF e
<1>7. \A p, q \in 1 .. Len(U) : U[p].template = U[q].template => p = q
  <2>1. \A p, q \in 1 .. Len(T) : T[p].template = T[q].template => p = q
    BY DEF Describes
  <2>2. QED
    BY <1>4, <1>5, <1>6, <2>1
<1>8. \A k \in 1 .. n : k \in 1 .. (n + 1) /\ k < n + 1
  OBVIOUS
<1>9. \A k \in 1 .. (n + 1) : k \in 1 .. n \/ k = n + 1
  OBVIOUS
<1>10. \A k \in 1 .. n : Entries[k].template # t
  <2>1. \A k \in 1 .. n : \E p \in 1 .. Len(T) : T[p].template = Entries[k].template
    BY DEF Describes
  <2>2. QED
    BY <2>1
<1>11. \A k \in 1 .. (n + 1) : \E p \in 1 .. Len(U) :
          U[p].template = Entries[k].template /\ Entries[k].method \in DOMAIN U[p].methods
  <2>1. \A k \in 1 .. n : \E p \in 1 .. Len(T) :
           T[p].template = Entries[k].template /\ Entries[k].method \in DOMAIN T[p].methods
    BY DEF Describes
  <2>2. U[e].template = t /\ m \in DOMAIN U[e].methods
    BY <1>3, <1>4
  <2>3. QED
    BY <1>4, <1>5, <1>9, <2>1, <2>2
<1>12. ASSUME NEW p \in 1 .. Len(U), NEW x \in DOMAIN U[p].methods
       PROVE  /\ U[p].methods[x] \in 1 .. (n + 1)
              /\ Entries[U[p].methods[x]].template = U[p].template
              /\ Entries[U[p].methods[x]].method = x
              /\ \A j \in 1 .. (n + 1) :
                    Entries[j].template = U[p].template /\ Entries[j].method = x => j <= U[p].methods[x]
  <2>1. CASE p = e
    <3>1. x = m /\ U[p].methods[x] = n + 1 /\ U[p].template = t
      BY <1>3, <1>4, <2>1
    <3>2. \A j \in 1 .. (n + 1) : j <= n + 1
      OBVIOUS
    <3>3. n + 1 \in 1 .. (n + 1)
      OBVIOUS
    <3>4. QED
      BY <3>1, <3>2, <3>3
  <2>2. CASE p # e
    <3>1. p \in 1 .. Len(T) /\ U[p] = T[p]
      BY <1>4, <1>5, <2>2
    <3>2. /\ T[p].methods[x] \in 1 .. n
          /\ Entries[T[p].methods[x]].template = T[p].template
          /\ Entries[T[p].methods[x]].method = x
          /\ \A j \in 1 .. n :
                Entries[j].template = T[p].template /\ Entries[j].method = x => j <= T[p].methods[x]
      BY <3>1 DEF Describes
    <3>3. Entries[n + 1].template # T[p].template
      BY <3>1
    <3>4. U[p].methods[x] \in 1 .. (n + 1)
      BY <1>8, <3>1, <3>2
    <3>5. QED
      BY <1>9, <3>1, <3>2, <3>3, <3>4
  <2>3. QED
    BY <2>1, <2>2
<1>13. ASSUME NEW p \in 1 .. Len(U), NEW q \in 1 .. Len(U), p < q
       PROVE  \E k \in 1 .. (n + 1) :
                 /\ Entries[k].template = U[p].template
                 /\ \A l \in 1 .. (n + 1) : Entries[l].template = U[q].template => k < l
  <2>1. p \in 1 .. Len(T)
    BY <1>4, <1>5, <1>13
  <2>2. CASE q = e
    <3>1. PICK k \in 1 .. n : Entries[k].template = T[p].template
      BY <2>1 DEF Describes
    <3>2. U[q].template = t
      BY <1>6, <2>2
    <3>3. \A l \in 1 .. (n + 1) : Entries[l].template = U[q].template => k < l
      BY <1>8, <1>9, <1>10, <3>2
    <3>4. QED
      BY <1>4, <1>8, <2>1, <3>1, <3>3
  <2>3. CASE q # e
    <3>1. q \in 1 .. Len(T)
      BY <1>5, <2>3
    <3>2. \A a, b \in 1 .. Len(T) : a < b =>
             \E k \in 1 .. n :
                /\ Entries[k].template = T[a].template
                /\ \A l \in 1 .. n : Entries[l].template = T[b].template => k < l
      BY DEF Describes
    <3>3. PICK k \in 1 .. n :
             /\ Entries[k].template = T[p].template
             /\ \A l \in 1 .. n : Entries[l].template = T[q].template => k < l
      BY <1>13, <2>1, <3>1, <3>2
    <3>4. QED
      BY <1>4, <1>8, <1>9, <2>1, <3>1, <3>3
  <2>4. QED
    BY <2>2, <2>3
<1>14. \A p \in 1 .. Len(U) : \E k \in 1 .. (n + 1) : Entries[k].template = U[p].template
  <2>1. \A p \in 1 .. Len(T) : \E k \in 1 .. n : Entries[k].template = T[p].template
    BY DEF Describes
  <2>2. n + 1 \in 1 .. (n + 1)
    OBVIOUS
  <2>3. QED
    BY <1>4, <1>5, <1>6, <1>8, <2>1, <2>2, SMTT(30)
<1>15. Describes(U, n + 1)
  BY <1>4, <1>7, <1>11, <1>12, <1>13, <1>14 DEF Describes
<1>16. QED
  BY <1>15 DEF U

\* The builder after i registrations, one after the other.
RoutesNext(f, i) == IF i = 0 THEN NoRoutes
                    ELSE Add(f[i - 1], Entries[i].method, Entries[i].template, i)

IsRoutes(f, n) == f = [i \in 0 .. n |-> RoutesNext(f, i)]

LEMMA RoutesExist ==
  ASSUME NEW n \in Nat
  PROVE  \E f : IsRoutes(f, n)
<1> DEFINE T == {m \in Nat : \E f : IsRoutes(f, m)}
<1>1. 0 \in T
  <2>1. IsRoutes([i \in 0 .. 0 |-> NoRoutes], 0)
    BY DEF IsRoutes, RoutesNext
  <2>2. QED
    BY <2>1
<1>2. ASSUME NEW m \in 0 .. n - 1, m \in T PROVE m + 1 \in T
  <2>1. PICK f : IsRoutes(f, m)
    BY <1>2
  <2>2. PICK g : g = [i \in 0 .. m + 1 |-> IF i = m + 1 THEN RoutesNext(f, m + 1) ELSE f[i]]
    OBVIOUS
  <2>3. \A i \in 0 .. m : g[i] = f[i] /\ f[i] = RoutesNext(f, i)
    BY <2>1, <2>2 DEF IsRoutes
  <2>4. ASSUME NEW i \in 0 .. m + 1 PROVE g[i] = RoutesNext(g, i)
    <3>1. CASE i = m + 1
      <4>1. g[i] = RoutesNext(f, i) /\ i # 0 /\ i - 1 \in 0 .. m
        BY <2>2, <3>1
      <4>2. g[i - 1] = f[i - 1]
        BY <2>3, <4>1
      <4>3. QED
        BY <4>1, <4>2 DEF RoutesNext
    <3>2. CASE i # m + 1
      <4>1. i \in 0 .. m /\ (i # 0 => i - 1 \in 0 .. m)
        BY <3>2
      <4>2. g[i] = RoutesNext(f, i) /\ (i # 0 => g[i - 1] = f[i - 1])
        BY <2>3, <4>1
      <4>3. QED
        BY <4>2 DEF RoutesNext
    <3>3. QED
      BY <3>1, <3>2
  <2>5. g = [i \in 0 .. m + 1 |-> RoutesNext(g, i)]
    BY <2>2, <2>4
  <2>6. m + 1 \in Nat /\ IsRoutes(g, m + 1)
    BY <2>5 DEF IsRoutes
  <2>7. QED
    BY <2>6
<1> HIDE DEF T
<1>3. \A i \in 0 .. n : i \in T
  BY <1>1, <1>2, UpTo
<1>4. n \in T
  BY <1>3
<1>5. QED
  BY <1>4 DEF T

LEMMA AddedIsRoutes ==
  ASSUME EntriesTyped
  PROVE  \E f : IsRoutes(f, Len(Entries)) /\ Added = f[Len(Entries)]
<1>1. \E f : IsRoutes(f, Len(Entries))
  BY RoutesExist DEF EntriesTyped
<1>2. \E f : f = [n \in 0..Len(Entries) |->
                    IF n = 0 THEN NoRoutes
                    ELSE Add(f[n - 1], Entries[n].method, Entries[n].template, n)]
  BY <1>1 DEF IsRoutes, RoutesNext
<1>3. QED
  BY <1>2, Zenon DEF Added, IsRoutes, RoutesNext

LEMMA NoRoutesDescribe == Describes(NoRoutes, 0)
<1>1. NoRoutes \in Seq(Rows) /\ Len(NoRoutes) = 0
  BY EmptySeq DEF NoRoutes
<1>2. 1 .. Len(NoRoutes) = {} /\ 1 .. 0 = {}
  BY <1>1
<1>3. QED
  BY <1>1, <1>2 DEF Describes

LEMMA AddedDescribes == ASSUME EntriesTyped PROVE Describes(Added, Len(Entries))
<1>1. PICK f : IsRoutes(f, Len(Entries)) /\ Added = f[Len(Entries)]
  BY AddedIsRoutes
<1>2. \A i \in 0 .. Len(Entries) : f[i] = RoutesNext(f, i)
  BY <1>1 DEF IsRoutes
<1> DEFINE T == {i \in 0 .. Len(Entries) : Describes(f[i], i)}
<1>3. 0 \in T
  <2>1. 0 \in 0 .. Len(Entries)
    BY DEF EntriesTyped
  <2>2. f[0] = NoRoutes
    BY <1>2, <2>1 DEF RoutesNext
  <2>3. QED
    BY <2>1, <2>2, NoRoutesDescribe
<1>4. ASSUME NEW n \in 0 .. Len(Entries) - 1, n \in T PROVE n + 1 \in T
  <2>1. n + 1 \in 0 .. Len(Entries) /\ n + 1 # 0 /\ n + 1 - 1 = n
    BY DEF EntriesTyped
  <2>2. f[n + 1] = Add(f[n], Entries[n + 1].method, Entries[n + 1].template, n + 1)
    BY <1>2, <2>1 DEF RoutesNext
  <2>3. Describes(f[n], n)
    BY <1>4
  <2>4. Describes(f[n + 1], n + 1)
    <3>1. CASE \E o \in 1 .. Len(f[n]) : f[n][o].template = Entries[n + 1].template
      BY <2>2, <2>3, <3>1, AddToOld
    <3>2. CASE ~(\E o \in 1 .. Len(f[n]) : f[n][o].template = Entries[n + 1].template)
      BY <2>2, <2>3, <3>2, AddNew
    <3>3. QED
      BY <3>1, <3>2
  <2>5. QED
    BY <2>1, <2>4
<1> HIDE DEF T
<1>5. \A i \in 0 .. Len(Entries) : i \in T
  BY <1>3, <1>4, UpTo DEF EntriesTyped
<1>6. Len(Entries) \in T
  BY <1>5 DEF EntriesTyped
<1>7. QED
  BY <1>1, <1>6 DEF T

-----------------------------------------------------------------------------
(* The compiled router: the same rows, sorted                              *)

LEMMA PrefixIsNumber ==
  ASSUME NEW t \in Seq(Segments)
  PROVE  LiteralPrefixLen(t) \in Int
<1>1. Len(t) \in Nat /\ DOMAIN t = 1 .. Len(t)
  BY LenProperties
<1>2. CASE VariablesOf(t) = {}
  BY <1>1, <1>2 DEF LiteralPrefixLen
<1>3. CASE VariablesOf(t) # {}
  <2>1. VariablesOf(t) \in SUBSET Nat
    BY <1>1 DEF VariablesOf
  <2>2. \E i \in VariablesOf(t) : \A j \in VariablesOf(t) : i <= j
    BY <1>3, <2>1, LeastOfNats
  <2> DEFINE first == CHOOSE i \in VariablesOf(t) : \A j \in VariablesOf(t) : i <= j
  <2>3. first \in Nat
    BY <2>1, <2>2
  <2>4. LiteralPrefixLen(t) = first - 1
    BY <1>3 DEF LiteralPrefixLen
  <2> HIDE DEF first
  <2>5. QED
    BY <2>3, <2>4
<1>4. QED
  BY <1>2, <1>3

\* Before is a strict order of the rows, and a total one.
LEMMA BeforeOrders ==
  ASSUME NEW T \in Seq(Rows)
  PROVE  /\ \A i \in 1 .. Len(T) : ~Before(T, i, i)
         /\ \A i, j \in 1 .. Len(T) : i # j => Before(T, i, j) \/ Before(T, j, i)
         /\ \A i, j, k \in 1 .. Len(T) : Before(T, i, j) /\ Before(T, j, k) => Before(T, i, k)
<1> DEFINE long(i) == LiteralPrefixLen(T[i].template)
<1>1. \A i \in 1 .. Len(T) : long(i) \in Int /\ i \in Int
  <2>1. \A i \in 1 .. Len(T) : T[i].template \in Seq(Segments)
    <3>1. \A i \in 1 .. Len(T) : T[i] \in Rows
      BY ElementOfSeq
    <3>2. \A r \in Rows : r.template \in Seq(Segments)
      BY DEF Rows
    <3>3. QED
      BY <3>1, <3>2
  <2>2. QED
    BY <2>1, PrefixIsNumber
<1>2. \A i, j : Before(T, i, j) <=> (long(i) > long(j) \/ (long(i) = long(j) /\ i < j))
  BY DEF Before
<1> HIDE DEF long
<1>3. QED
  BY <1>1, <1>2

LEMMA FromRoutesSorts ==
  ASSUME NEW T \in Seq(Rows)
  PROVE  \E at \in [1 .. Len(T) -> 1 .. Len(T)] :
            /\ FromRoutes(T) = [q \in 1 .. Len(T) |-> T[at[q]]]
            /\ \A i \in 1 .. Len(T) : \E q \in 1 .. Len(T) : at[q] = i
            /\ \A q, r \in 1 .. Len(T) : q < r => Before(T, at[q], at[r])
<1> DEFINE N == Len(T)
           S == 1 .. N
           earlier(i) == {j \in DOMAIN T : Before(T, j, i)}
           rank == [i \in S |-> Cardinality(earlier(i)) + 1]
           at == [q \in S |-> CHOOSE i \in DOMAIN T : Cardinality(earlier(i)) = q - 1]
<1>1. N \in Nat /\ DOMAIN T = S
  BY LenProperties
<1>2. IsFiniteSet(S) /\ Cardinality(S) = N
  BY <1>1, FS_Interval
<1>3. /\ \A i \in S : ~Before(T, i, i)
      /\ \A i, j \in S : i # j => Before(T, i, j) \/ Before(T, j, i)
      /\ \A i, j, k \in S : Before(T, i, j) /\ Before(T, j, k) => Before(T, i, k)
  BY BeforeOrders
<1> HIDE DEF N, S
<1>4. \A i \in S : /\ earlier(i) \subseteq S /\ i \notin earlier(i)
                   /\ IsFiniteSet(earlier(i)) /\ Cardinality(earlier(i)) \in Nat
                   /\ Cardinality(earlier(i)) < N
  <2> TAKE i \in S
  <2>1. earlier(i) \subseteq S /\ i \notin earlier(i)
    BY <1>1, <1>3
  <2> HIDE DEF earlier
  <2>2. /\ IsFiniteSet(earlier(i)) /\ Cardinality(earlier(i)) <= Cardinality(S)
        /\ Cardinality(S) = Cardinality(earlier(i)) => S = earlier(i)
    BY <1>2, <2>1, FS_Subset
  <2>3. Cardinality(earlier(i)) \in Nat
    BY <2>2, FS_CardinalityType
  <2>4. QED
    BY <1>1, <1>2, <2>1, <2>2, <2>3
<1>5. ASSUME NEW i \in S, NEW j \in S, Before(T, i, j)
      PROVE  Cardinality(earlier(i)) < Cardinality(earlier(j))
  <2>1. earlier(i) \cup {i} \subseteq earlier(j)
    BY <1>1, <1>3, <1>5
  <2>2. IsFiniteSet(earlier(i)) /\ i \notin earlier(i) /\ IsFiniteSet(earlier(j))
    BY <1>4
  <2>3. /\ Cardinality(earlier(i)) \in Nat /\ Cardinality(earlier(j)) \in Nat
    BY <1>4
  <2> HIDE DEF earlier
  <2>4. Cardinality(earlier(i) \cup {i}) = Cardinality(earlier(i)) + 1
    BY <2>2, FS_AddElement
  <2>5. Cardinality(earlier(i) \cup {i}) <= Cardinality(earlier(j))
    BY <2>1, <2>2, FS_Subset
  <2>6. QED
    BY <2>3, <2>4, <2>5
<1> HIDE DEF earlier
<1>6. \A i, j \in S : Cardinality(earlier(i)) = Cardinality(earlier(j)) => i = j
  <2> TAKE i, j \in S
  <2>1. SUFFICES ASSUME i # j PROVE Cardinality(earlier(i)) # Cardinality(earlier(j))
    OBVIOUS
  <2>2. Before(T, i, j) \/ Before(T, j, i)
    BY <1>3, <2>1
  <2>3. Cardinality(earlier(i)) < Cardinality(earlier(j)) \/ Cardinality(earlier(j)) < Cardinality(earlier(i))
    BY <1>5, <2>2
  <2>4. QED
    BY <1>4, <2>3
<1>7. rank \in [S -> S]
  <2>1. \A i \in S : Cardinality(earlier(i)) + 1 \in S
    BY <1>1, <1>4 DEF S
  <2>2. QED
    BY <2>1
<1>8. rank \in Injection(S, S)
  <2>1. \A i, j \in S : rank[i] = rank[j] => i = j
    BY <1>4, <1>6
  <2> HIDE DEF rank
  <2>2. QED
    BY <1>7, <2>1 DEF Injection, IsInjective
<1>9. rank \in Surjection(S, S)
  <2> HIDE DEF rank
  <2>1. QED
    BY <1>2, <1>8, FS_Injection
<1>10. \A q \in S : \E i \in S : Cardinality(earlier(i)) = q - 1
  <2>1. \A q \in S : \E i \in S : rank[i] = q
    BY <1>9 DEF Surjection
  <2>2. \A i \in S : rank[i] = Cardinality(earlier(i)) + 1
    OBVIOUS
  <2> HIDE DEF rank
  <2>3. ASSUME NEW q \in S PROVE \E i \in S : Cardinality(earlier(i)) = q - 1
    <3>1. PICK i \in S : rank[i] = q
      BY <2>1
    <3>2. Cardinality(earlier(i)) + 1 = q /\ Cardinality(earlier(i)) \in Nat
      BY <1>4, <2>2, <3>1
    <3>3. PICK c \in Nat : c = Cardinality(earlier(i))
      BY <3>2
    <3>4. c = q - 1
      BY <3>2, <3>3
    <3>5. QED
      BY <3>3, <3>4
  <2>4. QED
    BY <2>3
<1>11. \A q \in S : at[q] \in S /\ Cardinality(earlier(at[q])) = q - 1
  <2> TAKE q \in S
  <2>1. at[q] = CHOOSE i \in DOMAIN T : Cardinality(earlier(i)) = q - 1
    OBVIOUS
  <2> HIDE DEF at
  <2>2. \E i \in DOMAIN T : Cardinality(earlier(i)) = q - 1
    BY <1>1, <1>10
  <2>3. QED
    BY <1>1, <2>1, <2>2
<1>12. FromRoutes(T) = [q \in S |-> T[at[q]]]
  <2>1. FromRoutes(T) = [q \in S |-> T[CHOOSE i \in DOMAIN T : Cardinality(earlier(i)) = q - 1]]
    BY <1>1 DEF FromRoutes, earlier
  <2>2. QED
    BY <2>1
<1>13. at \in [S -> S]
  BY <1>11
<1> HIDE DEF at
<1>14. \A i \in S : \E q \in S : at[q] = i
  <2> TAKE i \in S
  <2>1. Cardinality(earlier(i)) + 1 \in S
    BY <1>7
  <2>2. Cardinality(earlier(at[Cardinality(earlier(i)) + 1])) = Cardinality(earlier(i))
    BY <1>4, <1>11, <2>1
  <2>3. at[Cardinality(earlier(i)) + 1] = i
    BY <1>6, <1>11, <2>1, <2>2
  <2>4. QED
    BY <2>1, <2>3
<1>15. ASSUME NEW q \in S, NEW r \in S, q < r PROVE Before(T, at[q], at[r])
  <2>1. /\ at[q] \in S /\ Cardinality(earlier(at[q])) = q - 1
        /\ at[r] \in S /\ Cardinality(earlier(at[r])) = r - 1
    BY <1>11
  <2>2. q \in Int /\ r \in Int
    BY <1>1 DEF S
  <2>3. Cardinality(earlier(at[q])) < Cardinality(earlier(at[r]))
    BY <1>15, <2>1, <2>2
  <2>4. at[q] # at[r] /\ ~Before(T, at[r], at[q])
    BY <1>4, <1>5, <2>1, <2>3
  <2>5. QED
    BY <1>3, <2>1, <2>4
<1>16. QED
  BY <1>12, <1>13, <1>14, <1>15 DEF S, N

\* The order in which the application's router tries the rows of the builder.
Sooner(T, i, j) == IF mount.flavour = "async" THEN i < j ELSE Before(T, i, j)

LEMMA BuiltSorts ==
  ASSUME EntriesTyped
  PROVE  /\ Describes(Added, Len(Entries))
         /\ \E at \in [1 .. Len(Added) -> 1 .. Len(Added)] :
               /\ Built = [q \in 1 .. Len(Added) |-> Added[at[q]]]
               /\ \A i \in 1 .. Len(Added) : \E q \in 1 .. Len(Added) : at[q] = i
               /\ \A q, r \in 1 .. Len(Added) : q < r => Sooner(Added, at[q], at[r])
<1>1. Describes(Added, Len(Entries))
  BY AddedDescribes
<1>2. Added \in Seq(Rows)
  BY <1>1 DEF Describes
<1>3. CASE mount.flavour = "async"
  <2> DEFINE at == [q \in 1 .. Len(Added) |-> q]
  <2>1. Built = Added
    BY <1>3 DEF Built
  <2>2. Added = [q \in 1 .. Len(Added) |-> Added[at[q]]]
    BY <1>2, LenProperties
  <2>3. at \in [1 .. Len(Added) -> 1 .. Len(Added)]
    OBVIOUS
  <2>4. \A q \in 1 .. Len(Added) : at[q] = q
    OBVIOUS
  <2> HIDE DEF at
  <2>5. \A q, r \in 1 .. Len(Added) : q < r => Sooner(Added, at[q], at[r])
    BY <1>3, <2>4 DEF Sooner
  <2>6. \A i \in 1 .. Len(Added) : \E q \in 1 .. Len(Added) : at[q] = i
    BY <2>4
  <2>7. QED
    BY <1>1, <2>1, <2>2, <2>3, <2>5, <2>6
<1>4. CASE mount.flavour # "async"
  <2>1. Built = FromRoutes(Added)
    BY <1>4 DEF Built
  <2>2. \A i, j : Sooner(Added, i, j) <=> Before(Added, i, j)
    BY <1>4 DEF Sooner
  <2>3. PICK at \in [1 .. Len(Added) -> 1 .. Len(Added)] :
           /\ FromRoutes(Added) = [q \in 1 .. Len(Added) |-> Added[at[q]]]
           /\ \A i \in 1 .. Len(Added) : \E q \in 1 .. Len(Added) : at[q] = i
           /\ \A q, r \in 1 .. Len(Added) : q < r => Before(Added, at[q], at[r])
    BY <1>2, FromRoutesSorts
  <2>4. QED
    BY <1>1, <2>1, <2>2, <2>3
<1>5. QED
  BY <1>3, <1>4

\* The registrations that concern a request, and which of two is preferred: as the
\* property has them.
Matching == {i \in DOMAIN Entries : MatchesPath(Entries[i].template, req.path)}
Able == {i \in Matching : Entries[i].method = req.method}
PrefixOf(i) == IF mount.flavour = "async" THEN 0 ELSE LiteralPrefixLen(Entries[i].template)
FirstOf(i) == CHOOSE k \in DOMAIN Entries :
                 /\ Entries[k].template = Entries[i].template
                 /\ \A l \in 1 .. (k - 1) : Entries[l].template # Entries[i].template
Better(i, j) == \/ PrefixOf(i) > PrefixOf(j)
                \/ PrefixOf(i) = PrefixOf(j) /\ FirstOf(i) < FirstOf(j)
                \/ PrefixOf(i) = PrefixOf(j) /\ FirstOf(i) = FirstOf(j) /\ i >= j

LEMMA FirstIsFirst ==
  ASSUME EntriesTyped, NEW i \in 1 .. Len(Entries)
  PROVE  /\ FirstOf(i) \in 1 .. Len(Entries)
         /\ Entries[FirstOf(i)].template = Entries[i].template
         /\ \A l \in 1 .. Len(Entries) : Entries[l].template = Entries[i].template => FirstOf(i) <= l
<1> DEFINE S == {l \in 1 .. Len(Entries) : Entries[l].template = Entries[i].template}
<1>1. S \in SUBSET Nat /\ S # {}
  BY DEF EntriesTyped
<1>2. PICK k \in S : \A l \in S : k <= l
  BY <1>1, LeastOfNats
<1>3. k \in DOMAIN Entries /\ Entries[k].template = Entries[i].template /\ k \in Nat
  BY <1>2 DEF EntriesTyped
<1>4. \A l \in 1 .. (k - 1) : l \in 1 .. Len(Entries) /\ ~(k <= l)
  BY <1>2 DEF EntriesTyped
<1>5. \A l \in 1 .. (k - 1) : Entries[l].template # Entries[i].template
  BY <1>2, <1>4
<1>6. /\ FirstOf(i) \in DOMAIN Entries
      /\ Entries[FirstOf(i)].template = Entries[i].template
      /\ \A l \in 1 .. (FirstOf(i) - 1) : Entries[l].template # Entries[i].template
  BY <1>3, <1>5, Zenon DEF FirstOf
<1>7. FirstOf(i) \in 1 .. Len(Entries)
  BY <1>6 DEF EntriesTyped
<1>8. ASSUME NEW l \in 1 .. Len(Entries), Entries[l].template = Entries[i].template
      PROVE  FirstOf(i) <= l
  <2>1. PICK f \in 1 .. Len(Entries) : f = FirstOf(i)
    BY <1>7
  <2>2. ~(l < f)
    BY <1>6, <1>8, <2>1 DEF EntriesTyped
  <2>3. QED
    BY <2>1, <2>2 DEF EntriesTyped
<1>9. QED
  BY <1>6, <1>7, <1>8

\* The rows of the router and the registrations behind them.
LEMMA RowsAreEntries ==
  ASSUME EntriesTyped
  PROVE  \E N \in Nat :
            /\ DOMAIN Built = 1 .. N
            /\ \A i \in DOMAIN Entries : \E q \in 1 .. N :
                  /\ Built[q].template = Entries[i].template
                  /\ Entries[i].method \in DOMAIN Built[q].methods
            /\ \A q \in 1 .. N : \A x \in DOMAIN Built[q].methods :
                  /\ Built[q].methods[x] \in DOMAIN Entries
                  /\ Entries[Built[q].methods[x]].template = Built[q].template
                  /\ Entries[Built[q].methods[x]].method = x
            /\ \A q \in 1 .. N : \E i \in DOMAIN Entries : Entries[i].template = Built[q].template
            /\ \A q, r \in 1 .. N : \A x \in DOMAIN Built[q].methods : \A j \in DOMAIN Entries :
                  (q <= r /\ Entries[j].template = Built[r].template /\ Entries[j].method = x)
                     => Better(Built[q].methods[x], j)
<1> DEFINE T == Added
           N == Len(T)
<1>1. Describes(T, Len(Entries))
  BY BuiltSorts
<1>2. PICK at \in [1 .. N -> 1 .. N] :
         /\ Built = [q \in 1 .. N |-> T[at[q]]]
         /\ \A i \in 1 .. N : \E q \in 1 .. N : at[q] = i
         /\ \A q, r \in 1 .. N : q < r => Sooner(T, at[q], at[r])
  BY BuiltSorts
<1>3. DOMAIN Entries = 1 .. Len(Entries) /\ Len(Entries) \in Nat
  BY DEF EntriesTyped
<1>4. N \in Nat /\ \A p \in 1 .. N : T[p].template \in Seq(Segments)
  <2>1. T \in Seq(Rows)
    BY <1>1 DEF Describes
  <2> HIDE DEF T
  <2>2. N \in Nat /\ \A p \in 1 .. N : T[p] \in Rows
    BY <2>1, LenProperties, ElementOfSeq
  <2>3. \A r \in Rows : r.template \in Seq(Segments)
    BY DEF Rows
  <2>4. QED
    BY <2>2, <2>3
<1> HIDE DEF T
<1>5. /\ \A k \in 1 .. Len(Entries) : \E p \in 1 .. N :
            T[p].template = Entries[k].template /\ Entries[k].method \in DOMAIN T[p].methods
      /\ \A p \in 1 .. N : \A m \in DOMAIN T[p].methods :
            /\ T[p].methods[m] \in 1 .. Len(Entries)
            /\ Entries[T[p].methods[m]].template = T[p].template
            /\ Entries[T[p].methods[m]].method = m
            /\ \A j \in 1 .. Len(Entries) :
                  Entries[j].template = T[p].template /\ Entries[j].method = m => j <= T[p].methods[m]
      /\ \A p \in 1 .. N : \E k \in 1 .. Len(Entries) : Entries[k].template = T[p].template
  BY <1>1 DEF Describes
<1>6. \A p, q \in 1 .. N : p < q =>
         \E k \in 1 .. Len(Entries) :
            /\ Entries[k].template = T[p].template
            /\ \A l \in 1 .. Len(Entries) : Entries[l].template = T[q].template => k < l
  BY <1>1 DEF Describes
<1> HIDE DEF N
<1>7. \A q \in 1 .. N : Built[q] = T[at[q]] /\ at[q] \in 1 .. N
  BY <1>2
<1>8. DOMAIN Built = 1 .. N
  BY <1>2
<1>9. \A i \in DOMAIN Entries : \E q \in 1 .. N :
         /\ Built[q].template = Entries[i].template
         /\ Entries[i].method \in DOMAIN Built[q].methods
  <2> TAKE i \in DOMAIN Entries
  <2>1. PICK p \in 1 .. N : T[p].template = Entries[i].template /\ Entries[i].method \in DOMAIN T[p].methods
    BY <1>3, <1>5
  <2>2. PICK q \in 1 .. N : at[q] = p
    BY <1>2
  <2>3. QED
    BY <1>7, <2>1, <2>2
<1>10. \A q \in 1 .. N : \A x \in DOMAIN Built[q].methods :
          /\ Built[q].methods[x] \in DOMAIN Entries
          /\ Entries[Built[q].methods[x]].template = Built[q].template
          /\ Entries[Built[q].methods[x]].method = x
  <2> TAKE q \in 1 .. N
  <2>1. PICK p \in 1 .. N : Built[q] = T[p]
    BY <1>7
  <2>2. \A x \in DOMAIN T[p].methods :
           /\ T[p].methods[x] \in 1 .. Len(Entries)
           /\ Entries[T[p].methods[x]].template = T[p].template
           /\ Entries[T[p].methods[x]].method = x
    BY <1>5
  <2>3. QED
    BY <1>3, <2>1, <2>2
<1>11. \A q \in 1 .. N : \E i \in DOMAIN Entries : Entries[i].template = Built[q].template
  <2> TAKE q \in 1 .. N
  <2>1. PICK p \in 1 .. N : Built[q] = T[p]
    BY <1>7
  <2>2. \E k \in 1 .. Len(Entries) : Entries[k].template = T[p].template
    BY <1>5
  <2>3. QED
    BY <1>3, <2>1, <2>2
<1>12. ASSUME NEW q \in 1 .. N, NEW r \in 1 .. N, NEW x \in DOMAIN Built[q].methods, NEW j \in DOMAIN Entries,
              q <= r, Entries[j].template = Built[r].template, Entries[j].method = x
       PROVE  Better(Built[q].methods[x], j)
  <2> DEFINE i == Built[q].methods[x]
  <2>1. i \in 1 .. Len(Entries) /\ j \in 1 .. Len(Entries) /\ Entries[i].template = T[at[q]].template
    BY <1>3, <1>7, <1>10
  <2>2. Entries[j].template = T[at[r]].template /\ at[q] \in 1 .. N /\ at[r] \in 1 .. N
    BY <1>7, <1>12
  <2>3. /\ FirstOf(i) \in 1 .. Len(Entries) /\ FirstOf(j) \in 1 .. Len(Entries)
        /\ Entries[FirstOf(j)].template = Entries[j].template
        /\ \A l \in 1 .. Len(Entries) : Entries[l].template = Entries[i].template => FirstOf(i) <= l
    BY <2>1, FirstIsFirst
  <2>4. CASE q = r
    <3>1. Entries[i].template = Entries[j].template
      BY <2>1, <2>2, <2>4
    <3>2. FirstOf(i) = FirstOf(j) /\ PrefixOf(i) = PrefixOf(j)
      BY <3>1 DEF FirstOf, PrefixOf
    <3>3. j <= T[at[q]].methods[x]
      BY <1>5, <1>7, <1>12, <2>1, <2>2, <2>4
    <3>4. i >= j
      BY <1>7, <3>3
    <3>5. QED
      BY <3>2, <3>4 DEF Better
  <2>5. CASE q # r
    <3>1. q < r
      BY <1>4, <1>12, <2>5
    <3>2. Sooner(T, at[q], at[r])
      BY <1>2, <3>1
    <3>3. at[q] < at[r] => FirstOf(i) < FirstOf(j)
      <4>1. SUFFICES ASSUME at[q] < at[r] PROVE FirstOf(i) < FirstOf(j)
        OBVIOUS
      <4>2. PICK k \in 1 .. Len(Entries) :
               /\ Entries[k].template = T[at[q]].template
               /\ \A l \in 1 .. Len(Entries) : Entries[l].template = T[at[r]].template => k < l
        BY <1>6, <2>2, <4>1, SMTT(30)
      <4>3. FirstOf(i) <= k
        BY <2>1, <2>3, <4>2
      <4>4. k < FirstOf(j)
        BY <2>2, <2>3, <4>2
      <4>5. QED
        BY <1>3, <2>3, <4>3, <4>4
    <3>4. CASE mount.flavour = "async"
      <4>1. at[q] < at[r] /\ PrefixOf(i) = 0 /\ PrefixOf(j) = 0
        BY <3>2, <3>4 DEF Sooner, PrefixOf
      <4>2. QED
        BY <3>3, <4>1 DEF Better
    <3>5. CASE mount.flavour # "async"
      <4>1. Before(T, at[q], at[r])
        BY <3>2, <3>5 DEF Sooner
      <4>2. /\ PrefixOf(i) = LiteralPrefixLen(T[at[q]].template)
            /\ PrefixOf(j) = LiteralPrefixLen(T[at[r]].template)
        BY <2>1, <2>2, <3>5 DEF PrefixOf
      <4>3. QED
        BY <3>3, <4>1, <4>2 DEF Better, Before
    <3>6. QED
      BY <3>4, <3>5
  <2>6. QED
    BY <2>4, <2>5
<1>13. QED
  BY <1>4, <1>8, <1>9, <1>10, <1>11, <1>12

\* What the property says of a request.
Follows ==
    IF Matching = {} THEN doing.do = "complete" /\ doing.response.status = 404
    ELSE IF Able = {} THEN /\ doing.do = "complete" /\ doing.response.status = 405
                           /\ doing.response.headers["allow"] = {Entries[i].method : i \in Matching}
    ELSE \E i \in Able : /\ \A j \in Able : Better(i, j)
                         /\ doing = HandlerCalled(Entries[i])

LEMMA RefusedBy404 == Complete(NotFound, NotFoundBody).do = "complete" /\ Complete(NotFound, NotFoundBody).response.status = 404
BY DEF Complete, NotFound, PlainResponse

LEMMA RefusedBy405 ==
  ASSUME NEW allow
  PROVE  /\ Complete(MethodNotAllowed(allow), NotAllowedBody).do = "complete"
         /\ Complete(MethodNotAllowed(allow), NotAllowedBody).response.status = 405
         /\ Complete(MethodNotAllowed(allow), NotAllowedBody).response.headers["allow"] = allow
<1> DEFINE plain == PlainResponse(405, NotAllowedBody)
           headers == ("allow" :> allow) @@ plain.headers
<1>1. MethodNotAllowed(allow) = [plain EXCEPT !.headers = headers]
  BY DEF MethodNotAllowed
<1>2. plain = [status |-> 405, headers |-> plain.headers]
  BY DEF PlainResponse
<1>3. headers["allow"] = allow
  BY DEF :>, @@
<1> HIDE DEF plain, headers
<1>4. MethodNotAllowed(allow).status = 405 /\ MethodNotAllowed(allow).headers = headers
  BY <1>1, <1>2
<1>5. QED
  BY <1>3, <1>4 DEF Complete

LEMMA DispatchedFollows ==
  ASSUME EntriesTyped, table = Built, doing = Dispatched
  PROVE  Follows
<1>1. PICK N \in Nat :
         /\ DOMAIN Built = 1 .. N
         /\ \A i \in DOMAIN Entries : \E q \in 1 .. N :
               /\ Built[q].template = Entries[i].template
               /\ Entries[i].method \in DOMAIN Built[q].methods
         /\ \A q \in 1 .. N : \A x \in DOMAIN Built[q].methods :
               /\ Built[q].methods[x] \in DOMAIN Entries
               /\ Entries[Built[q].methods[x]].template = Built[q].template
               /\ Entries[Built[q].methods[x]].method = x
         /\ \A q \in 1 .. N : \E i \in DOMAIN Entries : Entries[i].template = Built[q].template
         /\ \A q, r \in 1 .. N : \A x \in DOMAIN Built[q].methods : \A j \in DOMAIN Entries :
               (q <= r /\ Entries[j].template = Built[r].template /\ Entries[j].method = x)
                  => Better(Built[q].methods[x], j)
  BY RowsAreEntries
<1> DEFINE matched == {q \in DOMAIN table : MatchesPath(table[q].template, req.path)}
           able == {q \in matched : req.method \in DOMAIN table[q].methods}
           first == CHOOSE q \in able : \A r \in able : q <= r
           m == Match(table, req.path, req.method)
<1>2. m = CASE matched = {} -> [kind |-> "not_found"]
            [] matched # {} /\ able = {} ->
                 [kind |-> "method_not_allowed",
                  allow |-> UNION {DOMAIN table[q].methods : q \in matched}]
            [] OTHER ->
                 [kind |-> "ok", route |-> table[first], method |-> req.method,
                  args |-> PathArgs(table[first].template, req.path)]
  BY Zenon DEF Match
<1>3. doing = CASE m.kind = "not_found" -> Complete(NotFound, NotFoundBody)
                [] m.kind = "method_not_allowed" -> Complete(MethodNotAllowed(m.allow), NotAllowedBody)
                [] OTHER -> HandlerCalled(Entries[m.route.methods[m.method]])
  BY DEF Dispatched, AsyncMatch
<1>4. \A q \in matched : q \in 1 .. N /\ table[q] = Built[q] /\ MatchesPath(Built[q].template, req.path)
  BY <1>1
<1>5. \A q \in 1 .. N : MatchesPath(Built[q].template, req.path) => q \in matched
  BY <1>1
<1>6. \A q \in matched : q \in able <=> req.method \in DOMAIN Built[q].methods
  BY <1>4
<1>7. able \subseteq matched
  OBVIOUS
<1> HIDE DEF matched, able, first, m
<1>8. ASSUME NEW i \in Matching
      PROVE  \E q \in matched : Built[q].template = Entries[i].template /\ Entries[i].method \in DOMAIN Built[q].methods
  BY <1>1, <1>5 DEF Matching
<1>9. ASSUME NEW q \in matched, NEW x \in DOMAIN Built[q].methods
      PROVE  Built[q].methods[x] \in Matching /\ Entries[Built[q].methods[x]].method = x
  <2>1. q \in 1 .. N /\ MatchesPath(Built[q].template, req.path)
    BY <1>4
  <2>2. /\ Built[q].methods[x] \in DOMAIN Entries
        /\ Entries[Built[q].methods[x]].template = Built[q].template
        /\ Entries[Built[q].methods[x]].method = x
    BY <1>1, <2>1
  <2>3. MatchesPath(Entries[Built[q].methods[x]].template, req.path)
    BY <2>1, <2>2
  <2>4. QED
    BY <2>2, <2>3 DEF Matching
<1>10. matched = {} <=> Matching = {}
  <2>1. \A q \in matched : \E i \in DOMAIN Entries : Entries[i].template = Built[q].template
    BY <1>1, <1>4
  <2>2. matched # {} => Matching # {}
    BY <1>4, <2>1 DEF Matching
  <2>3. QED
    BY <1>8, <2>2
<1>11. able = {} <=> Able = {}
  <2>1. able # {} => Able # {}
    BY <1>6, <1>7, <1>9 DEF Able
  <2>2. Able # {} => able # {}
    BY <1>6, <1>8 DEF Able
  <2>3. QED
    BY <2>1, <2>2
<1>12. CASE matched = {}
  <2>1. m = [kind |-> "not_found"]
    BY <1>2, <1>12
  <2>2. m.kind = "not_found"
    BY <2>1
  <2>3. doing = Complete(NotFound, NotFoundBody)
    BY <1>3, <2>2
  <2>4. QED
    BY <1>10, <1>12, <2>3, RefusedBy404 DEF Follows
<1>13. CASE matched # {} /\ able = {}
  <2> DEFINE allow == UNION {DOMAIN table[q].methods : q \in matched}
  <2>1. m = [kind |-> "method_not_allowed", allow |-> allow]
    BY <1>2, <1>13
  <2> HIDE DEF allow
  <2>2. m.kind = "method_not_allowed" /\ m.allow = allow
    BY <2>1
  <2>3. doing = Complete(MethodNotAllowed(allow), NotAllowedBody)
    BY <1>3, <2>2
  <2>4. allow = {Entries[i].method : i \in Matching}
    <3>1. ASSUME NEW x \in allow PROVE \E i \in Matching : Entries[i].method = x
      <4>1. PICK q \in matched : x \in DOMAIN Built[q].methods
        BY <1>4, <3>1 DEF allow
      <4>2. QED
        BY <1>9, <4>1
    <3>2. ASSUME NEW i \in Matching PROVE Entries[i].method \in allow
      <4>1. PICK q \in matched : Entries[i].method \in DOMAIN table[q].methods
        BY <1>4, <1>8
      <4>2. QED
        BY <4>1 DEF allow
    <3>3. QED
      BY <3>1, <3>2
  <2>5. QED
    BY <1>10, <1>11, <1>13, <2>3, <2>4, RefusedBy405 DEF Follows
<1>14. CASE able # {}
  <2>1. able \in SUBSET Nat
    BY <1>4, <1>7
  <2>2. \E q \in able : \A r \in able : q <= r
    BY <1>14, <2>1, LeastOfNats
  <2>3. first \in able /\ \A r \in able : first <= r
    BY <2>2 DEF first
  <2>4. m = [kind |-> "ok", route |-> table[first], method |-> req.method,
             args |-> PathArgs(table[first].template, req.path)]
    BY <1>2, <1>7, <1>14
  <2>5. m.kind = "ok" /\ m.route = table[first] /\ m.method = req.method
    BY <2>4
  <2>6. first \in matched /\ table[first] = Built[first] /\ req.method \in DOMAIN Built[first].methods
    BY <1>4, <1>6, <1>7, <2>3
  <2> DEFINE i == Built[first].methods[req.method]
  <2>7. doing = HandlerCalled(Entries[i])
    BY <1>3, <2>5, <2>6
  <2>8. i \in Able
    BY <1>9, <2>6 DEF Able
  <2>9. ASSUME NEW j \in Able PROVE Better(i, j)
    <3>1. j \in DOMAIN Entries /\ Entries[j].method = req.method /\ j \in Matching
      BY DEF Able, Matching
    <3>2. PICK r \in matched : Built[r].template = Entries[j].template /\ Entries[j].method \in DOMAIN Built[r].methods
      BY <1>8, <3>1
    <3>3. r \in able
      BY <1>6, <3>1, <3>2
    <3>4. first <= r /\ first \in 1 .. N /\ r \in 1 .. N
      BY <1>4, <2>3, <2>6, <3>3
    <3>5. QED
      BY <1>1, <2>6, <3>1, <3>2, <3>4
  <2> HIDE DEF i
  <2>10. QED
    BY <1>7, <1>10, <1>11, <1>14, <2>7, <2>8, <2>9 DEF Follows
<1>15. QED
  BY <1>12, <1>13, <1>14

-----------------------------------------------------------------------------
(* The table is the registrations', and every answer of a router is its     *)

TableInv ==
    /\ registry \in Seq(Registrable)
    /\ \A i \in DOMAIN registry : registry[i].app = mount.app
    /\ mount.app # "static" =>
          /\ pc # "register" => table = Built
          /\ pc # "stat"
          /\ pc = "send" => doing = Dispatched

LEMMA EntriesStay == UNCHANGED <<mount, registry>> => Entries' = Entries
BY DEF Entries

LEMMA AddedStays == UNCHANGED <<mount, registry>> => Added' = Added
BY EntriesStay DEF Added

LEMMA BuiltStays == UNCHANGED <<mount, registry>> => Built' = Built
BY AddedStays DEF Built

LEMMA DispatchedStays == UNCHANGED <<mount, registry, table, req>> => Dispatched' = Dispatched
<1> SUFFICES ASSUME UNCHANGED <<mount, registry, table, req>> PROVE Dispatched' = Dispatched
  OBVIOUS
<1>1. Entries' = Entries
  BY EntriesStay
<1>2. \A e : HandlerCalled(e)' = HandlerCalled(e)
  BY DEF HandlerCalled, OperationCalled
<1>3. QED
  BY <1>1, <1>2 DEF Dispatched, AsyncMatch

LEMMA DispatchedDoes == Dispatched.do \in {"complete", "stream", "fail"}
<1>1. \A r, n : Complete(r, n).do = "complete"
  BY DEF Complete
<1>2. \A h : RouteCalled(h).do \in {"complete", "stream", "fail"}
  BY <1>1 DEF RouteCalled
<1>3. \A e : OperationCalled(e).do \in {"complete", "stream", "fail"}
  BY <1>1 DEF OperationCalled
<1>4. \A e : HandlerCalled(e).do \in {"complete", "stream", "fail"}
  BY <1>2, <1>3 DEF HandlerCalled
<1>5. QED
  BY <1>1, <1>4 DEF Dispatched

LEMMA InitTable == AppInit => TableInv
<1> SUFFICES ASSUME AppInit PROVE TableInv
  OBVIOUS
<1>1. registry \in Seq(Registrable) /\ DOMAIN registry = {}
  BY EmptySeq, LenProperties DEF AppInit
<1>2. mount.app # "static" => pc = "register"
  BY DEF AppInit
<1>3. QED
  BY <1>1, <1>2 DEF TableInv

\* Steps that neither register nor answer.
LEMMA OtherTable ==
  ASSUME TableInv, UNCHANGED <<mount, registry, table>>,
         mount.app # "static" =>
            /\ pc' # "stat"
            /\ pc' # "register" => pc # "register"
            /\ pc' = "send" => pc = "send" /\ UNCHANGED <<doing, req>>
  PROVE  TableInv'
<1>1. Built' = Built
  BY BuiltStays
<1>2. UNCHANGED req => Dispatched' = Dispatched
  BY DispatchedStays
<1>3. QED
  BY <1>1, <1>2 DEF TableInv

LEMMA RegisterTable ==
  ASSUME TableInv, NEW r \in Registrable, Register(r)
  PROVE  TableInv'
<1>1. /\ pc = "register" /\ pc' = "register" /\ mount' = mount
      /\ registry' = Append(registry, r) /\ r.app = mount.app /\ registry \in Seq(Registrable)
  BY DEF Register, TableInv
<1>2. /\ registry' \in Seq(Registrable) /\ Len(registry') = Len(registry) + 1
      /\ \A i \in 1 .. Len(registry) : registry'[i] = registry[i]
      /\ registry'[Len(registry) + 1] = r
  BY <1>1, AppendProperties
<1>3. /\ DOMAIN registry = 1 .. Len(registry) /\ Len(registry) \in Nat
      /\ DOMAIN registry' = 1 .. (Len(registry) + 1)
  BY <1>1, <1>2, LenProperties
<1>4. \A i \in DOMAIN registry' : i \in DOMAIN registry \/ i = Len(registry) + 1
  BY <1>3
<1>5. \A i \in DOMAIN registry' : registry'[i].app = mount'.app
  BY <1>1, <1>2, <1>3, <1>4 DEF TableInv
<1>6. QED
  BY <1>1, <1>2, <1>5 DEF TableInv

LEMMA NextTable == TableInv /\ [AppNext]_avars => TableInv'
<1> SUFFICES ASSUME TableInv, [AppNext]_avars PROVE TableInv'
  OBVIOUS
<1>1. ASSUME NEW r \in Registrable, Register(r) PROVE TableInv'
  BY <1>1, RegisterTable
<1>2. CASE Build
  <2>1. pc' = "idle" /\ UNCHANGED <<mount, registry>> /\ table' = Built
    BY <1>2 DEF Build
  <2>2. Built' = Built
    BY <2>1, BuiltStays
  <2>3. QED
    BY <2>1, <2>2 DEF TableInv
<1>3. CASE BuildRefused
  <2>1. pc' = "register" /\ mount' = mount /\ registry' = <<>>
    BY <1>3 DEF BuildRefused
  <2>2. registry' \in Seq(Registrable) /\ DOMAIN registry' = {}
    BY <2>1, EmptySeq, LenProperties
  <2>3. QED
    BY <2>1, <2>2 DEF TableInv
<1>4. ASSUME NEW r \in Requests, NEW a \in Accepts, Receive(r, a) PROVE TableInv'
  <2>1. pc = "idle" /\ pc' = "dispatch" /\ UNCHANGED <<mount, registry, table>>
    BY <1>4 DEF Receive
  <2>2. QED
    BY <2>1, OtherTable
<1>5. CASE DispatchRequest
  <2>1. pc = "dispatch" /\ UNCHANGED <<mount, registry, table, req>>
    BY <1>5 DEF DispatchRequest
  <2>2. Built' = Built /\ Dispatched' = Dispatched
    BY <2>1, BuiltStays, DispatchedStays
  <2>3. mount.app # "static" => doing' = Dispatched /\ pc' = "send"
    BY <1>5, DispatchedDoes DEF DispatchRequest
  <2>4. pc' \in {"stat", "send"}
    BY <1>5 DEF DispatchRequest
  <2>5. QED
    BY <2>1, <2>2, <2>3, <2>4 DEF TableInv
<1>6. CASE Stat
  <2>1. pc = "stat" /\ pc' = "send" /\ UNCHANGED <<mount, registry, table>>
    BY <1>6 DEF Stat
  <2>2. mount.app = "static"
    BY <2>1 DEF TableInv
  <2>3. QED
    BY <2>1, <2>2, OtherTable
<1>7. CASE SendComplete \/ SendFileBytes \/ SendStart
  <2>1. pc = "send" /\ pc' \in {"answered", "stream"} /\ UNCHANGED <<mount, registry, table>>
    BY <1>7 DEF SendComplete, SendFileBytes, SendStart
  <2>2. QED
    BY <2>1, OtherTable
<1>8. CASE SendChunk \/ SendEnd
  <2>1. /\ pc = "stream" /\ pc' \in {"stream", "answered"}
        /\ UNCHANGED <<mount, registry, table>>
    BY <1>8 DEF SendChunk, SendEnd
  <2>2. QED
    BY <2>1, OtherTable
<1>9. CASE Answered
  <2>1. pc = "answered" /\ pc' = "idle" /\ UNCHANGED <<mount, registry, table>>
    BY <1>9 DEF Answered
  <2>2. QED
    BY <2>1, OtherTable
<1>10. ASSUME NEW s \in Sizes, NEW l \in {1, 2}, Write(s, l) PROVE TableInv'
  <2>1. mount.app = "static" /\ UNCHANGED <<mount, registry, table>>
    BY <1>10 DEF Write
  <2>2. QED
    BY <2>1, OtherTable
<1>11. CASE UNCHANGED avars
  <2>1. UNCHANGED <<mount, registry, table, pc, doing, req>>
    BY <1>11 DEF avars
  <2>2. QED
    BY <2>1, OtherTable DEF TableInv
<1>12. QED
  BY <1>1, <1>2, <1>3, <1>4, <1>5, <1>6, <1>7, <1>8, <1>9, <1>10, <1>11 DEF AppNext

LEMMA TableSafe == TableInv => DispatchFollowsRegistration
<1> SUFFICES ASSUME TableInv, pc = "send", mount.app # "static" PROVE Follows
  BY DEF DispatchFollowsRegistration, Follows, Matching, Able, Better, PrefixOf, FirstOf
<1>1. EntriesTyped
  BY EntriesAreTyped DEF TableInv
<1>2. QED
  BY <1>1, DispatchedFollows DEF TableInv

\* Whatever is registered, in whatever order, and whoever asks for what: a request is
\* refused with 404 when no template matches, with 405 and the methods that there are
\* when none has its own, and otherwise answered by the handler registered last for
\* the first template of the longest literal prefix that has the method.
THEOREM RegistrationsDecide == AppSpec => []DispatchFollowsRegistration
<1>1. AppInit => TableInv
  BY InitTable
<1>2. TableInv /\ [AppNext]_avars => TableInv'
  BY NextTable
<1>3. TableInv => DispatchFollowsRegistration
  BY TableSafe
<1>4. QED
  BY <1>1, <1>2, <1>3, PTL DEF AppSpec

-----------------------------------------------------------------------------
(* What handlers answer: the length they declare is that of the body        *)

TrueBody(response, size) ==
    BodyAllowed(response.status) => TrueLength(response.headers, IF size > 0 THEN size ELSE 0)

TrueDoing(d) ==
    /\ d.do = "complete" => d.body \in Int /\ TrueBody(d.response, d.body)
    /\ d.do = "stream" => TrueStream(d.response.headers, d.chunks)

TrueOrRaised(result) == result.body = "raised" \/ TrueResult(result)

LEMMA NoHeaders == DOMAIN <<>> = {}
OBVIOUS

LEMMA PlainIsTrue ==
  ASSUME NEW status, NEW size \in Nat
  PROVE  /\ TrueBody(PlainResponse(status, size), size)
         /\ DOMAIN PlainResponse(status, size).headers = {"content-type", "content-length"}
         /\ PlainResponse(status, size).headers["content-type"] = "text/plain"
         /\ PlainResponse(status, size).headers["content-length"] = size
<1> DEFINE headers == ("content-type" :> "text/plain") @@ ("content-length" :> size)
<1>1. PlainResponse(status, size).headers = headers
  BY DEF PlainResponse
<1>2. /\ DOMAIN headers = {"content-type", "content-length"}
      /\ headers["content-length"] = size /\ headers["content-type"] = "text/plain"
  BY DEF :>, @@
<1> HIDE DEF headers
<1>3. TrueBody(PlainResponse(status, size), size)
  BY <1>1, <1>2 DEF TrueBody, TrueLength
<1>4. QED
  BY <1>1, <1>2, <1>3

\* An operation's own answer ...
LEMMA RunCoreIsTrue ==
  ASSUME NEW fn, OperationFunction(fn), NEW template, NEW r, NEW flavour
  PROVE  TrueOrRaised(RunCore(fn, template, r, flavour))
<1>1. TrueOrRaised(BadRequest)
  BY NoHeaders DEF TrueOrRaised, TrueResult, BadRequest, Answer, TrueLength
<1>2. TrueOrRaised(Failure)
  BY DEF TrueOrRaised, Failure
<1>3. ASSUME NEW shapes PROVE TrueOrRaised(Normalised(fn.value, shapes))
  <2>1. CASE fn.value.type = "raise"
    <3>1. Normalised(fn.value, shapes) = Failure
      BY <2>1 DEF Normalised
    <3>2. QED
      BY <1>2, <3>1
  <2>2. CASE fn.value.type = "none"
    <3>1. PICK status : Normalised(fn.value, shapes) = Answer(status, "none", 0, <<>>)
      BY <2>2 DEF Normalised
    <3>2. TrueResult(Answer(status, "none", 0, <<>>))
      BY NoHeaders DEF TrueResult, Answer, TrueLength
    <3>3. QED
      BY <3>1, <3>2 DEF TrueOrRaised
  <2>3. CASE fn.value.type \in {"iterator", "sync iterator"} /\ fn.value.chunks \in Seq(Nat)
    <3>1. Normalised(fn.value, shapes) = Answer(200, "events", fn.value.chunks, <<>>)
      BY <2>3 DEF Normalised
    <3>2. TrueResult(Answer(200, "events", fn.value.chunks, <<>>))
      BY <2>3, NoHeaders DEF TrueResult, Answer, TrueStream
    <3>3. QED
      BY <3>1, <3>2 DEF TrueOrRaised
  <2>4. CASE fn.value.type \in {"text", "octets", "json"} /\ fn.value.size \in Nat
    <3>1. Normalised(fn.value, shapes) = Answer(200, fn.value.type, fn.value.size, <<>>)
      BY <2>4 DEF Normalised
    <3>2. TrueResult(Answer(200, fn.value.type, fn.value.size, <<>>))
      BY <2>4, NoHeaders DEF TrueResult, Answer, TrueLength
    <3>3. QED
      BY <3>1, <3>2 DEF TrueOrRaised
  <2>5. CASE fn.value.type = "result" /\ TrueResult(fn.value.result)
    <3>1. Normalised(fn.value, shapes) = fn.value.result
      BY <2>5 DEF Normalised
    <3>2. QED
      BY <2>5, <3>1 DEF TrueOrRaised
  <2>6. QED
    BY <2>1, <2>2, <2>3, <2>4, <2>5 DEF OperationFunction
<1>4. ASSUME NEW shapes PROVE TrueOrRaised(AsyncNormalised(fn.value, shapes))
  BY <1>2, <1>3 DEF AsyncNormalised
<1>5. QED
  BY <1>1, <1>3, <1>4 DEF RunCore

\* ... and what the middlewares around it make of it.
LEMMA WrappedIsTrue ==
  ASSUME NEW mws, MiddlewareFunctions(mws), NEW i \in DOMAIN mws,
         NEW rest, TrueOrRaised(rest), NEW args, NEW r
  PROVE  TrueOrRaised(WrapMiddleware(mws[i], rest, args, r))
<1>1. TrueOrRaised(BadRequest)
  BY NoHeaders DEF TrueOrRaised, TrueResult, BadRequest, Answer, TrueLength
<1>2. TrueOrRaised(Failure)
  BY DEF TrueOrRaised, Failure
<1>3. TrueOrRaised(Unauthorized(mws[i]))
  <2> DEFINE h == IF mws[i].scheme = "basicAuth" THEN "www-authenticate" :> "basic" ELSE <<>>
  <2>1. "content-length" \notin DOMAIN h
    BY NoHeaders DEF :>
  <2> HIDE DEF h
  <2>2. TrueResult(Answer(401, "text", 4, h))
    BY <2>1 DEF TrueResult, Answer, TrueLength
  <2>3. Unauthorized(mws[i]) = Answer(401, "text", 4, h)
    BY DEF Unauthorized, h
  <2>4. QED
    BY <2>2, <2>3 DEF TrueOrRaised
<1>4. \/ mws[i].does \in {"authenticate", "call next", "return something else"}
      \/ mws[i].does = "answer" /\ TrueResult(mws[i].result)
  BY DEF MiddlewareFunctions
<1>5. \/ WrapMiddleware(mws[i], rest, args, r) \in {BadRequest, Failure, Unauthorized(mws[i]), rest}
      \/ mws[i].does = "answer" /\ WrapMiddleware(mws[i], rest, args, r) = mws[i].result
  BY <1>4 DEF WrapMiddleware
<1>6. mws[i].does = "answer" => TrueOrRaised(mws[i].result)
  BY <1>4 DEF TrueOrRaised
<1>7. QED
  BY <1>1, <1>2, <1>3, <1>5, <1>6

\* The chain, from the operation outwards.
ChainNext(f, i, core, mws, args, r) ==
    IF i = 0 THEN core ELSE WrapMiddleware(mws[Len(mws) + 1 - i], f[i - 1], args, r)

IsChain(f, n, core, mws, args, r) == f = [i \in 0 .. n |-> ChainNext(f, i, core, mws, args, r)]

LEMMA ChainExists ==
  ASSUME NEW n \in Nat, NEW core, NEW mws, NEW args, NEW r
  PROVE  \E f : IsChain(f, n, core, mws, args, r)
<1> DEFINE Next1(f, i) == ChainNext(f, i, core, mws, args, r)
           Is(f, m) == f = [i \in 0 .. m |-> Next1(f, i)]
           T == {m \in Nat : \E f : Is(f, m)}
<1>0. /\ \A f : Next1(f, 0) = core
      /\ \A f, g : \A i : (i # 0 => f[i - 1] = g[i - 1]) => Next1(f, i) = Next1(g, i)
  BY DEF ChainNext
<1> HIDE DEF Next1
<1>1. 0 \in T
  <2>1. [i \in 0 .. 0 |-> core] = [i \in 0 .. 0 |-> Next1([j \in 0 .. 0 |-> core], i)]
    BY <1>0
  <2>2. QED
    BY <2>1
<1>2. ASSUME NEW m \in 0 .. n - 1, m \in T PROVE m + 1 \in T
  <2>1. PICK f : Is(f, m)
    BY <1>2
  <2>2. PICK g : g = [i \in 0 .. m + 1 |-> IF i = m + 1 THEN Next1(f, m + 1) ELSE f[i]]
    OBVIOUS
  <2>3. \A i \in 0 .. m : g[i] = f[i] /\ f[i] = Next1(f, i)
    BY <2>1, <2>2
  <2>4. ASSUME NEW i \in 0 .. m + 1 PROVE g[i] = Next1(g, i)
    <3>1. CASE i = m + 1
      <4>1. g[i] = Next1(f, i) /\ i # 0 /\ i - 1 \in 0 .. m
        BY <2>2, <3>1
      <4>2. g[i - 1] = f[i - 1]
        BY <2>3, <4>1
      <4>3. QED
        BY <1>0, <4>1, <4>2
    <3>2. CASE i # m + 1
      <4>1. i \in 0 .. m /\ (i # 0 => i - 1 \in 0 .. m)
        BY <3>2
      <4>2. g[i] = Next1(f, i) /\ (i # 0 => g[i - 1] = f[i - 1])
        BY <2>3, <4>1
      <4>3. QED
        BY <1>0, <4>2
    <3>3. QED
      BY <3>1, <3>2
  <2>5. g = [i \in 0 .. m + 1 |-> Next1(g, i)]
    BY <2>2, <2>4
  <2>6. m + 1 \in Nat /\ Is(g, m + 1)
    BY <2>5
  <2>7. QED
    BY <2>6
<1> HIDE DEF T
<1>3. \A i \in 0 .. n : i \in T
  BY <1>1, <1>2, UpTo
<1>4. n \in T
  BY <1>3
<1>5. \E f : Is(f, n)
  BY <1>4 DEF T
<1>6. QED
  BY <1>5 DEF IsChain, Next1

LEMMA RunIsChain ==
  ASSUME NEW fn, NEW template, NEW mws, Len(mws) \in Nat, NEW r, NEW flavour
  PROVE  \E f : /\ IsChain(f, Len(mws), RunCore(fn, template, r, flavour), mws,
                           PathArgs(template, r.path), r)
                /\ Run(fn, template, mws, r, flavour) = f[Len(mws)]
<1>1. \E f : IsChain(f, Len(mws), RunCore(fn, template, r, flavour), mws, PathArgs(template, r.path), r)
  BY ChainExists
<1>2. \E f : f = [n \in 0..Len(mws) |->
                    IF n = 0 THEN RunCore(fn, template, r, flavour)
                    ELSE WrapMiddleware(mws[Len(mws) + 1 - n], f[n - 1], PathArgs(template, r.path), r)]
  BY <1>1 DEF IsChain, ChainNext
<1>3. QED
  BY <1>2, Zenon DEF Run, IsChain, ChainNext

LEMMA RunIsTrue ==
  ASSUME NEW fn, OperationFunction(fn), NEW template, NEW mws, MiddlewareFunctions(mws), NEW r, NEW flavour
  PROVE  TrueOrRaised(Run(fn, template, mws, r, flavour))
<1>1. Len(mws) \in Nat /\ DOMAIN mws = 1 .. Len(mws)
  BY LenProperties DEF MiddlewareFunctions
<1> DEFINE core == RunCore(fn, template, r, flavour)
           args == PathArgs(template, r.path)
<1>2. PICK f : IsChain(f, Len(mws), core, mws, args, r) /\ Run(fn, template, mws, r, flavour) = f[Len(mws)]
  BY <1>1, RunIsChain
<1>3. TrueOrRaised(core)
  BY RunCoreIsTrue
<1> HIDE DEF core, args
<1>4. \A i \in 0 .. Len(mws) : f[i] = ChainNext(f, i, core, mws, args, r)
  BY <1>2 DEF IsChain
<1> DEFINE T == {i \in 0 .. Len(mws) : TrueOrRaised(f[i])}
<1>5. 0 \in T
  BY <1>1, <1>3, <1>4 DEF ChainNext
<1>6. ASSUME NEW i \in 0 .. Len(mws) - 1, i \in T PROVE i + 1 \in T
  <2>1. i + 1 \in 0 .. Len(mws) /\ i + 1 # 0 /\ i + 1 - 1 = i /\ Len(mws) + 1 - (i + 1) \in DOMAIN mws
    BY <1>1
  <2>2. f[i + 1] = WrapMiddleware(mws[Len(mws) + 1 - (i + 1)], f[i], args, r)
    BY <1>4, <2>1 DEF ChainNext
  <2>3. TrueOrRaised(f[i])
    BY <1>6
  <2>4. TrueOrRaised(f[i + 1])
    BY <2>1, <2>2, <2>3, WrappedIsTrue
  <2>5. QED
    BY <2>1, <2>4
<1> HIDE DEF T
<1>7. \A i \in 0 .. Len(mws) : i \in T
  BY <1>1, <1>5, <1>6, UpTo
<1>8. Len(mws) \in T
  BY <1>1, <1>7
<1>9. QED
  BY <1>2, <1>8 DEF T

LEMMA ConcatMiddlewares ==
  ASSUME NEW a, MiddlewareFunctions(a), NEW b, MiddlewareFunctions(b)
  PROVE  MiddlewareFunctions(a \o b)
<1> DEFINE A == {a[i] : i \in DOMAIN a}
           B == {b[i] : i \in DOMAIN b}
           good(m) == \/ m.does \in {"authenticate", "call next", "return something else"}
                      \/ m.does = "answer" /\ TrueResult(m.result)
           M == {m \in A \cup B : good(m)}
           c == a \o b
<1>1. a \in Seq(A) /\ b \in Seq(B)
  BY DEF MiddlewareFunctions
<1>2. \A i \in DOMAIN a : good(a[i])
  BY DEF MiddlewareFunctions
<1>3. \A i \in DOMAIN b : good(b[i])
  BY DEF MiddlewareFunctions
<1>4. \A m \in A \cup B : m \in M
  BY <1>2, <1>3
<1>4a. \A m \in M : good(m)
  OBVIOUS
<1> HIDE DEF A, B, M, good
<1>5. a \in Seq(M) /\ b \in Seq(M)
  BY <1>1, <1>4, SeqMonotonic
<1>6. c \in Seq(M)
  BY <1>5, ConcatProperties
<1> HIDE DEF c
<1>7. /\ Len(c) \in Nat /\ DOMAIN c = 1 .. Len(c) /\ c \in [1 .. Len(c) -> M]
  BY <1>6, LenProperties
<1>8. \A i \in DOMAIN c : good(c[i])
  BY <1>4a, <1>7
<1>9. c \in Seq({c[i] : i \in DOMAIN c})
  <2>1. c \in [1 .. Len(c) -> {c[i] : i \in DOMAIN c}]
    BY <1>7
  <2>2. QED
    BY <1>7, <2>1, SeqDef
<1>10. MiddlewareFunctions(c)
  BY <1>8, <1>9 DEF MiddlewareFunctions, good
<1>11. QED
  BY <1>10 DEF c

\* What an operation's result becomes on its way to the context.
LEMMA BuiltResponseIsTrue ==
  ASSUME NEW result, result.size \in Nat, TrueLength(result.headers, result.size)
  PROVE  TrueDoing(Complete(BuildHttpResponse(result), result.size))
<1> DEFINE type == CASE result.body = "text" -> "text/plain"
                     [] result.body = "octets" -> "application/octet-stream"
                     [] OTHER -> "application/json"
           typed == IF result.size > 0 THEN result.headers @@ ("content-type" :> type) ELSE result.headers
           headers == typed @@ ("content-length" :> result.size)
<1>1. BuildHttpResponse(result) = [status |-> result.status, headers |-> headers]
  BY DEF BuildHttpResponse
<1> HIDE DEF type
<1>2. "content-length" \in DOMAIN typed => typed["content-length"] = result.size
  BY DEF TrueLength, :>, @@
<1> HIDE DEF typed
<1>3. headers["content-length"] = result.size
  BY <1>2 DEF :>, @@
<1> HIDE DEF headers
<1>4. BuildHttpResponse(result).headers = headers
  BY <1>1
<1>5. TrueBody(BuildHttpResponse(result), result.size)
  BY <1>3, <1>4 DEF TrueBody, TrueLength
<1>6. QED
  BY <1>5 DEF TrueDoing, Complete

LEMMA StreamSseIsTrue ==
  ASSUME NEW result, TrueStream(result.headers, result.size)
  PROVE  TrueStream(StreamSse(result).headers, result.size)
<1> DEFINE own == ("content-type" :> "text/event-stream") @@ ("cache-control" :> {"no-cache"})
           headers == own @@ result.headers
<1>1. StreamSse(result).headers = headers
  BY DEF StreamSse
<1>2. DOMAIN own = {"content-type", "cache-control"}
  BY DEF :>, @@
<1> HIDE DEF own
<1>3. /\ "content-length" \in DOMAIN headers <=> "content-length" \in DOMAIN result.headers
      /\ "content-length" \in DOMAIN headers => headers["content-length"] = result.headers["content-length"]
  BY <1>2 DEF @@
<1> HIDE DEF headers
<1>4. QED
  BY <1>1, <1>3 DEF TrueStream

LEMMA OperationIsTrue ==
  ASSUME NEW entry,
         \/ entry.handler = "built-in"
         \/ OperationFunction(Handlers[entry.handler]) /\ MiddlewareFunctions(entry.middlewares)
  PROVE  TrueDoing(OperationCalled(entry))
<1>1. CASE entry.handler = "built-in"
  <2>1. OperationCalled(entry) = Complete(PlainResponse(200, 3), 3)
    BY <1>1 DEF OperationCalled
  <2>2. TrueBody(PlainResponse(200, 3), 3)
    BY PlainIsTrue
  <2>3. QED
    BY <2>1, <2>2 DEF TrueDoing, Complete
<1>2. CASE entry.handler # "built-in"
  <2> DEFINE result == Run(Handlers[entry.handler], entry.template, AppMiddlewares \o entry.middlewares,
                           req, mount.flavour)
  <2>1. OperationCalled(entry) = CASE result.body = "raised" -> [do |-> "fail"]
             [] result.body = "events" ->
                  [do |-> "stream", response |-> StreamSse(result), chunks |-> result.size]
             [] OTHER -> Complete(BuildHttpResponse(result), result.size)
    BY <1>2, Zenon DEF OperationCalled
  <2>2. TrueOrRaised(result)
    BY <1>2, HandlersAssumption, ConcatMiddlewares, RunIsTrue
  <2> HIDE DEF result
  <2>3. CASE result.body = "raised"
    <3>1. OperationCalled(entry) = [do |-> "fail"]
      BY <2>1, <2>3
    <3>2. OperationCalled(entry).do = "fail"
      BY <3>1
    <3>3. QED
      BY <3>2 DEF TrueDoing
  <2>4. CASE result.body = "events"
    <3>1. OperationCalled(entry) = [do |-> "stream", response |-> StreamSse(result), chunks |-> result.size]
      BY <2>1, <2>4
    <3>2. TrueStream(result.headers, result.size)
      BY <2>2, <2>4 DEF TrueOrRaised, TrueResult
    <3>3. TrueStream(StreamSse(result).headers, result.size)
      BY <3>2, StreamSseIsTrue
    <3>4. QED
      BY <3>1, <3>3 DEF TrueDoing
  <2>5. CASE result.body \notin {"raised", "events"}
    <3>1. OperationCalled(entry) = Complete(BuildHttpResponse(result), result.size)
      BY <2>1, <2>5
    <3>2. result.size \in Nat /\ TrueLength(result.headers, result.size)
      BY <2>2, <2>5 DEF TrueOrRaised, TrueResult
    <3>3. QED
      BY <3>1, <3>2, BuiltResponseIsTrue
  <2>6. QED
    BY <2>3, <2>4, <2>5
<1>3. QED
  BY <1>1, <1>2

LEMMA BuiltIsTrue ==
  ASSUME NEW type, NEW size \in Nat, NEW status
  PROVE  TrueBody([status |-> status, headers |-> ("content-type" :> type) @@ ("content-length" :> size)], size)
<1> DEFINE headers == ("content-type" :> type) @@ ("content-length" :> size)
<1>1. headers["content-length"] = size
  BY DEF :>, @@
<1> HIDE DEF headers
<1>2. TrueBody([status |-> status, headers |-> headers], size)
  BY <1>1 DEF TrueBody, TrueLength
<1>3. QED
  BY <1>2 DEF headers

LEMMA WrappedResponseIsTrue ==
  ASSUME NEW value,
         \/ value.type = "none"
         \/ value.type \in {"str", "bytes", "json"} /\ value.size \in Nat
         \/ value.type = "response" /\ TrueLength(value.response.headers, 0)
         \/ value.type = "pair" /\ value.size \in Nat /\ TrueLength(value.response.headers, value.size)
  PROVE  TrueDoing(Complete(WrapResponse(value)[1], WrapResponse(value)[2]))
<1>0. ASSUME NEW response, NEW size \in Int, TrueBody(response, size), WrapResponse(value) = <<response, size>>
      PROVE  TrueDoing(Complete(WrapResponse(value)[1], WrapResponse(value)[2]))
  BY <1>0 DEF TrueDoing, Complete
<1>1. CASE value.type = "response" /\ TrueLength(value.response.headers, 0)
  <2>1. WrapResponse(value) = <<value.response, 0>>
    BY <1>1 DEF WrapResponse
  <2>2. QED
    BY <1>0, <1>1, <2>1 DEF TrueBody
<1>2. CASE value.type = "pair" /\ value.size \in Nat /\ TrueLength(value.response.headers, value.size)
  <2>1. WrapResponse(value) = <<value.response, value.size>>
    BY <1>2 DEF WrapResponse
  <2>2. (IF value.size > 0 THEN value.size ELSE 0) = value.size
    BY <1>2
  <2>3. TrueBody(value.response, value.size)
    BY <1>2, <2>2 DEF TrueBody
  <2>4. QED
    BY <1>0, <1>2, <2>1, <2>3
<1>3. CASE value.type = "none"
  <2> DEFINE response == [status |-> 204, headers |-> "content-length" :> 0]
  <2>1. WrapResponse(value) = <<response, 0>>
    BY <1>3 DEF WrapResponse
  <2>2. TrueBody(response, 0)
    BY DEF TrueBody, BodyAllowed
  <2>3. QED
    BY <1>0, <2>1, <2>2
<1>4. CASE value.type \in {"str", "bytes", "json"} /\ value.size \in Nat
  <2> DEFINE built(type) == [status |-> 200, headers |-> ("content-type" :> type) @@ ("content-length" :> value.size)]
  <2>1. /\ value.type = "str" => WrapResponse(value) = <<built("text/plain"), value.size>>
        /\ value.type = "bytes" => WrapResponse(value) = <<built("application/octet-stream"), value.size>>
        /\ value.type = "json" => WrapResponse(value) = <<built("application/json"), value.size>>
    BY Zenon DEF WrapResponse
  <2>2. \A type : TrueBody(built(type), value.size)
    BY <1>4, BuiltIsTrue
  <2> HIDE DEF built
  <2>3. PICK type : WrapResponse(value) = <<built(type), value.size>>
    BY <1>4, <2>1
  <2>4. QED
    BY <1>0, <1>4, <2>2, <2>3
<1>5. QED
  BY <1>1, <1>2, <1>3, <1>4

LEMMA RouteIsTrue ==
  ASSUME NEW h, RouteFunction(h)
  PROVE  TrueDoing(RouteCalled(h))
<1>1. CASE h.does = "stream"
  <2>1. RouteCalled(h) = [do |-> "stream", response |-> h.response, chunks |-> h.chunks]
    BY <1>1 DEF RouteCalled
  <2>2. QED
    BY <1>1, <2>1 DEF RouteFunction, TrueDoing
<1>2. CASE h.does # "stream" /\ (h.does = "raise" \/ (h.does = "return" /\ h.value.type = "other"))
  <2>1. RouteCalled(h) = [do |-> "fail"]
    BY <1>2 DEF RouteCalled
  <2>2. RouteCalled(h).do = "fail"
    BY <2>1
  <2>3. QED
    BY <2>2 DEF TrueDoing
<1>3. CASE h.does = "return" /\ h.value.type # "other"
  <2>1. RouteCalled(h) = Complete(WrapResponse(h.value)[1], WrapResponse(h.value)[2])
    BY <1>3 DEF RouteCalled
  <2>2. QED
    BY <1>3, <2>1, WrappedResponseIsTrue DEF RouteFunction
<1>4. QED
  BY <1>1, <1>2, <1>3 DEF RouteFunction

\* What the router finds is an entry ...
LEMMA MatchedIsEntry ==
  ASSUME EntriesTyped, table = Built
  PROVE  LET m == Match(table, req.path, req.method)
         IN  m.kind \in {"not_found", "method_not_allowed"} \/ m.route.methods[m.method] \in DOMAIN Entries
<1>1. PICK N \in Nat :
         /\ DOMAIN Built = 1 .. N
         /\ \A q \in 1 .. N : \A x \in DOMAIN Built[q].methods : Built[q].methods[x] \in DOMAIN Entries
  BY RowsAreEntries
<1> DEFINE matched == {q \in DOMAIN table : MatchesPath(table[q].template, req.path)}
           able == {q \in matched : req.method \in DOMAIN table[q].methods}
           first == CHOOSE q \in able : \A r \in able : q <= r
           m == Match(table, req.path, req.method)
<1>2. m = CASE matched = {} -> [kind |-> "not_found"]
            [] matched # {} /\ able = {} ->
                 [kind |-> "method_not_allowed",
                  allow |-> UNION {DOMAIN table[q].methods : q \in matched}]
            [] OTHER ->
                 [kind |-> "ok", route |-> table[first], method |-> req.method,
                  args |-> PathArgs(table[first].template, req.path)]
  BY Zenon DEF Match
<1>4. \A q \in able : q \in 1 .. N /\ req.method \in DOMAIN Built[q].methods
  BY <1>1
<1>5. able \subseteq matched
  OBVIOUS
<1> SUFFICES m.kind \in {"not_found", "method_not_allowed"} \/ m.route.methods[m.method] \in DOMAIN Entries
  OBVIOUS
<1> HIDE DEF matched, able, first, m
<1>7. CASE able # {}
  <2>1. able \in SUBSET Nat
    BY <1>4
  <2>2. \E q \in able : \A r \in able : q <= r
    BY <1>7, <2>1, LeastOfNats
  <2>3. first \in able
    BY <2>2 DEF first
  <2>4. m = [kind |-> "ok", route |-> table[first], method |-> req.method,
             args |-> PathArgs(table[first].template, req.path)]
    BY <1>2, <1>5, <1>7
  <2>5. m.route = table[first] /\ m.method = req.method
    BY <2>4
  <2>6. Built[first].methods[req.method] \in DOMAIN Entries
    BY <1>1, <1>4, <2>3
  <2>7. QED
    BY <2>5, <2>6
<1>8. CASE able = {} /\ matched = {}
  <2>1. m = [kind |-> "not_found"]
    BY <1>2, <1>8
  <2>2. QED
    BY <2>1
<1>9. CASE able = {} /\ matched # {}
  <2> DEFINE allow == UNION {DOMAIN table[q].methods : q \in matched}
  <2>1. m = [kind |-> "method_not_allowed", allow |-> allow]
    BY <1>2, <1>9
  <2> HIDE DEF allow
  <2>2. QED
    BY <2>1
<1>10. QED
  BY <1>7, <1>8, <1>9

\* ... so whatever it answers is its own response or a registered handler's.
LEMMA DispatchedIsOneOf ==
  ASSUME EntriesTyped, table = Built
  PROVE  \/ Dispatched = Complete(NotFound, NotFoundBody)
         \/ \E allow : Dispatched = Complete(MethodNotAllowed(allow), NotAllowedBody)
         \/ \E i \in DOMAIN Entries : Dispatched = HandlerCalled(Entries[i])
<1> DEFINE m == Match(table, req.path, req.method)
<1>1. m.kind \in {"not_found", "method_not_allowed"} \/ m.route.methods[m.method] \in DOMAIN Entries
  BY MatchedIsEntry
<1>2. Dispatched = CASE m.kind = "not_found" -> Complete(NotFound, NotFoundBody)
                     [] m.kind = "method_not_allowed" -> Complete(MethodNotAllowed(m.allow), NotAllowedBody)
                     [] OTHER -> HandlerCalled(Entries[m.route.methods[m.method]])
  BY DEF Dispatched, AsyncMatch
<1> HIDE DEF m
<1>3. QED
  BY <1>1, <1>2

\* An entry comes from the registry or is the application's own.
LEMMA EntriesComeFrom ==
  ASSUME registry \in Seq(Registrable), NEW i \in DOMAIN Entries
  PROVE  \/ \E j \in DOMAIN registry : Entries[i] = registry[j]
         \/ mount.app = "openapi" /\ Entries[i].handler = "built-in"
<1>1. /\ Len(registry) \in Nat /\ DOMAIN registry = 1 .. Len(registry)
      /\ Len(BuiltIns) \in Nat /\ DOMAIN BuiltIns = 1 .. Len(BuiltIns)
  BY RoutesAssumption, LenProperties
<1>2. CASE mount.app = "openapi"
  <2> DEFINE R == {registry[j] : j \in DOMAIN registry}
             B == {BuiltIns[j] : j \in DOMAIN BuiltIns}
  <2>1. registry \in Seq(R)
    <3>1. registry \in [1 .. Len(registry) -> R]
      BY <1>1
    <3>2. QED
      BY <1>1, <3>1, SeqDef, SMTT(30)
  <2>2. BuiltIns \in Seq(B)
    BY RoutesAssumption
  <2>3. \A b \in B : b.handler = "built-in"
    BY RoutesAssumption
  <2>4. \A x \in R : \E j \in DOMAIN registry : x = registry[j]
    OBVIOUS
  <2> DEFINE E == registry \o BuiltIns
  <2>5. Entries = E
    BY <1>2 DEF Entries
  <2> HIDE DEF R, B
  <2>6. registry \in Seq(R \cup B) /\ BuiltIns \in Seq(R \cup B)
    BY <2>1, <2>2, SeqMonotonic
  <2>7. E \in Seq(R \cup B)
    BY <2>6, ConcatProperties
  <2> HIDE DEF E
  <2>8. E[i] \in R \cup B
    BY <2>5, <2>7, LenProperties
  <2>9. QED
    BY <1>2, <2>3, <2>4, <2>5, <2>8
<1>3. CASE mount.app # "openapi"
  BY <1>3 DEF Entries
<1>4. QED
  BY <1>2, <1>3

LEMMA HandlersAreTrue ==
  ASSUME TableInv, mount \in Mounts, mount.app # "static", NEW i \in DOMAIN Entries
  PROVE  TrueDoing(HandlerCalled(Entries[i]))
<1>1. mount.app \in {"routes", "openapi"} /\ registry \in Seq(Registrable)
  BY RoutesAssumption DEF TableInv
<1>2. \/ \E j \in DOMAIN registry : Entries[i] = registry[j]
      \/ mount.app = "openapi" /\ Entries[i].handler = "built-in"
  BY <1>1, EntriesComeFrom
<1>3. \A j \in DOMAIN registry : registry[j] \in Registrable /\ registry[j].app = mount.app
  BY <1>1, LenProperties DEF TableInv
<1>4. CASE mount.app = "openapi"
  <2>1. \/ Entries[i].handler = "built-in"
        \/ /\ OperationFunction(Handlers[Entries[i].handler])
           /\ MiddlewareFunctions(Entries[i].middlewares)
    BY <1>2, <1>3, <1>4, HandlersAssumption
  <2>2. HandlerCalled(Entries[i]) = OperationCalled(Entries[i])
    BY <1>4 DEF HandlerCalled
  <2>3. QED
    BY <2>1, <2>2, OperationIsTrue
<1>5. CASE mount.app = "routes"
  <2>1. RouteFunction(Handlers[Entries[i].handler])
    BY <1>2, <1>3, <1>5, HandlersAssumption
  <2>2. HandlerCalled(Entries[i]) = RouteCalled(Handlers[Entries[i].handler])
    BY <1>5 DEF HandlerCalled
  <2>3. QED
    BY <2>1, <2>2, RouteIsTrue
<1>6. QED
  BY <1>1, <1>4, <1>5

LEMMA RefusalIsTrue ==
  ASSUME NEW allow
  PROVE  TrueDoing(Complete(MethodNotAllowed(allow), NotAllowedBody))
<1> DEFINE plain == PlainResponse(405, NotAllowedBody)
           headers == ("allow" :> allow) @@ plain.headers
<1>1. /\ DOMAIN plain.headers = {"content-type", "content-length"}
      /\ plain.headers["content-length"] = NotAllowedBody
      /\ NotAllowedBody \in Nat /\ NotAllowedBody > 0
  BY PlainIsTrue DEF NotAllowedBody
<1>2. MethodNotAllowed(allow) = [plain EXCEPT !.headers = headers]
  BY DEF MethodNotAllowed
<1>3. DOMAIN plain = {"status", "headers"}
  BY DEF PlainResponse
<1> HIDE DEF plain
<1>4. headers["content-length"] = NotAllowedBody
  BY <1>1 DEF :>, @@
<1> HIDE DEF headers
<1>5. MethodNotAllowed(allow).headers = headers
  BY <1>2, <1>3
<1>6. TrueBody(MethodNotAllowed(allow), NotAllowedBody)
  BY <1>1, <1>4, <1>5 DEF TrueBody, TrueLength
<1>7. QED
  BY <1>1, <1>6 DEF TrueDoing, Complete

LEMMA DispatchedIsTrue ==
  ASSUME TableInv, mount \in Mounts, mount.app # "static", pc # "register"
  PROVE  TrueDoing(Dispatched)
<1>1. EntriesTyped /\ table = Built
  BY EntriesAreTyped DEF TableInv
<1>2. TrueDoing(Complete(NotFound, NotFoundBody))
  BY PlainIsTrue DEF NotFound, NotFoundBody, TrueDoing, Complete
<1>3. QED
  BY <1>1, <1>2, DispatchedIsOneOf, RefusalIsTrue, HandlersAreTrue

-----------------------------------------------------------------------------
(* What the static handler answers: the bytes that the request asks for      *)

RangeOK ==
    "range" \in DOMAIN req.headers =>
      {req.headers["range"].first, req.headers["range"].last} \subseteq Nat \cup {Empty, Junk}

SlicesAsked(response) ==
    /\ response.status = 206 =>
         /\ "content-range" \in DOMAIN response.headers
         /\ LET range == response.headers["content-range"]
            IN  range[1] .. range[2] = Asked(req.headers["range"], range[3]) /\ range[1] <= range[2]
    /\ response.status = 416 =>
         /\ "content-range" \in DOMAIN response.headers
         /\ Asked(req.headers["range"], response.headers["content-range"][1]) = {}

\* The bytes that are sent from a file are all in it, as many as declared.
SendsFile(d, s) ==
    /\ d.offset \in Nat /\ d.count \in Nat \ {0} /\ d.offset + d.count <= s.size
    /\ "content-length" \in DOMAIN d.response.headers /\ d.response.headers["content-length"] = d.count

StaticAnswer(d, s) ==
    /\ d.do \in {"complete", "sendfile"} /\ TrueDoing(d) /\ SlicesAsked(d.response)
    /\ d.do = "sendfile" => SendsFile(d, s)

\* A slice is what was asked for, and what cannot be satisfied is nothing.
LEMMA ParsedIsAsked ==
  ASSUME NEW range, {range.first, range.last} \subseteq Nat \cup {Empty, Junk}, NEW size \in Nat
  PROVE  /\ ParseRange(range, size).kind = "unsatisfiable" => Asked(range, size) = {}
         /\ ParseRange(range, size).kind = "slice" =>
              \E from, to \in Nat :
                 /\ from < to /\ to <= size
                 /\ ParseRange(range, size).offset = from /\ ParseRange(range, size).length = to - from
                 /\ from .. (to - 1) = Asked(range, size)
<1> DEFINE parsed == ParseRange(range, size)
           Slice(from, to) == [kind |-> "slice", offset |-> from, length |-> to - from]
           least(a, b) == IF a < b THEN a ELSE b
           Good == /\ parsed.kind = "unsatisfiable" => Asked(range, size) = {}
                   /\ parsed.kind = "slice" =>
                        \E from, to \in Nat :
                           /\ from < to /\ to <= size
                           /\ parsed.offset = from /\ parsed.length = to - from
                           /\ from .. (to - 1) = Asked(range, size)
<1>1. PICK first \in Int : first = range.first /\ (first \in Nat \/ first = -1 \/ first = -2)
  BY DEF Empty, Junk
<1>2. PICK last \in Int : last = range.last /\ (last \in Nat \/ last = -1 \/ last = -2)
  BY DEF Empty, Junk
<1>3. Asked(range, size) =
        {b \in 0 .. (size - 1) : IF first = -1 THEN b >= size - last
                                 ELSE b >= first /\ (last = -1 \/ b <= last)}
  BY <1>1, <1>2 DEF Asked, Empty
<1>4. parsed =
        IF range.unit # "bytes" \/ range.form # "span" THEN [kind |-> "ignored"]
        ELSE IF size = 0 THEN [kind |-> "unsatisfiable"]
        ELSE IF first = -1
             THEN IF last > 0 THEN Slice(size - least(last, size), size) ELSE [kind |-> "ignored"]
        ELSE IF first = -2 THEN [kind |-> "ignored"]
        ELSE IF first >= size THEN [kind |-> "unsatisfiable"]
        ELSE IF last = -1 THEN Slice(first, size)
        ELSE IF last < first THEN [kind |-> "ignored"]
        ELSE Slice(first, least(last, size - 1) + 1)
  BY <1>1, <1>2 DEF ParseRange, Empty, Junk
<1>5. \A from, to : /\ Slice(from, to).kind = "slice" /\ Slice(from, to).offset = from
                    /\ Slice(from, to).length = to - from
  OBVIOUS
<1>6. ASSUME NEW from \in Nat, NEW to \in Nat, from < to, to <= size, parsed = Slice(from, to),
             \A b \in 0 .. (size - 1) :
                (b >= from /\ b < to) <=> (IF first = -1 THEN b >= size - last
                                           ELSE b >= first /\ (last = -1 \/ b <= last))
      PROVE  Good
  <2>1. from .. (to - 1) = Asked(range, size)
    BY <1>3, <1>6
  <2>2. parsed.kind = "slice" /\ parsed.offset = from /\ parsed.length = to - from
    BY <1>5, <1>6
  <2> HIDE DEF parsed
  <2>3. QED
    BY <1>6, <2>1, <2>2
<1>7. parsed = [kind |-> "ignored"] => Good
  OBVIOUS
<1>8. parsed = [kind |-> "unsatisfiable"] /\ Asked(range, size) = {} => Good
  OBVIOUS
<1> SUFFICES Good
  OBVIOUS
<1> HIDE DEF parsed, Slice, Good
<1>9. CASE range.unit # "bytes" \/ range.form # "span" \/ (size # 0 /\ first = -2)
           \/ (size # 0 /\ first = -1 /\ ~(last > 0))
           \/ (size # 0 /\ first >= 0 /\ first < size /\ last # -1 /\ last < first)
  <2>1. parsed = [kind |-> "ignored"] \/ (parsed = [kind |-> "unsatisfiable"] /\ size = 0)
    BY <1>4, <1>9
  <2>2. size = 0 => Asked(range, size) = {}
    BY <1>3
  <2>3. QED
    BY <1>7, <1>8, <2>1, <2>2
<1>10. CASE range.unit = "bytes" /\ range.form = "span" /\ (size = 0 \/ (first >= 0 /\ first >= size))
  <2>1. parsed = [kind |-> "unsatisfiable"]
    BY <1>4, <1>10
  <2>2. Asked(range, size) = {}
    BY <1>3, <1>10
  <2>3. QED
    BY <1>8, <2>1, <2>2
<1>11. CASE range.unit = "bytes" /\ range.form = "span" /\ size # 0 /\ first = -1 /\ last > 0
  <2> DEFINE from == size - least(last, size)
  <2>1. parsed = Slice(from, size)
    BY <1>4, <1>11
  <2>2. from \in Nat /\ from < size /\ size <= size
    BY <1>11
  <2>3. \A b \in 0 .. (size - 1) : (b >= from /\ b < size) <=> b >= size - last
    BY <1>11
  <2> HIDE DEF from
  <2>4. \A b \in 0 .. (size - 1) :
           (b >= from /\ b < size) <=> (IF first = -1 THEN b >= size - last
                                       ELSE b >= first /\ (last = -1 \/ b <= last))
    BY <1>11, <2>3
  <2>5. QED
    BY <1>6, <2>1, <2>2, <2>4
<1>12. CASE /\ range.unit = "bytes" /\ range.form = "span" /\ size # 0 /\ first >= 0 /\ first < size
            /\ last = -1
  <2>1. parsed = Slice(first, size)
    BY <1>4, <1>12
  <2>2. \A b \in 0 .. (size - 1) : (b >= first /\ b < size) <=> b >= first
    OBVIOUS
  <2>3. QED
    BY <1>6, <1>12, <2>1, <2>2
<1>13. CASE /\ range.unit = "bytes" /\ range.form = "span" /\ size # 0 /\ first >= 0 /\ first < size
            /\ last # -1 /\ last >= first
  <2> DEFINE to == least(last, size - 1) + 1
  <2>1. parsed = Slice(first, to)
    BY <1>4, <1>13
  <2>2. to \in Nat /\ first < to /\ to <= size
    BY <1>13
  <2>3. \A b \in 0 .. (size - 1) : (b >= first /\ b < to) <=> (b >= first /\ b <= last)
    BY <1>13
  <2> HIDE DEF to
  <2>4. QED
    BY <1>6, <1>13, <2>1, <2>2, <2>3
<1>14. QED
  BY <1>1, <1>2, <1>9, <1>10, <1>11, <1>12, <1>13

LEMMA CachingKeeps ==
  ASSUME NEW h, NEW n \in DOMAIN h, n # "cache-control"
  PROVE  n \in DOMAIN Caching(h) /\ Caching(h)[n] = h[n]
BY DEF Caching, :>, @@

LEMMA ValidatorsAre ==
  ASSUME NEW s
  PROVE  DOMAIN Validators(s) = {"etag", "last-modified"}
<1> DEFINE tag == "etag" :> Etag(s)
           date == "last-modified" :> LastModified(s)
<1>1. DOMAIN tag = {"etag"} /\ DOMAIN date = {"last-modified"}
  BY DEF :>
<1>2. Validators(s) = tag @@ date
  BY DEF Validators
<1> HIDE DEF tag, date
<1>3. QED
  BY <1>1, <1>2 DEF @@

LEMMA TextIsTrue ==
  ASSUME NEW status, status \notin {206, 416}, NEW size \in Nat, NEW more, "content-length" \notin DOMAIN more,
         NEW body \in Int, body = size \/ (body = -1 /\ req.method = "HEAD"), NEW s
  PROVE  StaticAnswer([do |-> "complete", response |-> Text(status, size, more), body |-> body], s)
<1> DEFINE own == more @@ ("content-type" :> "text/plain")
           headers == own @@ ("content-length" :> size)
<1>1. "content-length" \notin DOMAIN own
  BY DEF :>, @@
<1>2. Text(status, size, more) = [status |-> status, headers |-> headers]
  BY DEF Text
<1> HIDE DEF own
<1>3. headers["content-length"] = size
  BY <1>1 DEF :>, @@
<1> HIDE DEF headers
<1>4. Text(status, size, more).status = status /\ Text(status, size, more).headers = headers
  BY <1>2
<1>5. TrueBody(Text(status, size, more), body)
  BY <1>3, <1>4 DEF TrueBody, TrueLength, BodyAllowed
<1>6. SlicesAsked(Text(status, size, more))
  BY <1>4 DEF SlicesAsked
<1>7. QED
  BY <1>5, <1>6 DEF StaticAnswer, TrueDoing

LEMMA BeforeStatIsTrue ==
  ASSUME BeforeStat(Tree, req).do # "stat", NEW s
  PROVE  StaticAnswer(BeforeStat(Tree, req), s)
<1>1. BeforeStat(Tree, req) \in {SendMethodNotAllowed, SendNotFound(req.method)}
  BY DEF BeforeStat
<1>2. StaticAnswer(SendMethodNotAllowed, s)
  <2>1. "content-length" \notin DOMAIN ("allow" :> {"GET", "HEAD"})
    BY DEF :>
  <2>2. SendMethodNotAllowed = [do |-> "complete",
                                response |-> Text(405, 18, "allow" :> {"GET", "HEAD"}), body |-> 18]
    BY DEF SendMethodNotAllowed, MethodNotAllowedSize
  <2>3. QED
    BY <2>1, <2>2, TextIsTrue
<1>3. StaticAnswer(SendNotFound(req.method), s)
  <2>1. SendNotFound(req.method) = [do |-> "complete", response |-> Text(404, 9, <<>>),
                                    body |-> IF req.method = "HEAD" THEN -1 ELSE 9]
    BY DEF SendNotFound, NotFoundSize, Bodied
  <2>2. QED
    BY <2>1, NoHeaders, TextIsTrue
<1>4. QED
  BY <1>1, <1>2, <1>3

\* Why a file answers as much as it says, and says which part of it that is.
LEMMA SendFileIsTrue ==
  ASSUME NEW s \in Files, NEW from \in Nat, NEW count \in Nat, from + count <= s.size, NEW partial \in BOOLEAN,
         partial => count > 0 /\ from .. (from + count - 1) = Asked(req.headers["range"], s.size)
  PROVE  StaticAnswer(SendFile(req.method, s, from, count, partial), s)
<1> DEFINE typed == ("content-type" :> "text/css") @@ ("content-length" :> count)
           ranged == typed @@ ("accept-ranges" :> "bytes")
           plain == ranged @@ Validators(s)
           sliced == ("content-range" :> <<from, from + count - 1, s.size>>) @@ plain
           headers == IF partial THEN sliced ELSE plain
           response == [status |-> IF partial THEN 206 ELSE 200, headers |-> Caching(headers)]
           answer == SendFile(req.method, s, from, count, partial)
<1>1. answer = IF req.method = "HEAD" \/ count = 0
               THEN [do |-> "complete", response |-> response, body |-> -1]
               ELSE [do |-> "sendfile", response |-> response, offset |-> from, count |-> count]
  BY DEF SendFile
<1>2. "content-length" \in DOMAIN plain /\ plain["content-length"] = count
  <2>1. "content-length" \in DOMAIN typed /\ typed["content-length"] = count
    BY DEF :>, @@
  <2> HIDE DEF typed
  <2>2. "content-length" \in DOMAIN ranged /\ ranged["content-length"] = count
    BY <2>1 DEF @@
  <2> HIDE DEF ranged
  <2>3. QED
    BY <2>2 DEF @@
<1> HIDE DEF plain
<1>3. /\ "content-length" \in DOMAIN sliced /\ sliced["content-length"] = count
      /\ "content-range" \in DOMAIN sliced
      /\ sliced["content-range"] = <<from, from + count - 1, s.size>>
  BY <1>2 DEF :>, @@
<1> HIDE DEF sliced
<1>4. /\ "content-length" \in DOMAIN headers /\ headers["content-length"] = count
      /\ partial => /\ "content-range" \in DOMAIN headers
                    /\ headers["content-range"] = <<from, from + count - 1, s.size>>
  BY <1>2, <1>3
<1> HIDE DEF headers
<1>5. /\ response.status = IF partial THEN 206 ELSE 200
      /\ "content-length" \in DOMAIN response.headers /\ response.headers["content-length"] = count
      /\ partial => /\ "content-range" \in DOMAIN response.headers
                    /\ response.headers["content-range"] = <<from, from + count - 1, s.size>>
  BY <1>4, CachingKeeps
<1> HIDE DEF response
<1>6. SlicesAsked(response)
  <2>1. response.status # 416
    BY <1>5
  <2>2. ASSUME partial
        PROVE  LET range == response.headers["content-range"]
               IN  range[1] .. range[2] = Asked(req.headers["range"], range[3]) /\ range[1] <= range[2]
    <3> DEFINE range == response.headers["content-range"]
    <3>1. range[1] = from /\ range[2] = from + count - 1 /\ range[3] = s.size
      BY <1>5, <2>2
    <3> HIDE DEF range
    <3>2. range[1] .. range[2] = Asked(req.headers["range"], range[3]) /\ range[1] <= range[2]
      BY <2>2, <3>1
    <3>3. QED
      BY <3>2 DEF range
  <2>3. response.status = 206 => partial
    BY <1>5
  <2>4. QED
    BY <1>5, <2>1, <2>2, <2>3 DEF SlicesAsked
<1>7. CASE req.method = "HEAD" \/ count = 0
  <2>1. /\ answer.do = "complete" /\ answer.response = response /\ answer.body = -1
    BY <1>1, <1>7
  <2> HIDE DEF answer
  <2>2. TrueBody(response, -1)
    BY <1>5, <1>7 DEF TrueBody, TrueLength, BodyAllowed
  <2>3. StaticAnswer(answer, s)
    BY <1>6, <2>1, <2>2 DEF StaticAnswer, TrueDoing
  <2>4. QED
    BY <2>3 DEF answer
<1>8. CASE req.method # "HEAD" /\ count # 0
  <2>1. /\ answer.do = "sendfile" /\ answer.response = response
        /\ answer.offset = from /\ answer.count = count
    BY <1>1, <1>8
  <2> HIDE DEF answer
  <2>2. SendsFile(answer, s)
    BY <1>5, <1>8, <2>1 DEF SendsFile
  <2>3. StaticAnswer(answer, s)
    BY <1>6, <2>1, <2>2 DEF StaticAnswer, TrueDoing
  <2>4. QED
    BY <2>3 DEF answer
<1>9. QED
  BY <1>7, <1>8

LEMMA NotSatisfiableIsTrue ==
  ASSUME NEW s, Asked(req.headers["range"], s.size) = {}
  PROVE  StaticAnswer(SendRangeNotSatisfiable(req.method, s), s)
<1> DEFINE more == ("content-range" :> <<s.size>>) @@ Validators(s)
           own == more @@ ("content-type" :> "text/plain")
           headers == own @@ ("content-length" :> 21)
           response == Text(416, 21, more)
           answer == SendRangeNotSatisfiable(req.method, s)
<1>1. answer = [do |-> "complete", response |-> response,
                body |-> IF req.method = "HEAD" THEN -1 ELSE 21]
  BY DEF SendRangeNotSatisfiable, RangeNotSatisfiableSize, Bodied
<1>2. response = [status |-> 416, headers |-> headers]
  BY DEF Text
<1>3. DOMAIN more = {"content-range", "etag", "last-modified"} /\ more["content-range"] = <<s.size>>
  BY ValidatorsAre DEF :>, @@
<1> HIDE DEF more, response
<1>4. /\ DOMAIN own = {"content-range", "etag", "last-modified", "content-type"}
      /\ own["content-range"] = <<s.size>>
  BY <1>3 DEF :>, @@
<1> HIDE DEF own
<1>5. /\ headers["content-length"] = 21
      /\ "content-range" \in DOMAIN headers /\ headers["content-range"] = <<s.size>>
  BY <1>4 DEF :>, @@
<1> HIDE DEF headers
<1>6. response.status = 416 /\ response.headers = headers
  BY <1>2
<1>7. TrueBody(response, IF req.method = "HEAD" THEN -1 ELSE 21)
  BY <1>5, <1>6 DEF TrueBody, TrueLength, BodyAllowed
<1>8. SlicesAsked(response)
  BY <1>5, <1>6 DEF SlicesAsked
<1>9. /\ answer.do = "complete" /\ answer.response = response
      /\ answer.body = IF req.method = "HEAD" THEN -1 ELSE 21
  BY <1>1
<1> HIDE DEF answer
<1>10. StaticAnswer(answer, s)
  BY <1>7, <1>8, <1>9 DEF StaticAnswer, TrueDoing
<1>11. QED
  BY <1>10 DEF answer

LEMMA ServeIsTrue ==
  ASSUME NEW s \in Files, RangeOK
  PROVE  StaticAnswer(Serve(req, s), s)
<1> DEFINE range == IF "range" \in DOMAIN req.headers
                    THEN ParseRange(req.headers["range"], s.size)
                    ELSE [kind |-> "ignored"]
<1>1. Serve(req, s) = CASE NotModified(req, s) -> SendNotModified(s)
        [] ~NotModified(req, s) /\ range.kind = "unsatisfiable" ->
             SendRangeNotSatisfiable(req.method, s)
        [] ~NotModified(req, s) /\ range.kind = "slice" ->
             SendFile(req.method, s, range.offset, range.length, TRUE)
        [] OTHER -> SendFile(req.method, s, 0, s.size, FALSE)
  BY Zenon DEF Serve
<1>2. s.size \in Nat
  BY DEF Files
<1>3. range.kind \in {"unsatisfiable", "slice"} =>
        "range" \in DOMAIN req.headers /\ range = ParseRange(req.headers["range"], s.size)
  OBVIOUS
<1> HIDE DEF range
<1>4. StaticAnswer(SendNotModified(s), s)
  <2> DEFINE response == [status |-> 304, headers |-> Caching(Validators(s))]
  <2>1. /\ SendNotModified(s).do = "complete" /\ SendNotModified(s).response = response
        /\ SendNotModified(s).body = -1
    BY DEF SendNotModified
  <2>2. response.status = 304
    OBVIOUS
  <2> HIDE DEF response
  <2>3. TrueBody(response, -1) /\ SlicesAsked(response)
    BY <2>2 DEF TrueBody, BodyAllowed, SlicesAsked
  <2>4. QED
    BY <2>1, <2>3 DEF StaticAnswer, TrueDoing
<1>5. CASE NotModified(req, s)
  BY <1>1, <1>4, <1>5
<1>6. CASE ~NotModified(req, s) /\ range.kind = "unsatisfiable"
  <2>1. Asked(req.headers["range"], s.size) = {}
    BY <1>2, <1>3, <1>6, ParsedIsAsked DEF RangeOK
  <2>2. Serve(req, s) = SendRangeNotSatisfiable(req.method, s)
    BY <1>1, <1>6
  <2>3. QED
    BY <2>1, <2>2, NotSatisfiableIsTrue
<1>7. CASE ~NotModified(req, s) /\ range.kind = "slice"
  <2> DEFINE given == req.headers["range"]
  <2>g. {given.first, given.last} \subseteq Nat \cup {Empty, Junk} /\ range = ParseRange(given, s.size)
    BY <1>3, <1>7 DEF RangeOK
  <2> HIDE DEF given
  <2>s. ParseRange(given, s.size).kind = "slice" =>
          \E from, to \in Nat :
             /\ from < to /\ to <= s.size
             /\ ParseRange(given, s.size).offset = from /\ ParseRange(given, s.size).length = to - from
             /\ from .. (to - 1) = Asked(given, s.size)
    BY <1>2, <2>g, ParsedIsAsked
  <2>1. PICK from, to \in Nat :
           /\ from < to /\ to <= s.size
           /\ range.offset = from /\ range.length = to - from
           /\ from .. (to - 1) = Asked(req.headers["range"], s.size)
    BY <1>7, <2>g, <2>s DEF given
  <2>2. PICK count \in Nat : count = to - from /\ count > 0 /\ from + count = to
    BY <2>1
  <2>3. Serve(req, s) = SendFile(req.method, s, from, count, TRUE)
    BY <1>1, <1>7, <2>1, <2>2
  <2>4. from .. (from + count - 1) = Asked(req.headers["range"], s.size) /\ from + count <= s.size
    BY <2>1, <2>2
  <2>5. QED
    BY <2>2, <2>3, <2>4, SendFileIsTrue
<1>8. CASE ~NotModified(req, s) /\ range.kind \notin {"unsatisfiable", "slice"}
  <2>1. Serve(req, s) = SendFile(req.method, s, 0, s.size, FALSE)
    BY <1>1, <1>8
  <2>2. 0 + s.size <= s.size
    BY <1>2
  <2>3. QED
    BY <1>2, <2>1, <2>2, SendFileIsTrue
<1>9. QED
  BY <1>5, <1>6, <1>7, <1>8

-----------------------------------------------------------------------------
(* What the compressing context makes of an answer                          *)

LEMMA GreatestUpTo ==
  ASSUME NEW n \in Nat, NEW T, T \subseteq 1 .. n, T # {}
  PROVE  \E i \in T : \A j \in T : j <= i
<1> DEFINE U == {k \in Nat : k <= n /\ n - k \in T}
<1>1. PICK i \in T : TRUE
  OBVIOUS
<1>2. n - i \in Nat /\ n - (n - i) = i /\ n - i <= n
  BY <1>1
<1>3. U \in SUBSET Nat /\ U # {}
  BY <1>2
<1>4. \A k \in U : k \in Nat /\ n - k \in T
  OBVIOUS
<1>5. \A j \in T : n - j \in U
  OBVIOUS
<1> HIDE DEF U
<1>6. PICK k \in U : \A l \in U : k <= l
  BY <1>3, LeastOfNats
<1>7. ASSUME NEW j \in T PROVE j <= n - k
  <2>1. k <= n - j /\ j \in 1 .. n /\ k \in Nat
    BY <1>4, <1>5, <1>6
  <2>2. QED
    BY <2>1
<1>8. QED
  BY <1>4, <1>6, <1>7

\* What the client accepts: a token for the coding, or for any, that a later one
\* does not override.
AcceptedBy(accept, c) ==
    \E i \in DOMAIN accept :
       /\ accept[i].name \in {c, "*"} /\ Quality(accept[i].q) > 0
       /\ \A j \in DOMAIN accept : j > i => accept[j].name \notin {accept[i].name, c}

LEMMA NegotiateAccepts ==
  ASSUME NEW accept \in Accepts, Negotiate(accept, Algorithms) # NoCoding
  PROVE  AcceptedBy(accept, Negotiate(accept, Algorithms))
<1> DEFINE given(n)   == {i \in DOMAIN accept : accept[i].name = n}
           last(S)    == CHOOSE i \in S : \A j \in S : j <= i
           quality(n) == Quality(accept[last(given(n))].q)
           accepts(c) == IF given(c) # {} THEN quality(c) > 0
                         ELSE given("*") # {} /\ quality("*") > 0
           usable     == {i \in DOMAIN Algorithms : accepts(Algorithms[i])}
           best       == CHOOSE i \in usable : \A j \in usable : i <= j
<1>1. Negotiate(accept, Algorithms) = IF usable = {} THEN NoCoding ELSE Algorithms[best]
  BY Zenon DEF Negotiate
<1>2. /\ Len(accept) \in Nat /\ DOMAIN accept = 1 .. Len(accept)
      /\ Len(Algorithms) \in Nat /\ DOMAIN Algorithms = 1 .. Len(Algorithms)
  BY FilesAssumption, AlgorithmsAssumption, LenProperties
<1>3. usable # {} /\ Negotiate(accept, Algorithms) = Algorithms[best]
  BY <1>1
<1>4. best \in usable
  <2>1. usable \in SUBSET Nat
    BY <1>2
  <2> HIDE DEF usable
  <2>2. \E i \in usable : \A j \in usable : i <= j
    BY <1>3, <2>1, LeastOfNats
  <2>3. QED
    BY <2>2
<1> DEFINE c == Algorithms[best]
<1>5. accepts(c)
  BY <1>4
<1>6. ASSUME NEW n, given(n) # {}
      PROVE  last(given(n)) \in given(n) /\ \A j \in given(n) : j <= last(given(n))
  <2> DEFINE T == given(n)
  <2>1. T \subseteq 1 .. Len(accept) /\ T # {}
    BY <1>2, <1>6
  <2> HIDE DEF T
  <2>2. \E i \in T : \A j \in T : j <= i
    BY <1>2, <2>1, GreatestUpTo
  <2>3. last(T) \in T /\ \A j \in T : j <= last(T)
    BY <2>2
  <2>4. QED
    BY <2>3 DEF T
<1>7. \A n : \A i : i \in given(n) <=> i \in DOMAIN accept /\ accept[i].name = n
  OBVIOUS
<1> HIDE DEF given, last, best, c
<1>8. CASE given(c) # {}
  <2> DEFINE i == last(given(c))
  <2>1. i \in given(c) /\ \A j \in given(c) : j <= i
    BY <1>6, <1>8
  <2>2. Quality(accept[i].q) > 0
    BY <1>5, <1>8
  <2> HIDE DEF i
  <2>3. i \in DOMAIN accept /\ accept[i].name = c
    BY <1>7, <2>1
  <2>4. ASSUME NEW j \in DOMAIN accept, j > i PROVE accept[j].name # c
    <3>1. j \in Nat /\ i \in Nat
      BY <1>2, <2>3
    <3>2. QED
      BY <1>7, <2>1, <2>4, <3>1
  <2>5. AcceptedBy(accept, c)
    BY <2>2, <2>3, <2>4 DEF AcceptedBy
  <2>6. QED
    BY <1>3, <2>5 DEF c
<1>9. CASE given(c) = {}
  <2> DEFINE i == last(given("*"))
  <2>1. i \in given("*") /\ \A j \in given("*") : j <= i
    BY <1>5, <1>6, <1>9
  <2>2. Quality(accept[i].q) > 0
    BY <1>5, <1>9
  <2> HIDE DEF i
  <2>3. i \in DOMAIN accept /\ accept[i].name = "*"
    BY <1>7, <2>1
  <2>4. ASSUME NEW j \in DOMAIN accept, j > i PROVE accept[j].name \notin {"*", c}
    <3>1. j \in Nat /\ i \in Nat
      BY <1>2, <2>3
    <3>2. accept[j].name # "*"
      BY <1>7, <2>1, <2>4, <3>1
    <3>3. QED
      BY <1>7, <1>9, <3>2
  <2>5. AcceptedBy(accept, c)
    BY <2>2, <2>3, <2>4 DEF AcceptedBy
  <2>6. QED
    BY <1>3, <2>5 DEF c
<1>10. QED
  BY <1>8, <1>9

\* The headers of an encoded body say so, for this client and for caches.
Coded(headers, c, response) ==
    /\ headers["content-encoding"] = c
    /\ "accept-encoding" \in headers["vary"] \/ headers["vary"] = {"*"}
    /\ Has(response, "content-encoding") => response.headers["content-encoding"] = NoCoding
    /\ AcceptedBy(req.accept, c)

LEMMA CodedIsCodingTrue ==
  ASSUME sent.coding # NoCoding => Coded(sent.headers, sent.coding, doing.response)
  PROVE  CodingIsTrue
BY DEF CodingIsTrue, Coded, AcceptedBy

LEMMA EncodedHeaders ==
  ASSUME NEW headers, NEW c
  PROVE  /\ {"content-encoding", "vary"} \subseteq DOMAIN Encoded(headers, c)
         /\ Encoded(headers, c)["content-encoding"] = c
         /\ \/ "accept-encoding" \in Encoded(headers, c)["vary"]
            \/ Encoded(headers, c)["vary"] = {"*"}
         /\ \A n \in DOMAIN headers \ {"content-encoding", "vary"} :
               n \in DOMAIN Encoded(headers, c) /\ Encoded(headers, c)[n] = headers[n]
<1> DEFINE vary == IF "vary" \in DOMAIN headers THEN MergeVary(headers["vary"]) ELSE {"accept-encoding"}
           own == ("content-encoding" :> c) @@ ("vary" :> vary)
<1>1. Encoded(headers, c) = own @@ headers
  BY DEF Encoded
<1>2. "accept-encoding" \in vary \/ vary = {"*"}
  BY DEF MergeVary
<1> HIDE DEF vary
<1>3. DOMAIN own = {"content-encoding", "vary"} /\ own["content-encoding"] = c /\ own["vary"] = vary
  BY DEF :>, @@
<1> HIDE DEF own
<1> DEFINE encoded == own @@ headers
<1>4. /\ DOMAIN encoded = DOMAIN own \cup DOMAIN headers
      /\ \A n \in DOMAIN own : encoded[n] = own[n]
      /\ \A n \in DOMAIN headers \ DOMAIN own : encoded[n] = headers[n]
  BY DEF @@
<1> HIDE DEF encoded
<1>5. Encoded(headers, c) = encoded
  BY <1>1 DEF encoded
<1>6. QED
  BY <1>2, <1>3, <1>4, <1>5

LEMMA SlicesStay ==
  ASSUME NEW response, SlicesAsked(response), NEW other, other.status = response.status,
         "content-range" \in DOMAIN response.headers =>
           /\ "content-range" \in DOMAIN other.headers
           /\ other.headers["content-range"] = response.headers["content-range"]
  PROVE  SlicesAsked(other)
BY DEF SlicesAsked

LEMMA CompletedIsTrue ==
  ASSUME NEW response, NEW size \in Int, TrueBody(response, size),
         coding # NoCoding => AcceptedBy(req.accept, coding)
  PROVE  \E r, n, c :
            /\ CompleteThrough(coding, response, [size |-> size, coding |-> NoCoding], req.method)
                 = <<r, [size |-> n, coding |-> c]>>
            /\ n \in Int /\ TrueBody(r, n) /\ (SlicesAsked(response) => SlicesAsked(r))
            /\ c # NoCoding => Coded(r.headers, c, response)
<1> DEFINE body == [size |-> size, coding |-> NoCoding]
           deflated == Deflate(body, coding)
           headers == RewriteHeaders(response.headers, coding, deflated.size)
           encoded == Encoded(response.headers, coding)
           through == coding # NoCoding /\ IsCompressible(response, body, req.method)
<1>1. CompleteThrough(coding, response, body, req.method) =
        IF through THEN <<[status |-> response.status, headers |-> headers], deflated>>
        ELSE <<response, body>>
  BY DEF CompleteThrough
<1>2. CASE ~through
  BY <1>1, <1>2
<1>3. CASE through
  <2>1. /\ size \in Nat /\ HeadersAllow(response) /\ StatusAllows(response.status)
        /\ AcceptedBy(req.accept, coding)
    <3>1. body.size = size
      OBVIOUS
    <3>2. size >= MinSize /\ HeadersAllow(response) /\ StatusAllows(response.status)
      BY <1>3, <3>1 DEF IsCompressible
    <3>3. QED
      BY <1>3, <3>2, AlgorithmsAssumption
  <2>2. PICK n \in Nat : n > 0 /\ deflated = [size |-> n, coding |-> coding]
    <3>1. size \div 2 + 1 \in Nat /\ size \div 2 + 1 > 0
      BY <2>1
    <3>2. QED
      BY <3>1 DEF Deflate
  <2>3. /\ {"content-encoding", "vary"} \subseteq DOMAIN encoded /\ encoded["content-encoding"] = coding
        /\ "accept-encoding" \in encoded["vary"] \/ encoded["vary"] = {"*"}
        /\ \A x \in DOMAIN response.headers \ {"content-encoding", "vary"} :
              x \in DOMAIN encoded /\ encoded[x] = response.headers[x]
    BY EncodedHeaders
  <2>4. headers = ("content-length" :> n) @@ encoded
    BY <2>2 DEF RewriteHeaders
  <2> HIDE DEF encoded, deflated
  <2>5. /\ headers["content-length"] = n /\ "content-length" \in DOMAIN headers
        /\ \A x \in DOMAIN encoded \ {"content-length"} : x \in DOMAIN headers /\ headers[x] = encoded[x]
    BY <2>4 DEF :>, @@
  <2> HIDE DEF headers
  <2> DEFINE r == [status |-> response.status, headers |-> headers]
  <2>6. CompleteThrough(coding, response, body, req.method) = <<r, [size |-> n, coding |-> coding]>>
    BY <1>1, <1>3, <2>2
  <2>7. r.status = response.status /\ r.headers = headers
    OBVIOUS
  <2> HIDE DEF r
  <2>8. TrueBody(r, n)
    BY <2>2, <2>5, <2>7 DEF TrueBody, TrueLength
  <2>9. SlicesAsked(response) => SlicesAsked(r)
    BY <2>3, <2>5, <2>7, SlicesStay
  <2>10. Coded(r.headers, coding, response)
    BY <2>1, <2>3, <2>5, <2>7 DEF Coded, HeadersAllow
  <2> HIDE DEF through
  <2>11. /\ CompleteThrough(coding, response, body, req.method) = <<r, [size |-> n, coding |-> coding]>>
         /\ n \in Int /\ TrueBody(r, n) /\ (SlicesAsked(response) => SlicesAsked(r))
         /\ coding # NoCoding => Coded(r.headers, coding, response)
    BY <2>6, <2>8, <2>9, <2>10
  <2>12. QED
    BY <2>11
<1>4. QED
  BY <1>2, <1>3

LEMMA StreamedIsTrue ==
  ASSUME NEW response, NEW chunks, TrueStream(response.headers, chunks),
         coding # NoCoding => AcceptedBy(req.accept, coding)
  PROVE  \E r, c :
            /\ StreamThrough(coding, response, req.method) = <<r, c>>
            /\ r.status = response.status
            /\ c # NoCoding => Coded(r.headers, c, response)
            /\ "content-length" \in DOMAIN r.headers =>
                 /\ c = NoCoding /\ r.headers["content-length"] \in Nat
                 /\ Yields(chunks, r.headers["content-length"])
<1> DEFINE headers == StreamingRewriteHeaders(response.headers, coding)
           encoded == Encoded(response.headers, coding)
           through == coding # NoCoding /\ IsStreamingEligible(response, req.method)
<1>1. StreamThrough(coding, response, req.method) =
        IF through THEN <<[status |-> response.status, headers |-> headers], coding>>
        ELSE <<response, NoCoding>>
  BY DEF StreamThrough
<1>2. CASE ~through
  BY <1>1, <1>2 DEF TrueStream
<1>3. CASE through
  <2>1. HeadersAllow(response) /\ AcceptedBy(req.accept, coding)
    BY <1>3 DEF IsStreamingEligible
  <2>2. /\ {"content-encoding", "vary"} \subseteq DOMAIN encoded /\ encoded["content-encoding"] = coding
        /\ "accept-encoding" \in encoded["vary"] \/ encoded["vary"] = {"*"}
    BY EncodedHeaders
  <2>3. headers = [x \in DOMAIN encoded \ {"content-length"} |-> encoded[x]]
    BY DEF StreamingRewriteHeaders
  <2> HIDE DEF encoded
  <2>4. /\ "content-length" \notin DOMAIN headers
        /\ headers["content-encoding"] = coding /\ headers["vary"] = encoded["vary"]
    BY <2>2, <2>3
  <2> HIDE DEF headers
  <2> DEFINE r == [status |-> response.status, headers |-> headers]
  <2>5. StreamThrough(coding, response, req.method) = <<r, coding>>
    BY <1>1, <1>3
  <2>6. r.status = response.status /\ r.headers = headers
    OBVIOUS
  <2> HIDE DEF r
  <2>7. Coded(r.headers, coding, response)
    BY <2>1, <2>2, <2>4, <2>6 DEF Coded, HeadersAllow
  <2> HIDE DEF through
  <2>8. QED
    BY <2>4, <2>5, <2>6, <2>7
<1>4. QED
  BY <1>2, <1>3

\* What is on the wire, of an answer that is sent at once.
LEMMA WireIs ==
  ASSUME NEW response, NEW size \in Int, NEW c
  PROVE  \/ Wire(response, size, c) = [kind |-> "closed"]
         \/ Wire(response, size, c) =
              [kind |-> "response", status |-> response.status, headers |-> response.headers,
               size |-> IF BodyAllowed(response.status) /\ size > 0 THEN size ELSE 0, coding |-> c]
BY DEF Wire

LEMMA WiredIsTrue ==
  ASSUME NEW response, NEW size \in Int, NEW c, TrueBody(response, size)
  PROVE  LET wired == Wire(response, size, c)
         IN  wired.kind = "response" =>
               /\ wired.status = response.status /\ wired.headers = response.headers /\ wired.coding = c
               /\ ("content-length" \in DOMAIN wired.headers /\ BodyAllowed(wired.status)) =>
                     wired.headers["content-length"] = wired.size
<1> DEFINE wired == Wire(response, size, c)
<1>1. CASE wired = [kind |-> "closed"]
  <2>1. wired.kind = "closed"
    BY <1>1
  <2>2. QED
    BY <2>1
<1>2. CASE wired = [kind |-> "response", status |-> response.status, headers |-> response.headers,
                    size |-> IF BodyAllowed(response.status) /\ size > 0 THEN size ELSE 0, coding |-> c]
  <2>1. /\ wired.status = response.status /\ wired.headers = response.headers /\ wired.coding = c
        /\ wired.size = IF BodyAllowed(response.status) /\ size > 0 THEN size ELSE 0
    BY <1>2
  <2> HIDE DEF wired
  <2>2. ("content-length" \in DOMAIN wired.headers /\ BodyAllowed(wired.status)) =>
           wired.headers["content-length"] = wired.size
    BY <2>1 DEF TrueBody, TrueLength
  <2>3. QED
    BY <2>1, <2>2 DEF wired
<1>3. QED
  BY <1>1, <1>2, WireIs

-----------------------------------------------------------------------------
(* What a streaming handler has still to yield, and what has reached the peer *)

Remains(chunks, size) ==
    \E upTo \in [0 .. Len(chunks) -> Int] :
       /\ upTo[0] = 0 /\ upTo[Len(chunks)] = size
       /\ \A n \in 1 .. Len(chunks) : upTo[n] = upTo[n - 1] + chunks[n]

LEMMA YieldsRemains ==
  ASSUME NEW chunks, NEW size \in Nat, Yields(chunks, size)
  PROVE  Remains(chunks, size)
<1>1. PICK upTo \in [0 .. Len(chunks) -> 0 .. size] :
         /\ upTo[0] = 0 /\ upTo[Len(chunks)] = size
         /\ \A n \in 1 .. Len(chunks) : upTo[n] = upTo[n - 1] + chunks[n]
  BY DEF Yields
<1>2. upTo \in [0 .. Len(chunks) -> Int]
  OBVIOUS
<1>3. QED
  BY <1>1, <1>2 DEF Remains

LEMMA RemainsNothing ==
  ASSUME NEW size, Remains(<<>>, size)
  PROVE  size = 0
<1>1. Len(<<>>) = 0
  BY EmptySeq
<1>2. QED
  BY <1>1 DEF Remains

LEMMA RemainsTail ==
  ASSUME NEW chunks \in Seq(Nat), chunks # <<>>, NEW size \in Int, Remains(chunks, size)
  PROVE  /\ Head(chunks) \in Nat /\ Tail(chunks) \in Seq(Nat)
         /\ Remains(Tail(chunks), size - Head(chunks))
<1>1. PICK upTo \in [0 .. Len(chunks) -> Int] :
         /\ upTo[0] = 0 /\ upTo[Len(chunks)] = size
         /\ \A n \in 1 .. Len(chunks) : upTo[n] = upTo[n - 1] + chunks[n]
  BY DEF Remains
<1>2. /\ Tail(chunks) \in Seq(Nat) /\ Len(Tail(chunks)) = Len(chunks) - 1 /\ Len(chunks) \in Nat \ {0}
      /\ \A i \in 1 .. Len(Tail(chunks)) : Tail(chunks)[i] = chunks[i + 1]
      /\ Head(chunks) = chunks[1] /\ chunks[1] \in Nat
  BY HeadTailProperties, LenProperties, ElementOfSeq
<1> DEFINE L == Len(chunks) - 1
           rest == [n \in 0 .. L |-> upTo[n + 1] - chunks[1]]
<1>3. L \in Nat /\ L + 1 = Len(chunks) /\ \A n \in 0 .. L : n + 1 \in 0 .. Len(chunks)
  BY <1>2
<1>4. upTo[1] = chunks[1]
  <2>1. 1 \in 1 .. Len(chunks) /\ 1 - 1 = 0
    BY <1>2
  <2>2. QED
    BY <1>1, <1>2, <2>1
<1>5. rest \in [0 .. L -> Int] /\ rest[0] = 0 /\ rest[L] = size - chunks[1]
  BY <1>1, <1>2, <1>3, <1>4
<1>6. ASSUME NEW n \in 1 .. L PROVE rest[n] = rest[n - 1] + Tail(chunks)[n]
  <2>1. n \in 0 .. L /\ n - 1 \in 0 .. L /\ n + 1 \in 1 .. Len(chunks) /\ n + 1 - 1 = n /\ n - 1 + 1 = n
    BY <1>3
  <2>2. rest[n] = upTo[n + 1] - chunks[1] /\ rest[n - 1] = upTo[n] - chunks[1]
    BY <2>1
  <2>3. upTo[n + 1] = upTo[n] + chunks[n + 1] /\ upTo[n] \in Int /\ chunks[n + 1] \in Nat
    BY <1>1, <2>1, ElementOfSeq
  <2>4. Tail(chunks)[n] = chunks[n + 1]
    BY <1>2
  <2> HIDE DEF rest
  <2>5. QED
    BY <1>2, <2>2, <2>3, <2>4
<1> HIDE DEF rest
<1>7. Remains(Tail(chunks), size - chunks[1])
  BY <1>2, <1>5, <1>6 DEF Remains
<1>8. QED
  BY <1>2, <1>7

Streaming ==
    /\ mount.app # "static"
    /\ DOMAIN sent = {"kind", "status", "headers", "size", "coding"} /\ sent.kind = "response"
    /\ sent.coding # NoCoding => Coded(sent.headers, sent.coding, doing.response)
    /\ stream.left \in Seq(Nat) /\ stream.yielded \in Nat
    /\ stream.encoder = [held |-> 0, sent |-> stream.yielded]
    /\ "content-length" \in DOMAIN sent.headers =>
          /\ sent.coding = NoCoding /\ sent.headers["content-length"] \in Nat
          /\ Remains(stream.left, sent.headers["content-length"] - stream.yielded)

Answering ==
    IF mount.app = "static" THEN StaticAnswer(doing, stat)
    ELSE doing.do \in {"complete", "stream", "fail"} /\ TrueDoing(doing)

AnswersInv ==
    /\ mount \in Mounts
    /\ coding # NoCoding => AcceptedBy(req.accept, coding)
    /\ stat # NoFile => ShrinksWhileServed \/ file.size >= stat.size
    /\ pc \in {"dispatch", "stat"} => RangeOK
    /\ pc = "send" => Answering
    /\ pc = "stream" => Streaming
    /\ pc = "answered" => ShrinksWhileServed \/ ResponseDescribesItsBody

LEMMA InitAnswers == AppInit => AnswersInv
<1> SUFFICES ASSUME AppInit PROVE AnswersInv
  OBVIOUS
<1>1. mount \in Mounts /\ coding = NoCoding /\ stat = NoFile /\ pc \in {"idle", "register"}
  BY DEF AppInit
<1>2. QED
  BY <1>1 DEF AnswersInv

LEMMA AnsweringStays ==
  ASSUME UNCHANGED <<mount, req, doing, stat>>, Answering
  PROVE  Answering'
BY DEF Answering, StaticAnswer, SendsFile, SlicesAsked, TrueDoing, TrueBody, BodyAllowed

LEMMA StreamingStays ==
  ASSUME UNCHANGED <<mount, req, doing, stream, sent>>, Streaming
  PROVE  Streaming'
BY DEF Streaming, Coded

LEMMA DescriptionStays ==
  ASSUME UNCHANGED <<mount, req, doing, sent, pc>>, ResponseDescribesItsBody
  PROVE  ResponseDescribesItsBody'
BY DEF ResponseDescribesItsBody, LengthIsTrue, CodingIsTrue, SliceIsTrue, BodyAllowed

\* The steps before a request and after its answer, and those of the file.
LEMMA BetweenAnswers ==
  ASSUME AnswersInv, mount' = mount, coding' = NoCoding \/ UNCHANGED <<coding, req>>,
         UNCHANGED <<stat, file>> \/ stat' = NoFile, pc' \in {"register", "idle"}
  PROVE  AnswersInv'
BY DEF AnswersInv

LEMMA WriteAnswers ==
  ASSUME AnswersInv, CopiesInv, NEW s \in Sizes, NEW l \in {1, 2}, Write(s, l)
  PROVE  AnswersInv'
<1>1. UNCHANGED <<mount, pc, req, coding, stat, doing, stream, sent>>
  BY DEF Write
<1>2. stat # NoFile => ShrinksWhileServed \/ file'.size >= stat.size
  <2>1. SUFFICES ASSUME stat # NoFile, ~ShrinksWhileServed PROVE file'.size >= stat.size
    OBVIOUS
  <2>2. file'.size = s /\ s >= file.size
    BY <2>1 DEF Write
  <2>3. s \in Nat /\ file.size \in Nat /\ stat.size \in Nat /\ file.size >= stat.size
    BY <2>1, FilesAssumption DEF CopiesInv, Files, AnswersInv
  <2>4. QED
    BY <2>2, <2>3
<1>3. RangeOK => RangeOK'
  BY <1>1 DEF RangeOK
<1>4. QED
  BY <1>1, <1>2, <1>3, AnsweringStays, StreamingStays, DescriptionStays DEF AnswersInv

LEMMA ReceiveAnswers ==
  ASSUME AnswersInv, NEW r \in Requests, NEW a \in Accepts, Receive(r, a)
  PROVE  AnswersInv'
<1>1. /\ pc' = "dispatch" /\ UNCHANGED <<mount, file, stat>> /\ coding' = Negotiated(r.method, a)
  BY DEF Receive
<1>2. PICK headers \in Conditions(r.headers) :
         req' = [r EXCEPT !.headers = headers] @@ [accept |-> a]
  BY DEF Receive
<1>a. "accept" \notin DOMAIN r
  BY FilesAssumption
<1>3. req'.headers = headers /\ req'.accept = a
  BY <1>2, <1>a, ReceivedRequest
<1>4. RangeOK'
  <2>1. /\ \A n \in DOMAIN r.headers : n \in DOMAIN headers /\ headers[n] = r.headers[n]
        /\ \A n \in DOMAIN headers \ DOMAIN r.headers : n \in {"if-none-match", "if-modified-since"}
    BY <1>2, FilesAssumption, ConditionsAreOK
  <2>2. "range" \in DOMAIN headers =>
           "range" \in DOMAIN r.headers /\ headers["range"] = r.headers["range"]
    BY <2>1
  <2>3. "range" \in DOMAIN headers =>
           {headers["range"].first, headers["range"].last} \subseteq Nat \cup {Empty, Junk}
    BY <2>2, FilesAssumption
  <2>4. QED
    BY <1>3, <2>3 DEF RangeOK
<1>5. coding' # NoCoding => AcceptedBy(a, coding')
  BY <1>1, NegotiateAccepts DEF Negotiated
<1>6. QED
  BY <1>1, <1>3, <1>4, <1>5 DEF AnswersInv

LEMMA DispatchAnswers ==
  ASSUME AnswersInv, TableInv, DispatchRequest
  PROVE  AnswersInv'
<1>1. pc = "dispatch" /\ UNCHANGED <<mount, registry, table, req, coding, file, stat>>
  BY DEF DispatchRequest
<1>2. RangeOK' /\ mount \in Mounts
  BY <1>1 DEF AnswersInv, RangeOK
<1>3. pc' \in {"stat", "send"}
  BY DEF DispatchRequest
<1>4. pc' = "send" => Answering'
  <2>1. CASE mount.app = "static"
    <3>1. doing' = BeforeStat(Tree, req) /\ (pc' = "send" => doing'.do # "stat")
      BY <2>1 DEF DispatchRequest
    <3>2. pc' = "send" => StaticAnswer(BeforeStat(Tree, req), stat)
      BY <3>1, BeforeStatIsTrue
    <3>3. pc' = "send" => StaticAnswer(doing, stat)'
      BY <1>1, <3>1, <3>2
         DEF StaticAnswer, SendsFile, SlicesAsked, TrueDoing, TrueBody, BodyAllowed
    <3>4. QED
      BY <1>1, <2>1, <3>3 DEF Answering
  <2>2. CASE mount.app # "static"
    <3>1. doing' = Dispatched
      BY <2>2 DEF DispatchRequest
    <3>2. TrueDoing(Dispatched) /\ Dispatched.do \in {"complete", "stream", "fail"}
      BY <1>1, <1>2, <2>2, DispatchedIsTrue, DispatchedDoes
    <3>3. TrueDoing(doing)'
      BY <1>1, <3>1, <3>2 DEF TrueDoing, TrueBody, BodyAllowed
    <3>4. QED
      BY <1>1, <2>2, <3>1, <3>2, <3>3 DEF Answering
  <2>3. QED
    BY <2>1, <2>2
<1>5. QED
  BY <1>1, <1>2, <1>3, <1>4 DEF AnswersInv

LEMMA StatAnswers ==
  ASSUME AnswersInv, TableInv, CopiesInv, Stat
  PROVE  AnswersInv'
<1>1. /\ pc = "stat" /\ pc' = "send" /\ stat' = file /\ doing' = Serve(req, file)
      /\ UNCHANGED <<mount, req, coding, file>>
  BY DEF Stat
<1>2. mount.app = "static" /\ RangeOK /\ file \in Files
  BY <1>1 DEF TableInv, AnswersInv, CopiesInv
<1>3. StaticAnswer(Serve(req, file), file)
  BY <1>2, ServeIsTrue
<1>4. StaticAnswer(doing, stat)'
  BY <1>1, <1>3 DEF StaticAnswer, SendsFile, SlicesAsked, TrueDoing, TrueBody, BodyAllowed
<1>5. file.size >= file.size
  BY <1>2 DEF Files
<1>6. QED
  BY <1>1, <1>2, <1>4, <1>5 DEF AnswersInv, Answering

\* The end of an answer: what makes the response on the wire a true one ...
LEMMA Described ==
  ASSUME UNCHANGED <<mount, req, doing>>,
         sent'.kind = "response" =>
           /\ ("content-length" \in DOMAIN sent'.headers /\ BodyAllowed(sent'.status)) =>
                sent'.headers["content-length"] = sent'.size
           /\ sent'.coding # NoCoding => Coded(sent'.headers, sent'.coding, doing.response)
           /\ mount.app = "static" =>
                \E r : r.status = sent'.status /\ r.headers = sent'.headers /\ SlicesAsked(r)
  PROVE  ResponseDescribesItsBody'
<1>1. SUFFICES ASSUME sent'.kind = "response"
               PROVE  LengthIsTrue' /\ CodingIsTrue' /\ SliceIsTrue'
  BY DEF ResponseDescribesItsBody
<1>2. LengthIsTrue'
  BY <1>1 DEF LengthIsTrue, BodyAllowed
<1>3. CodingIsTrue'
  BY <1>1 DEF CodingIsTrue, Coded, AcceptedBy
<1>4. SliceIsTrue'
  <2>1. SUFFICES ASSUME mount.app = "static" PROVE SliceIsTrue'
    BY DEF SliceIsTrue
  <2>2. PICK r : r.status = sent'.status /\ r.headers = sent'.headers /\ SlicesAsked(r)
    BY <1>1, <2>1
  <2>3. QED
    BY <2>2 DEF SliceIsTrue, SlicesAsked
<1>5. QED
  BY <1>2, <1>3, <1>4

\* ... and what is left of the invariant then.
LEMMA EndAnswers ==
  ASSUME AnswersInv, UNCHANGED <<mount, req, coding, file>>, stat' = NoFile \/ UNCHANGED stat,
         pc' = "answered", ShrinksWhileServed \/ ResponseDescribesItsBody'
  PROVE  AnswersInv'
BY DEF AnswersInv

LEMMA CompleteAnswers ==
  ASSUME AnswersInv, SendComplete
  PROVE  AnswersInv'
<1>1. /\ pc = "send" /\ pc' = "answered" /\ stat' = NoFile
      /\ UNCHANGED <<mount, req, coding, file, doing>> /\ doing.do \in {"complete", "fail"}
  BY DEF SendComplete
<1>2. Answering /\ (coding # NoCoding => AcceptedBy(req.accept, coding))
  BY <1>1 DEF AnswersInv
<1>3. CASE doing.do = "fail"
  <2>1. TrueBody(InternalError, 21)
    BY BuiltIsTrue DEF InternalError
  <2>2. sent' = Wire(InternalError, 21, NoCoding)
    BY <1>3 DEF SendComplete
  <2>3. mount.app # "static"
    BY <1>2, <1>3 DEF Answering, StaticAnswer
  <2>4. sent'.kind = "response" =>
          /\ sent'.coding = NoCoding
          /\ ("content-length" \in DOMAIN sent'.headers /\ BodyAllowed(sent'.status)) =>
                sent'.headers["content-length"] = sent'.size
    BY <2>1, <2>2, WiredIsTrue
  <2>5. ResponseDescribesItsBody'
    BY <1>1, <2>3, <2>4, Described
  <2>6. QED
    BY <1>1, <2>5, EndAnswers
<1>4. CASE doing.do = "complete"
  <2> DEFINE out == CompleteThrough(coding, doing.response, [size |-> doing.body, coding |-> NoCoding], req.method)
  <2>1. doing.body \in Int /\ TrueBody(doing.response, doing.body)
    BY <1>2, <1>4 DEF Answering, StaticAnswer, TrueDoing
  <2>2. mount.app = "static" => SlicesAsked(doing.response)
    BY <1>2 DEF Answering, StaticAnswer
  <2>3. sent' = Wire(out[1], out[2].size, out[2].coding)
    BY <1>4 DEF SendComplete
  <2>4. PICK r, n, c :
           /\ out = <<r, [size |-> n, coding |-> c]>>
           /\ n \in Int /\ TrueBody(r, n) /\ (SlicesAsked(doing.response) => SlicesAsked(r))
           /\ c # NoCoding => Coded(r.headers, c, doing.response)
    BY <1>2, <2>1, CompletedIsTrue
  <2>5. sent' = Wire(r, n, c)
    BY <2>3, <2>4
  <2> HIDE DEF out
  <2>6. sent'.kind = "response" =>
          /\ sent'.status = r.status /\ sent'.headers = r.headers /\ sent'.coding = c
          /\ ("content-length" \in DOMAIN sent'.headers /\ BodyAllowed(sent'.status)) =>
                sent'.headers["content-length"] = sent'.size
    BY <2>4, <2>5, WiredIsTrue
  <2>7. ResponseDescribesItsBody'
    BY <1>1, <2>2, <2>4, <2>6, Described
  <2>8. QED
    BY <1>1, <2>7, EndAnswers
<1>5. QED
  BY <1>1, <1>3, <1>4

\* A file that has not shrunk since its stat has all the bytes that were declared.
LEMMA SendFileAnswers ==
  ASSUME AnswersInv, CopiesInv, SendFileBytes
  PROVE  AnswersInv'
<1> DEFINE there == IF file.size > doing.offset THEN file.size - doing.offset ELSE 0
           bytes == IF there < doing.count THEN there ELSE doing.count
           wired == Wire(doing.response, doing.count, NoCoding)
<1>1. /\ pc = "send" /\ doing.do = "sendfile" /\ pc' = "answered" /\ stat' = NoFile
      /\ UNCHANGED <<mount, req, coding, file, doing>> /\ sent' = [wired EXCEPT !.size = bytes]
  BY DEF SendFileBytes
<1>2. mount.app = "static" /\ SendsFile(doing, stat) /\ SlicesAsked(doing.response)
  BY <1>1 DEF AnswersInv, Answering, StaticAnswer
<1>3. SUFFICES ASSUME ~ShrinksWhileServed PROVE ResponseDescribesItsBody'
  BY <1>1, EndAnswers
<1>4. bytes = doing.count
  <2>1. PICK offset \in Nat, count \in Nat :
           offset = doing.offset /\ count = doing.count /\ count > 0 /\ offset + count <= stat.size
    BY <1>2 DEF SendsFile
  <2>2. stat # NoFile
    BY <2>1 DEF NoFile
  <2>3. file.size \in Nat /\ stat.size \in Nat /\ file.size >= stat.size
    BY <1>3, <2>2 DEF AnswersInv, CopiesInv, Files
  <2>4. file.size > offset /\ ~(file.size - offset < count)
    BY <2>1, <2>3
  <2>5. QED
    BY <2>1, <2>4
<1>5. "content-length" \in DOMAIN doing.response.headers /\ doing.response.headers["content-length"] = doing.count
      /\ doing.count \in Int
  BY <1>2 DEF SendsFile
<1> HIDE DEF bytes, wired
<1>6. CASE wired = [kind |-> "closed"]
  <2>1. sent' = [kind |-> "closed"]
    BY <1>1, <1>6
  <2>2. sent'.kind = "closed"
    BY <2>1
  <2>3. QED
    BY <1>1, <2>2, Described
<1>7. CASE \E n : wired = [kind |-> "response", status |-> doing.response.status,
                           headers |-> doing.response.headers, size |-> n, coding |-> NoCoding]
  <2>1. sent' = [kind |-> "response", status |-> doing.response.status,
                 headers |-> doing.response.headers, size |-> bytes, coding |-> NoCoding]
    BY <1>1, <1>7
  <2>2. /\ sent'.status = doing.response.status /\ sent'.headers = doing.response.headers
        /\ sent'.size = doing.count /\ sent'.coding = NoCoding
    BY <1>4, <2>1
  <2>3. QED
    BY <1>1, <1>2, <1>5, <2>2, Described
<1>8. QED
  BY <1>5, <1>6, <1>7, WireIs DEF wired

LEMMA StartAnswers ==
  ASSUME AnswersInv, SendStart
  PROVE  AnswersInv'
<1> DEFINE out == StreamThrough(coding, doing.response, req.method)
<1>1. /\ pc = "send" /\ doing.do = "stream" /\ pc' = "stream"
      /\ UNCHANGED <<mount, req, coding, file, stat, doing>>
      /\ sent' = [kind |-> "response", status |-> out[1].status, headers |-> out[1].headers,
                  size |-> 0, coding |-> out[2]]
      /\ stream' = [NoStream EXCEPT !.left = doing.chunks]
  BY DEF SendStart
<1>2. /\ mount.app # "static" /\ TrueStream(doing.response.headers, doing.chunks)
      /\ coding # NoCoding => AcceptedBy(req.accept, coding)
  BY <1>1 DEF AnswersInv, Answering, StaticAnswer, TrueDoing
<1>3. PICK r, c :
         /\ out = <<r, c>>
         /\ c # NoCoding => Coded(r.headers, c, doing.response)
         /\ "content-length" \in DOMAIN r.headers =>
              /\ c = NoCoding /\ r.headers["content-length"] \in Nat
              /\ Yields(doing.chunks, r.headers["content-length"])
  BY <1>2, StreamedIsTrue
<1> HIDE DEF out
<1>4. sent' = [kind |-> "response", status |-> r.status, headers |-> r.headers, size |-> 0, coding |-> c]
  BY <1>1, <1>3
<1>5. /\ DOMAIN sent' = {"kind", "status", "headers", "size", "coding"} /\ sent'.kind = "response"
      /\ sent'.headers = r.headers /\ sent'.coding = c
  BY <1>4
<1>6. stream' = [left |-> doing.chunks, yielded |-> 0, encoder |-> [held |-> 0, sent |-> 0]]
  BY <1>1 DEF NoStream
<1>7. /\ stream'.left = doing.chunks /\ stream'.yielded = 0
      /\ stream'.encoder = [held |-> 0, sent |-> 0] /\ doing.chunks \in Seq(Nat)
  BY <1>2, <1>6 DEF TrueStream
<1>8. "content-length" \in DOMAIN r.headers =>
         Remains(stream'.left, r.headers["content-length"] - stream'.yielded)
  <2>1. SUFFICES ASSUME "content-length" \in DOMAIN r.headers
                 PROVE  Remains(doing.chunks, r.headers["content-length"] - 0)
    BY <1>7
  <2>2. r.headers["content-length"] - 0 = r.headers["content-length"]
    BY <1>3, <2>1
  <2>3. QED
    BY <1>3, <2>1, <2>2, YieldsRemains
<1>9. Streaming'
  BY <1>1, <1>2, <1>3, <1>5, <1>7, <1>8 DEF Streaming, Coded
<1>10. QED
  BY <1>1, <1>9 DEF AnswersInv

LEMMA ChunkAnswers ==
  ASSUME AnswersInv, SendChunk
  PROVE  AnswersInv'
<1> DEFINE size == Head(stream.left)
           encoder == IF sent.coding = NoCoding
                      THEN [stream.encoder EXCEPT !.sent = @ + size]
                      ELSE CompressChunk(stream.encoder, size)
<1>1. /\ pc = "stream" /\ stream.left # <<>>
      /\ UNCHANGED <<mount, req, coding, file, stat, doing>>
      /\ \/ /\ stream' = [left |-> Tail(stream.left), yielded |-> stream.yielded + size, encoder |-> encoder]
            /\ UNCHANGED <<pc, sent>>
         \/ sent' = [kind |-> "closed"] /\ pc' = "answered"
  BY DEF SendChunk
<1>2. Streaming
  BY <1>1 DEF AnswersInv
<1>3. CASE sent' = [kind |-> "closed"] /\ pc' = "answered"
  <2>1. sent'.kind = "closed"
    BY <1>3
  <2>2. ResponseDescribesItsBody'
    BY <1>1, <2>1, Described
  <2>3. QED
    BY <1>1, <1>3, <2>2, EndAnswers
<1>4. CASE /\ stream' = [left |-> Tail(stream.left), yielded |-> stream.yielded + size, encoder |-> encoder]
           /\ UNCHANGED <<pc, sent>>
  <2>1. /\ stream'.left = Tail(stream.left) /\ stream'.yielded = stream.yielded + size
        /\ stream'.encoder = encoder
    BY <1>4
  <2>2. size \in Nat /\ Tail(stream.left) \in Seq(Nat)
    BY <1>1, <1>2, HeadTailProperties, ElementOfSeq DEF Streaming
  <2>3. PICK yielded \in Nat : yielded = stream.yielded /\ stream.encoder = [held |-> 0, sent |-> yielded]
    BY <1>2 DEF Streaming
  <2> HIDE DEF size
  <2>4. encoder = [held |-> 0, sent |-> yielded + size]
    <3>1. [stream.encoder EXCEPT !.sent = @ + size] = [held |-> 0, sent |-> yielded + size]
      BY <2>3
    <3>2. size = 0 => stream.encoder = [held |-> 0, sent |-> yielded + size]
      BY <2>3
    <3>3. Flush(Feed(stream.encoder, size)) = [held |-> 0, sent |-> yielded + size]
      <4>1. Feed(stream.encoder, size) = [held |-> 0 + size, sent |-> yielded]
        BY <2>3 DEF Feed
      <4>2. 0 + size = size
        BY <2>2
      <4>3. Feed(stream.encoder, size) = [held |-> size, sent |-> yielded]
        BY <4>1, <4>2
      <4>4. QED
        BY <4>3 DEF Flush
    <3>4. QED
      BY <3>1, <3>2, <3>3 DEF CompressChunk
  <2>5. "content-length" \in DOMAIN sent.headers =>
           Remains(Tail(stream.left), sent.headers["content-length"] - (stream.yielded + size))
    <3>1. SUFFICES ASSUME "content-length" \in DOMAIN sent.headers
                   PROVE  Remains(Tail(stream.left), sent.headers["content-length"] - (stream.yielded + size))
      OBVIOUS
    <3>2. PICK declared \in Nat :
             declared = sent.headers["content-length"] /\ Remains(stream.left, declared - yielded)
      BY <1>2, <2>3, <3>1 DEF Streaming
    <3>3. Remains(Tail(stream.left), declared - yielded - size)
      BY <1>1, <1>2, <3>2, RemainsTail DEF Streaming, size
    <3>4. declared - yielded - size = declared - (yielded + size)
      BY <2>2
    <3>5. QED
      BY <2>3, <3>2, <3>3, <3>4
  <2> HIDE DEF encoder
  <2>6. stream'.yielded \in Nat /\ stream'.encoder = [held |-> 0, sent |-> stream'.yielded]
    BY <2>1, <2>2, <2>3, <2>4
  <2>7. Streaming'
    BY <1>1, <1>2, <1>4, <2>1, <2>2, <2>5, <2>6 DEF Streaming, Coded
  <2>8. QED
    BY <1>1, <1>4, <2>7 DEF AnswersInv
<1>5. QED
  BY <1>1, <1>3, <1>4

LEMMA FinishAnswers ==
  ASSUME AnswersInv, SendEnd
  PROVE  AnswersInv'
<1> DEFINE bytes == IF ~BodyAllowed(sent.status) THEN 0
                    ELSE IF sent.coding = NoCoding THEN stream.encoder.sent
                    ELSE FinishEncoder(stream.encoder).sent
<1>1. /\ pc = "stream" /\ stream.left = <<>> /\ pc' = "answered"
      /\ UNCHANGED <<mount, req, coding, file, stat, doing>>
      /\ sent' = [sent EXCEPT !.size = bytes]
  BY DEF SendEnd
<1>2. Streaming
  BY <1>1 DEF AnswersInv
<1>3. ASSUME "content-length" \in DOMAIN sent.headers, BodyAllowed(sent.status)
      PROVE  sent.headers["content-length"] = bytes
  <2>1. PICK declared \in Nat, yielded \in Nat :
           /\ declared = sent.headers["content-length"] /\ yielded = stream.yielded
           /\ sent.coding = NoCoding /\ Remains(<<>>, declared - yielded)
           /\ stream.encoder = [held |-> 0, sent |-> yielded]
    BY <1>1, <1>2, <1>3 DEF Streaming
  <2>2. declared - yielded = 0
    BY <2>1, RemainsNothing
  <2>3. bytes = yielded
    BY <1>3, <2>1
  <2>4. QED
    BY <2>1, <2>2, <2>3
<1> HIDE DEF bytes
<1>4. /\ sent'.status = sent.status /\ sent'.headers = sent.headers /\ sent'.coding = sent.coding
      /\ sent'.size = bytes
  BY <1>1, <1>2 DEF Streaming
<1>5. ResponseDescribesItsBody'
  BY <1>1, <1>2, <1>3, <1>4, Described DEF Streaming
<1>6. QED
  BY <1>1, <1>5, EndAnswers

LEMMA NextAnswers == AnswersInv /\ TableInv /\ CopiesInv /\ [AppNext]_avars => AnswersInv'
<1> SUFFICES ASSUME AnswersInv, TableInv, CopiesInv, [AppNext]_avars PROVE AnswersInv'
  OBVIOUS
<1>1. ASSUME NEW r \in Registrable, Register(r) PROVE AnswersInv'
  <2>1. pc' = "register" /\ UNCHANGED <<mount, req, coding, file, stat>>
    BY <1>1 DEF Register
  <2>2. QED
    BY <2>1, BetweenAnswers
<1>2. CASE Build \/ BuildRefused
  <2>1. pc' \in {"idle", "register"} /\ UNCHANGED <<mount, req, coding, file, stat>>
    BY <1>2 DEF Build, BuildRefused
  <2>2. QED
    BY <2>1, BetweenAnswers
<1>3. ASSUME NEW r \in Requests, NEW a \in Accepts, Receive(r, a) PROVE AnswersInv'
  BY <1>3, ReceiveAnswers
<1>4. CASE DispatchRequest
  BY <1>4, DispatchAnswers
<1>5. CASE Stat
  BY <1>5, StatAnswers
<1>6. CASE SendComplete
  BY <1>6, CompleteAnswers
<1>7. CASE SendFileBytes
  BY <1>7, SendFileAnswers
<1>8. CASE SendStart
  BY <1>8, StartAnswers
<1>9. CASE SendChunk
  BY <1>9, ChunkAnswers
<1>10. CASE SendEnd
  BY <1>10, FinishAnswers
<1>11. CASE Answered
  <2>1. pc' = "idle" /\ coding' = NoCoding /\ UNCHANGED <<mount, file, stat>>
    BY <1>11 DEF Answered
  <2>2. QED
    BY <2>1, BetweenAnswers
<1>12. ASSUME NEW s \in Sizes, NEW l \in {1, 2}, Write(s, l) PROVE AnswersInv'
  BY <1>12, WriteAnswers
<1>13. CASE UNCHANGED avars
  <2>1. UNCHANGED <<mount, pc, req, coding, file, stat, doing, stream, sent>>
    BY <1>13 DEF avars
  <2>2. RangeOK => RangeOK'
    BY <2>1 DEF RangeOK
  <2>3. QED
    BY <2>1, <2>2, AnsweringStays, StreamingStays, DescriptionStays DEF AnswersInv
<1>14. QED
  BY <1>1, <1>2, <1>3, <1>4, <1>5, <1>6, <1>7, <1>8, <1>9, <1>10, <1>11, <1>12, <1>13 DEF AppNext

LEMMA AllAnswers == AppSpec => [](AnswersInv /\ TableInv /\ CopiesInv)
<1>1. AppInit => AnswersInv /\ TableInv /\ CopiesInv
  BY InitAnswers, InitTable, InitCopies
<1>2. AnswersInv /\ TableInv /\ CopiesInv /\ [AppNext]_avars => (AnswersInv /\ TableInv /\ CopiesInv)'
  BY NextAnswers, NextTable, NextCopies
<1>3. QED
  BY <1>1, <1>2, PTL DEF AppSpec

\* Whatever the handler yields, in whatever coding: the peer can decode all of it
\* before the handler is asked for more.
THEOREM ChunksAreFlushed == AppSpec => []EventsReachThePeer
<1>1. AnswersInv => EventsReachThePeer
  BY DEF AnswersInv, Streaming, EventsReachThePeer
<1>2. QED
  BY <1>1, AllAnswers, PTL

\* Whatever the handlers, the middlewares, the files and the client's headers: as
\* many bytes follow as Content-Length declares, in the coding that was declared and
\* that the client accepts, and of a file those that it asked for, provided that
\* handlers declare no length but the true one and that no write makes the file
\* shorter between its stat and its sending, which nothing in the code would notice.
THEOREM ResponsesAreTrue == ~ShrinksWhileServed => (AppSpec => []ResponseDescribesItsBody)
<1> SUFFICES ASSUME ~ShrinksWhileServed PROVE AppSpec => []ResponseDescribesItsBody
  OBVIOUS
<1>1. AnswersInv => ResponseDescribesItsBody
  BY DEF AnswersInv, ResponseDescribesItsBody
<1>2. QED
  BY <1>1, AllAnswers, PTL

-----------------------------------------------------------------------------
(* What an operation does, and what its document says of it                 *)

\* The parameters of a function that are documented are as its request has them.
Given(fn, factories, args) == \A d \in UpdateDoc(fn, factories) : Acceptable(d, args)

DocOf(fn, factories, i) ==
    [name |-> factories[i].name, location |-> factories[i].from,
     required |-> factories[i].from = "path" \/ ~Optional(fn.params[i]),
     schema |-> fn.params[i].type]

LEMMA GivenIsEach ==
  ASSUME NEW fn, NEW factories, NEW args
  PROVE  Given(fn, factories, args) <=>
           \A i \in DOMAIN fn.params :
              factories[i].from \in {"path", "query", "header"} => Acceptable(DocOf(fn, factories, i), args)
BY DEF Given, UpdateDoc, DocOf

LEMMA PathAsDocumented ==
  ASSUME NEW fn, NEW factories, NEW args, NEW i, factories[i].from = "path", fn.params[i].type # "ints"
  PROVE  ResolvePath(fn.params[i], factories[i], args) <=> Acceptable(DocOf(fn, factories, i), args)
<1> DEFINE d == DocOf(fn, factories, i)
<1>1. /\ d.name = factories[i].name /\ d.location = "path" /\ d.schema = fn.params[i].type
      /\ d.required = TRUE
  BY DEF DocOf
<1> HIDE DEF d
<1>2. \A x : <<x>> # <<>> /\ <<x>>[1] = x
  OBVIOUS
<1>3. CASE factories[i].name \in DOMAIN args
  BY <1>1, <1>2, <1>3 DEF Acceptable, ResolvePath, d
<1>4. CASE factories[i].name \notin DOMAIN args
  BY <1>1, <1>4 DEF Acceptable, ResolvePath, d
<1>5. QED
  BY <1>3, <1>4

LEMMA QueryAsDocumented ==
  ASSUME NEW fn, NEW factories, NEW args, NEW i, factories[i].from = "query"
  PROVE  ResolveQuery(fn.params[i], factories[i], req.query) <=> Acceptable(DocOf(fn, factories, i), args)
<1> DEFINE d == DocOf(fn, factories, i)
           values == IF factories[i].name \in DOMAIN req.query THEN req.query[factories[i].name] ELSE <<>>
<1>1. /\ d.name = factories[i].name /\ d.location = "query" /\ d.schema = fn.params[i].type
      /\ d.required <=> ~Optional(fn.params[i])
  BY DEF DocOf
<1> HIDE DEF d
<1>2. Acceptable(d, args) <=>
        IF values = <<>> THEN ~d.required
        ELSE IF d.schema = "ints" THEN \A k \in DOMAIN values : CastStr(values[k], "int")
        ELSE CastStr(values[1], d.schema)
  BY <1>1 DEF Acceptable
<1>3. ResolveQuery(fn.params[i], factories[i], req.query) <=>
        IF values = <<>> THEN Optional(fn.params[i])
        ELSE IF fn.params[i].type = "ints" THEN \A k \in DOMAIN values : CastStr(values[k], "int")
        ELSE CastStr(values[1], fn.params[i].type)
  BY DEF ResolveQuery
<1> HIDE DEF values
<1>4. QED
  BY <1>1, <1>2, <1>3 DEF d

LEMMA HeaderAsDocumented ==
  ASSUME NEW fn, NEW factories, NEW args, NEW i, factories[i].from = "header", fn.params[i].type # "ints"
  PROVE  ResolveHeader(fn.params[i], factories[i], req.headers) <=> Acceptable(DocOf(fn, factories, i), args)
<1> DEFINE d == DocOf(fn, factories, i)
<1>1. /\ d.name = factories[i].name /\ d.location = "header" /\ d.schema = fn.params[i].type
      /\ d.required <=> ~Optional(fn.params[i])
  BY DEF DocOf
<1> HIDE DEF d
<1>2. \A x : <<x>> # <<>> /\ <<x>>[1] = x
  OBVIOUS
<1>3. CASE factories[i].name \in DOMAIN req.headers
  BY <1>1, <1>2, <1>3 DEF Acceptable, ResolveHeader, d
<1>4. CASE factories[i].name \notin DOMAIN req.headers
  BY <1>1, <1>4 DEF Acceptable, ResolveHeader, d
<1>5. QED
  BY <1>3, <1>4

LEMMA ResolvedAsDocumented ==
  ASSUME NEW fn, NEW factories, ParametersAsDocumented(fn, factories), NEW args, NEW body
  PROVE  ResolveAll(fn, factories, req, args, body) <=>
           /\ Given(fn, factories, args)
           /\ \A i \in DOMAIN fn.params : factories[i].from = "body" => body = "json"
<1> DEFINE resolved(i) ==
             LET p == fn.params[i]  f == factories[i]
             IN  CASE f.from = "ctx" -> TRUE
                   [] f.from = "path" -> ResolvePath(p, f, args)
                   [] f.from = "query" -> ResolveQuery(p, f, req.query)
                   [] f.from = "header" -> ResolveHeader(p, f, req.headers)
                   [] f.from = "body" -> ResolveBody(p, body)
<1>1. ResolveAll(fn, factories, req, args, body) <=> \A i \in DOMAIN fn.params : resolved(i)
  BY Zenon DEF ResolveAll
<1>2. ASSUME NEW i \in DOMAIN fn.params
      PROVE  resolved(i) <=>
               /\ factories[i].from \in {"path", "query", "header"} => Acceptable(DocOf(fn, factories, i), args)
               /\ factories[i].from = "body" => body = "json"
  <2>1. \/ factories[i].from \in {"ctx", "query"}
        \/ factories[i].from \in {"path", "header"} /\ fn.params[i].type # "ints"
        \/ factories[i].from = "body" /\ fn.params[i].type \notin {"bytes", "str"}
    BY DEF ParametersAsDocumented
  <2>2. CASE factories[i].from = "ctx"
    BY <2>2
  <2>3. CASE factories[i].from = "path" /\ fn.params[i].type # "ints"
    BY <2>3, PathAsDocumented
  <2>4. CASE factories[i].from = "query"
    BY <2>4, QueryAsDocumented
  <2>5. CASE factories[i].from = "header" /\ fn.params[i].type # "ints"
    BY <2>5, HeaderAsDocumented
  <2>6. CASE factories[i].from = "body" /\ fn.params[i].type \notin {"bytes", "str"}
    BY <2>6 DEF ResolveBody
  <2>7. QED
    BY <2>1, <2>2, <2>3, <2>4, <2>5, <2>6
<1> HIDE DEF resolved
<1>3. QED
  BY <1>1, <1>2, GivenIsEach

\* The operation itself: it answers what it documents, once all is as documented.
OwnFactories(fn, template) == Factories(fn, {template[i].name : i \in VariablesOf(template)})

OwnGiven(fn, template, args) ==
    /\ Given(fn, OwnFactories(fn, template), args)
    /\ BodyDoc(fn, OwnFactories(fn, template)) = "required" => req.body = "json"

\* A status of an answer, and one that stands for an exception.
StatusOK(result) == result.status \in Nat /\ (result.body = "raised" => result.status = 500)

LEMMA FailureIs == Failure.status = 500 /\ Failure.body = "raised" /\ StatusOK(Failure)
BY DEF Failure, StatusOK

LEMMA BadRequestIs == BadRequest.status = 400 /\ StatusOK(BadRequest)
BY DEF BadRequest, Answer, StatusOK

LEMMA TrueIsOK ==
  ASSUME NEW result, TrueResult(result), result.status \in Nat
  PROVE  StatusOK(result)
BY DEF TrueResult, StatusOK

LEMMA NormalisedStatus ==
  ASSUME NEW fn, NEW template, OperationFunction(fn), OperationAsDocumented(fn, template)
  PROVE  LET shapes == ExtractResponseShapes(fn.returns)
             result == Normalised(fn.value, shapes)
         IN  /\ StatusOK(result)
             /\ result.status \in (shapes.codes \cup {500}) \ {400}
<1> DEFINE shapes == ExtractResponseShapes(fn.returns)
           result == Normalised(fn.value, shapes)
<1>1. fn.value.type = "raise" \/ result.status \in (shapes.codes \cap Nat) \ {400}
  BY DEF OperationAsDocumented
<1> HIDE DEF shapes
<1>2. CASE fn.value.type = "raise"
  <2>1. result = Failure
    BY <1>2 DEF Normalised
  <2>2. QED
    BY <2>1, FailureIs DEF shapes
<1>3. ASSUME fn.value.type # "raise" PROVE StatusOK(result)
  <2>1. result.status \in Nat
    BY <1>1, <1>3
  <2>2. CASE fn.value.type = "result" /\ TrueResult(fn.value.result)
    <3>1. result = fn.value.result
      BY <2>2 DEF Normalised
    <3>2. QED
      BY <2>1, <2>2, <3>1, TrueIsOK
  <2>3. CASE fn.value.type \in {"iterator", "sync iterator", "none", "text", "octets", "json"}
    <3>1. \E status, body, size : result = Answer(status, body, size, <<>>) /\ body # "raised"
      <4>1. CASE fn.value.type \in {"iterator", "sync iterator"}
        <5>1. result = Answer(200, "events", fn.value.chunks, <<>>)
          BY <4>1 DEF Normalised
        <5>2. QED
          BY <5>1
      <4>2. CASE fn.value.type = "none"
        <5>1. result = Answer(IF shapes.nullIsNotFound THEN 404 ELSE 200, "none", 0, <<>>)
          BY <4>2 DEF Normalised
        <5>2. QED
          BY <5>1
      <4>3. CASE fn.value.type \in {"text", "octets", "json"}
        <5>1. result = Answer(200, fn.value.type, fn.value.size, <<>>)
          BY <4>3 DEF Normalised
        <5>2. QED
          BY <4>3, <5>1
      <4>4. QED
        BY <2>3, <4>1, <4>2, <4>3
    <3>2. result.body # "raised"
      BY <3>1 DEF Answer
    <3>3. QED
      BY <2>1, <3>2 DEF StatusOK
  <2>4. QED
    BY <1>3, <2>2, <2>3 DEF OperationFunction
<1>4. QED
  BY <1>1, <1>2, <1>3 DEF shapes

LEMMA CoreAsDocumented ==
  ASSUME NEW fn, NEW template, OperationFunction(fn), OperationAsDocumented(fn, template), NEW flavour
  PROVE  LET core == RunCore(fn, template, req, flavour)
             given == OwnGiven(fn, template, PathArgs(template, req.path))
         IN  /\ StatusOK(core)
             /\ ~given => core.status = 400
             /\ given => core.status \in (ExtractResponseShapes(fn.returns).codes \cup {500}) \ {400}
<1> DEFINE factories == OwnFactories(fn, template)
           args == PathArgs(template, req.path)
           shapes == ExtractResponseShapes(fn.returns)
           core == RunCore(fn, template, req, flavour)
           needsBody == \E i \in DOMAIN factories : factories[i].from = "body"
           body == IF needsBody THEN req.body ELSE "empty"
           bodies == {i \in DOMAIN fn.params : factories[i].from = "body"}
<1>1. core = IF ResolveAll(fn, factories, req, args, body)
             THEN IF flavour = "async" THEN AsyncNormalised(fn.value, shapes) ELSE Normalised(fn.value, shapes)
             ELSE BadRequest
  BY Zenon DEF RunCore, OwnFactories
<1>2. ParametersAsDocumented(fn, factories) /\ DOMAIN factories = DOMAIN fn.params
  BY DEF OperationAsDocumented, OwnFactories, Factories
<1>3. BodyDoc(fn, factories) = "required" <=> bodies # {}
  <2> DEFINE last == CHOOSE i \in bodies : \A j \in bodies : j <= i
  <2>1. BodyDoc(fn, factories) = IF bodies = {} THEN "no"
                                 ELSE IF fn.params[last].default THEN "optional" ELSE "required"
    BY Zenon DEF BodyDoc
  <2>2. ASSUME bodies # {} PROVE last \in bodies
    <3>1. bodies \subseteq 1 .. Len(fn.params) /\ Len(fn.params) \in Nat
      BY <1>2, LenProperties DEF ParametersAsDocumented
    <3> HIDE DEF bodies
    <3>2. \E i \in bodies : \A j \in bodies : j <= i
      BY <2>2, <3>1, GreatestUpTo
    <3>3. QED
      BY <3>2
  <2>3. \A i \in bodies : ~fn.params[i].default
    BY <1>2 DEF ParametersAsDocumented
  <2> HIDE DEF bodies, last
  <2>4. QED
    BY <2>1, <2>2, <2>3
<1>4. (\A i \in DOMAIN fn.params : factories[i].from = "body" => body = "json")
        <=> (bodies # {} => req.body = "json")
  BY <1>2
<1>5. ResolveAll(fn, factories, req, args, body) <=> OwnGiven(fn, template, args)
  <2> HIDE DEF body, bodies
  <2>1. ResolveAll(fn, factories, req, args, body) <=>
          /\ Given(fn, factories, args)
          /\ \A i \in DOMAIN fn.params : factories[i].from = "body" => body = "json"
    BY <1>2, ResolvedAsDocumented
  <2>2. QED
    BY <1>3, <1>4, <2>1 DEF OwnGiven
<1>6. /\ StatusOK(Normalised(fn.value, shapes))
      /\ Normalised(fn.value, shapes).status \in (shapes.codes \cup {500}) \ {400}
  BY NormalisedStatus
<1> HIDE DEF core, shapes, factories, args, body, needsBody, bodies
<1>7. CASE OwnGiven(fn, template, args)
  <2>1. core \in {Failure, Normalised(fn.value, shapes)}
    BY <1>1, <1>5, <1>7 DEF AsyncNormalised
  <2>2. StatusOK(core) /\ core.status \in (shapes.codes \cup {500}) \ {400}
    BY <1>6, <2>1, FailureIs
  <2>3. QED
    BY <1>7, <2>2 DEF core, shapes, args
<1>8. CASE ~OwnGiven(fn, template, args)
  <2>1. core = BadRequest
    BY <1>1, <1>5, <1>8
  <2>2. QED
    BY <1>8, <2>1, BadRequestIs DEF core, shapes, args
<1>9. QED
  BY <1>7, <1>8

\* A middleware: it refuses, as it documents, or what it is around answers.
MiddlewareGiven(mw, args) ==
    /\ Given(mw, Factories(mw, {}), args)
    /\ mw.does = "authenticate" => "authorization" \in DOMAIN req.headers

LEMMA LayerAsDocumented ==
  ASSUME NEW mws, MiddlewareFunctions(mws), NEW i \in DOMAIN mws, MiddlewareAsDocumented(mws[i]),
         NEW rest, NEW args
  PROVE  LET mw == mws[i]
             result == WrapMiddleware(mw, rest, args, req)
         IN  \/ result = rest /\ MiddlewareGiven(mw, args)
             \/ StatusOK(result) /\ result.status = 400 /\ ~Given(mw, Factories(mw, {}), args)
             \/ /\ StatusOK(result) /\ result.status > 400
                /\ result.status \in ExtractResponseShapes(mw.returns).codes \cup {500}
<1> DEFINE mw == mws[i]
           result == WrapMiddleware(mw, rest, args, req)
           codes == ExtractResponseShapes(mw.returns).codes
           resolved == ResolveAll(mw, Factories(mw, {}), req, args, "empty")
<1>1. result = IF ~resolved THEN BadRequest
        ELSE CASE mw.does = "authenticate" ->
                    IF Authenticated(mw, req.headers) THEN rest ELSE Unauthorized(mw)
               [] mw.does = "answer" -> mw.result
               [] mw.does = "call next" -> rest
               [] mw.does = "return something else" -> Failure
  BY Zenon DEF WrapMiddleware
<1>2. /\ ParametersAsDocumented(mw, Factories(mw, {}))
      /\ \A j \in DOMAIN mw.params : Factories(mw, {})[j].from # "body"
      /\ mw.does = "authenticate" => 401 \in codes
      /\ mw.does = "answer" => mw.result.status \in codes \cap Nat /\ mw.result.status > 400
  BY DEF MiddlewareAsDocumented
<1>3. resolved <=> Given(mw, Factories(mw, {}), args)
  <2>1. resolved <=>
          /\ Given(mw, Factories(mw, {}), args)
          /\ \A j \in DOMAIN mw.params : Factories(mw, {})[j].from = "body" => "empty" = "json"
    BY <1>2, ResolvedAsDocumented
  <2>2. QED
    BY <1>2, <2>1
<1>4. \/ mw.does \in {"authenticate", "call next", "return something else"}
      \/ mw.does = "answer" /\ TrueResult(mw.result)
  BY DEF MiddlewareFunctions
<1>5. Unauthorized(mw).status = 401 /\ Unauthorized(mw).body = "text"
  BY DEF Unauthorized, Answer
<1>6. StatusOK(Unauthorized(mw))
  BY <1>5 DEF StatusOK
<1>7. Authenticated(mw, req.headers) => "authorization" \in DOMAIN req.headers
  BY DEF Authenticated
<1> SUFFICES \/ result = rest /\ MiddlewareGiven(mw, args)
             \/ StatusOK(result) /\ result.status = 400 /\ ~Given(mw, Factories(mw, {}), args)
             \/ StatusOK(result) /\ result.status > 400 /\ result.status \in codes \cup {500}
  OBVIOUS
<1> HIDE DEF mw, result, codes, resolved
<1>8. CASE ~resolved
  BY <1>1, <1>3, <1>8, BadRequestIs
<1>9. CASE resolved /\ mw.does = "authenticate"
  <2>1. CASE Authenticated(mw, req.headers)
    BY <1>1, <1>3, <1>7, <1>9, <2>1 DEF MiddlewareGiven
  <2>2. CASE ~Authenticated(mw, req.headers)
    <3>1. result = Unauthorized(mw)
      BY <1>1, <1>9, <2>2
    <3>2. StatusOK(result) /\ result.status = 401 /\ 401 \in codes
      BY <1>2, <1>5, <1>6, <1>9, <3>1
    <3>3. QED
      BY <3>2
  <2>3. QED
    BY <2>1, <2>2
<1>10. CASE resolved /\ mw.does = "answer" /\ TrueResult(mw.result)
  <2>1. result = mw.result
    BY <1>1, <1>10
  <2>2. StatusOK(result)
    BY <1>2, <1>10, <2>1, TrueIsOK
  <2>3. QED
    BY <1>2, <1>10, <2>1, <2>2
<1>11. CASE resolved /\ mw.does = "call next"
  BY <1>1, <1>3, <1>11 DEF MiddlewareGiven
<1>12. CASE resolved /\ mw.does = "return something else"
  <2>1. result = Failure
    BY <1>1, <1>12
  <2>2. StatusOK(result) /\ result.status = 500
    BY <2>1, FailureIs
  <2>3. QED
    BY <2>2
<1>13. QED
  BY <1>4, <1>8, <1>9, <1>10, <1>11, <1>12

\* The document of an operation: what it and its middlewares contribute, and no more.
MiddlewareParameters(mw) == UpdateDoc(mw, Factories(mw, {}))
MiddlewareCodes(mw) == ExtractResponseShapes(mw.returns).codes

OwnDocument(fn, template) ==
    [parameters |-> UpdateDoc(fn, OwnFactories(fn, template)), body |-> BodyDoc(fn, OwnFactories(fn, template)),
     codes |-> ExtractResponseShapes(fn.returns).codes, security |-> {}]

DocNext(f, i, own, mws) == IF i = 0 THEN own ELSE ContributeOperation(f[i - 1], mws[i])

IsDoc(f, n, own, mws) == f = [i \in 0 .. n |-> DocNext(f, i, own, mws)]

LEMMA DocExists ==
  ASSUME NEW n \in Nat, NEW own, NEW mws
  PROVE  \E f : IsDoc(f, n, own, mws)
<1> DEFINE Next1(f, i) == DocNext(f, i, own, mws)
           Is(f, m) == f = [i \in 0 .. m |-> Next1(f, i)]
           T == {m \in Nat : \E f : Is(f, m)}
<1>0. /\ \A f : Next1(f, 0) = own
      /\ \A f, g : \A i : (i # 0 => f[i - 1] = g[i - 1]) => Next1(f, i) = Next1(g, i)
  BY DEF DocNext
<1> HIDE DEF Next1
<1>1. 0 \in T
  <2>1. [i \in 0 .. 0 |-> own] = [i \in 0 .. 0 |-> Next1([j \in 0 .. 0 |-> own], i)]
    BY <1>0
  <2>2. QED
    BY <2>1
<1>2. ASSUME NEW m \in 0 .. n - 1, m \in T PROVE m + 1 \in T
  <2>1. PICK f : Is(f, m)
    BY <1>2
  <2>2. PICK g : g = [i \in 0 .. m + 1 |-> IF i = m + 1 THEN Next1(f, m + 1) ELSE f[i]]
    OBVIOUS
  <2>3. \A i \in 0 .. m : g[i] = f[i] /\ f[i] = Next1(f, i)
    BY <2>1, <2>2
  <2>4. ASSUME NEW i \in 0 .. m + 1 PROVE g[i] = Next1(g, i)
    <3>1. CASE i = m + 1
      <4>1. g[i] = Next1(f, i) /\ i # 0 /\ i - 1 \in 0 .. m
        BY <2>2, <3>1
      <4>2. g[i - 1] = f[i - 1]
        BY <2>3, <4>1
      <4>3. QED
        BY <1>0, <4>1, <4>2
    <3>2. CASE i # m + 1
      <4>1. i \in 0 .. m /\ (i # 0 => i - 1 \in 0 .. m)
        BY <3>2
      <4>2. g[i] = Next1(f, i) /\ (i # 0 => g[i - 1] = f[i - 1])
        BY <2>3, <4>1
      <4>3. QED
        BY <1>0, <4>2
    <3>3. QED
      BY <3>1, <3>2
  <2>5. g = [i \in 0 .. m + 1 |-> Next1(g, i)]
    BY <2>2, <2>4
  <2>6. m + 1 \in Nat /\ Is(g, m + 1)
    BY <2>5
  <2>7. QED
    BY <2>6
<1> HIDE DEF T
<1>3. \A i \in 0 .. n : i \in T
  BY <1>1, <1>2, UpTo
<1>4. n \in T
  BY <1>3
<1>5. \E f : Is(f, n)
  BY <1>4 DEF T
<1>6. QED
  BY <1>5 DEF IsDoc, Next1

LEMMA BuildSpecIsDoc ==
  ASSUME NEW fn, NEW template, NEW mws, Len(mws) \in Nat
  PROVE  \E f : /\ IsDoc(f, Len(mws), OwnDocument(fn, template), mws)
                /\ BuildSpec(fn, template, mws) = f[Len(mws)]
<1>1. \E f : IsDoc(f, Len(mws), OwnDocument(fn, template), mws)
  BY DocExists
<1>2. \E f : f = [n \in 0..Len(mws) |->
                    IF n = 0 THEN OwnDocument(fn, template) ELSE ContributeOperation(f[n - 1], mws[n])]
  BY <1>1 DEF IsDoc, DocNext
<1>3. QED
  BY <1>2, Zenon DEF BuildSpec, IsDoc, DocNext, OwnDocument, OwnFactories

Documents(doc, own, mws, n) ==
    /\ doc.body = own.body
    /\ own.parameters \subseteq doc.parameters /\ own.codes \subseteq doc.codes
    /\ \A k \in 1 .. n :
         MiddlewareParameters(mws[k]) \subseteq doc.parameters /\ MiddlewareCodes(mws[k]) \subseteq doc.codes
    /\ \A d \in doc.parameters :
         d \in own.parameters \/ \E k \in 1 .. n : d \in MiddlewareParameters(mws[k])
    /\ doc.security # {} => \E k \in 1 .. n : mws[k].does = "authenticate"

LEMMA BodylessDocument ==
  ASSUME NEW mw, MiddlewareAsDocumented(mw)
  PROVE  BodyDoc(mw, Factories(mw, {})) = "no"
<1> DEFINE bodies == {i \in DOMAIN mw.params : Factories(mw, {})[i].from = "body"}
           last == CHOOSE i \in bodies : \A j \in bodies : j <= i
<1>1. bodies = {}
  BY DEF MiddlewareAsDocumented
<1>2. BodyDoc(mw, Factories(mw, {})) =
        IF bodies = {} THEN "no" ELSE IF mw.params[last].default THEN "optional" ELSE "required"
  BY Zenon DEF BodyDoc
<1> HIDE DEF bodies, last
<1>3. QED
  BY <1>1, <1>2

LEMMA ContributionDocuments ==
  ASSUME NEW doc, NEW own, NEW mws, NEW n \in Nat, Documents(doc, own, mws, n),
         MiddlewareAsDocumented(mws[n + 1])
  PROVE  Documents(ContributeOperation(doc, mws[n + 1]), own, mws, n + 1)
<1> DEFINE mw == mws[n + 1]
           out == ContributeOperation(doc, mw)
<1>1. BodyDoc(mw, Factories(mw, {})) = "no"
  BY BodylessDocument
<1>2. out = [parameters |-> doc.parameters \cup MiddlewareParameters(mw),
              body |-> IF BodyDoc(mw, Factories(mw, {})) = "no" THEN doc.body
                       ELSE BodyDoc(mw, Factories(mw, {})),
              codes |-> doc.codes \cup MiddlewareCodes(mw),
              security |-> AddSecurityRequirement(doc.security, mw)]
  BY Zenon DEF ContributeOperation, MiddlewareParameters, MiddlewareCodes
<1>3. /\ out.parameters = doc.parameters \cup MiddlewareParameters(mw)
      /\ out.body = doc.body
      /\ out.codes = doc.codes \cup MiddlewareCodes(mw)
      /\ out.security = AddSecurityRequirement(doc.security, mw)
  BY <1>1, <1>2
<1>4. out.security # {} => doc.security # {} \/ mw.does = "authenticate"
  BY <1>3 DEF AddSecurityRequirement
<1>5. n + 1 \in 1 .. n + 1 /\ \A k \in 1 .. n + 1 : k \in 1 .. n \/ k = n + 1
  OBVIOUS
<1>5a. \A k \in 1 .. n : k \in 1 .. n + 1
  OBVIOUS
<1> SUFFICES Documents(out, own, mws, n + 1)
  OBVIOUS
<1> HIDE DEF out
<1>6. out.body = own.body /\ own.parameters \subseteq out.parameters /\ own.codes \subseteq out.codes
  BY <1>3 DEF Documents
<1>7. ASSUME NEW k \in 1 .. n + 1
      PROVE  MiddlewareParameters(mws[k]) \subseteq out.parameters /\ MiddlewareCodes(mws[k]) \subseteq out.codes
  BY <1>3, <1>5 DEF Documents
<1>8. ASSUME NEW d \in out.parameters
      PROVE  d \in own.parameters \/ \E k \in 1 .. n + 1 : d \in MiddlewareParameters(mws[k])
  BY <1>3, <1>5, <1>5a DEF Documents
<1>9. out.security # {} => \E k \in 1 .. n + 1 : mws[k].does = "authenticate"
  BY <1>4, <1>5, <1>5a DEF Documents
<1>10. QED
  BY <1>6, <1>7, <1>8, <1>9 DEF Documents

LEMMA BuiltSpecDocuments ==
  ASSUME NEW fn, NEW template, NEW mws, Len(mws) \in Nat,
         \A k \in 1 .. Len(mws) : MiddlewareAsDocumented(mws[k])
  PROVE  Documents(BuildSpec(fn, template, mws), OwnDocument(fn, template), mws, Len(mws))
<1> DEFINE own == OwnDocument(fn, template)
<1>1. PICK f : IsDoc(f, Len(mws), own, mws) /\ BuildSpec(fn, template, mws) = f[Len(mws)]
  BY BuildSpecIsDoc
<1>2. own.security = {}
  BY DEF OwnDocument
<1> HIDE DEF own
<1>3. \A i \in 0 .. Len(mws) : f[i] = DocNext(f, i, own, mws)
  BY <1>1 DEF IsDoc
<1> DEFINE T == {i \in 0 .. Len(mws) : Documents(f[i], own, mws, i)}
<1>4. 0 \in T
  <2>1. f[0] = own
    BY <1>3 DEF DocNext
  <2>2. Documents(own, own, mws, 0)
    BY <1>2 DEF Documents
  <2>3. QED
    BY <2>1, <2>2
<1>5. ASSUME NEW i \in 0 .. Len(mws) - 1, i \in T PROVE i + 1 \in T
  <2>1. i \in Nat /\ i + 1 \in 1 .. Len(mws) /\ i + 1 \in 0 .. Len(mws) /\ i + 1 # 0 /\ i + 1 - 1 = i
    OBVIOUS
  <2>2. f[i + 1] = ContributeOperation(f[i], mws[i + 1])
    BY <1>3, <2>1 DEF DocNext
  <2>3. Documents(f[i], own, mws, i) /\ MiddlewareAsDocumented(mws[i + 1])
    BY <1>5, <2>1
  <2>4. Documents(f[i + 1], own, mws, i + 1)
    BY <2>1, <2>2, <2>3, ContributionDocuments
  <2>5. QED
    BY <2>1, <2>4
<1> HIDE DEF T
<1>6. \A i \in 0 .. Len(mws) : i \in T
  BY <1>4, <1>5, UpTo
<1>7. Len(mws) \in T
  BY <1>6
<1>8. QED
  BY <1>1, <1>7 DEF T, own

\* The request is as the document has it.
Allowed(doc, args) ==
    /\ \A d \in doc.parameters : Acceptable(d, args)
    /\ doc.body = "required" => req.body = "json"

\* What may come out of the innermost n layers, for the document of them all.
Outcome(result, doc, fn, template, mws, n) ==
    LET args == PathArgs(template, req.path)
    IN  /\ StatusOK(result)
        /\ result.status \in doc.codes \cup {400, 500}
        /\ result.status = 400 => ~Allowed(doc, args)
        /\ result.status < 400 =>
             /\ OwnGiven(fn, template, args)
             /\ \A k \in Len(mws) + 1 - n .. Len(mws) : MiddlewareGiven(mws[k], args)

LEMMA CoreOutcome ==
  ASSUME NEW fn, NEW template, OperationFunction(fn), OperationAsDocumented(fn, template), NEW flavour,
         NEW mws, Len(mws) \in Nat, NEW doc, Documents(doc, OwnDocument(fn, template), mws, Len(mws))
  PROVE  Outcome(RunCore(fn, template, req, flavour), doc, fn, template, mws, 0)
<1> DEFINE core == RunCore(fn, template, req, flavour)
           args == PathArgs(template, req.path)
           own == OwnDocument(fn, template)
           given == OwnGiven(fn, template, args)
<1>1. /\ StatusOK(core)
      /\ ~given => core.status = 400
      /\ given => core.status \in (own.codes \cup {500}) \ {400}
  BY CoreAsDocumented DEF OwnDocument
<1>2. given <=> (\A d \in own.parameters : Acceptable(d, args)) /\ (own.body = "required" => req.body = "json")
  BY DEF OwnGiven, Given, OwnDocument
<1> HIDE DEF core, own
<1>3. doc.body = own.body /\ own.parameters \subseteq doc.parameters /\ own.codes \subseteq doc.codes
  BY DEF Documents, own
<1>4. ~given => ~Allowed(doc, args)
  BY <1>2, <1>3 DEF Allowed
<1> HIDE DEF given
<1>5. core.status \in doc.codes \cup {400, 500} /\ (core.status = 400 => ~given) /\ (core.status < 400 => given)
  BY <1>1, <1>3
<1>6. Len(mws) + 1 - 0 .. Len(mws) = {}
  OBVIOUS
<1>7. QED
  BY <1>1, <1>4, <1>5, <1>6 DEF Outcome, given, core

LEMMA LayerOutcome ==
  ASSUME NEW fn, NEW template, NEW mws, MiddlewareFunctions(mws), Len(mws) \in Nat,
         NEW doc, Documents(doc, OwnDocument(fn, template), mws, Len(mws)),
         NEW n \in 0 .. Len(mws) - 1, NEW rest, Outcome(rest, doc, fn, template, mws, n),
         Len(mws) - n \in DOMAIN mws, MiddlewareAsDocumented(mws[Len(mws) - n])
  PROVE  Outcome(WrapMiddleware(mws[Len(mws) - n], rest, PathArgs(template, req.path), req),
                 doc, fn, template, mws, n + 1)
<1> DEFINE i == Len(mws) - n
           mw == mws[i]
           args == PathArgs(template, req.path)
           result == WrapMiddleware(mw, rest, args, req)
           codes == ExtractResponseShapes(mw.returns).codes
<1>1. \/ result = rest /\ MiddlewareGiven(mw, args)
      \/ StatusOK(result) /\ result.status = 400 /\ ~Given(mw, Factories(mw, {}), args)
      \/ StatusOK(result) /\ result.status > 400 /\ result.status \in codes \cup {500}
  BY LayerAsDocumented
<1>2. i \in 1 .. Len(mws) /\ Len(mws) + 1 - (n + 1) = i /\ Len(mws) + 1 - n = i + 1
  OBVIOUS
<1>3. MiddlewareParameters(mw) \subseteq doc.parameters /\ codes \subseteq doc.codes
  BY <1>2 DEF Documents, MiddlewareCodes
<1>4. ~Given(mw, Factories(mw, {}), args) => ~Allowed(doc, args)
  BY <1>3 DEF Given, Allowed, MiddlewareParameters
<1>5. \A k \in i .. Len(mws) : k = i \/ k \in i + 1 .. Len(mws)
  BY <1>2
<1>6. /\ StatusOK(rest)
      /\ rest.status \in doc.codes \cup {400, 500}
      /\ rest.status = 400 => ~Allowed(doc, args)
      /\ rest.status < 400 =>
           /\ OwnGiven(fn, template, args)
           /\ \A k \in i + 1 .. Len(mws) : MiddlewareGiven(mws[k], args)
  BY <1>2 DEF Outcome
<1> SUFFICES Outcome(result, doc, fn, template, mws, n + 1)
  OBVIOUS
<1>7. /\ StatusOK(result)
      /\ result.status \in doc.codes \cup {400, 500}
      /\ result.status = 400 => ~Allowed(doc, args)
      /\ result.status < 400 =>
           /\ OwnGiven(fn, template, args)
           /\ \A k \in i .. Len(mws) : MiddlewareGiven(mws[k], args)
  <2> HIDE DEF result, codes, args, mw
  <2>1. CASE result = rest /\ MiddlewareGiven(mw, args)
    BY <1>5, <1>6, <2>1 DEF mw
  <2>2. CASE StatusOK(result) /\ result.status = 400 /\ ~Given(mw, Factories(mw, {}), args)
    BY <1>4, <2>2
  <2>3. CASE StatusOK(result) /\ result.status > 400 /\ result.status \in codes \cup {500}
    <3>1. result.status \in Nat /\ ~(result.status < 400) /\ result.status # 400
      BY <2>3 DEF StatusOK
    <3>2. QED
      BY <1>3, <2>3, <3>1
  <2>4. QED
    BY <1>1, <2>1, <2>2, <2>3
<1> HIDE DEF result
<1>8. QED
  BY <1>2, <1>7 DEF Outcome

LEMMA RunOutcome ==
  ASSUME NEW fn, NEW template, OperationFunction(fn), OperationAsDocumented(fn, template), NEW flavour,
         NEW mws, MiddlewareFunctions(mws), \A k \in DOMAIN mws : MiddlewareAsDocumented(mws[k])
  PROVE  Outcome(Run(fn, template, mws, req, flavour), BuildSpec(fn, template, mws),
                 fn, template, mws, Len(mws))
<1> DEFINE core == RunCore(fn, template, req, flavour)
           args == PathArgs(template, req.path)
           doc == BuildSpec(fn, template, mws)
<1>1. Len(mws) \in Nat /\ DOMAIN mws = 1 .. Len(mws)
  BY LenProperties DEF MiddlewareFunctions
<1>2. PICK f : IsChain(f, Len(mws), core, mws, args, req) /\ Run(fn, template, mws, req, flavour) = f[Len(mws)]
  BY <1>1, RunIsChain
<1>3. Documents(doc, OwnDocument(fn, template), mws, Len(mws))
  BY <1>1, BuiltSpecDocuments
<1> HIDE DEF doc
<1>4. Outcome(core, doc, fn, template, mws, 0)
  BY <1>1, <1>3, CoreOutcome
<1> HIDE DEF core
<1>5. \A i \in 0 .. Len(mws) : f[i] = ChainNext(f, i, core, mws, args, req)
  BY <1>2 DEF IsChain
<1> DEFINE T == {i \in 0 .. Len(mws) : Outcome(f[i], doc, fn, template, mws, i)}
<1>6. 0 \in T
  <2>1. f[0] = core
    BY <1>1, <1>5 DEF ChainNext
  <2>2. QED
    BY <1>1, <1>4, <2>1
<1>7. ASSUME NEW i \in 0 .. Len(mws) - 1, i \in T PROVE i + 1 \in T
  <2>1. /\ i + 1 \in 0 .. Len(mws) /\ i + 1 # 0 /\ i + 1 - 1 = i
        /\ Len(mws) + 1 - (i + 1) = Len(mws) - i /\ Len(mws) - i \in DOMAIN mws
    <3> DEFINE n == Len(mws)
    <3>1. n \in Nat /\ DOMAIN mws = 1 .. n /\ i \in 0 .. n - 1
      BY <1>1
    <3> HIDE DEF n, T
    <3>2. /\ i + 1 \in 0 .. n /\ i + 1 # 0 /\ i + 1 - 1 = i
          /\ n + 1 - (i + 1) = n - i /\ n - i \in DOMAIN mws
      BY <3>1
    <3>3. QED
      BY <3>2 DEF n
  <2>2. f[i + 1] = WrapMiddleware(mws[Len(mws) - i], f[i], args, req)
    <3>1. f[i + 1] = WrapMiddleware(mws[Len(mws) + 1 - (i + 1)], f[i + 1 - 1], args, req)
      BY <1>5, <2>1 DEF ChainNext
    <3>2. QED
      BY <2>1, <3>1
  <2>3. Outcome(f[i], doc, fn, template, mws, i) /\ MiddlewareAsDocumented(mws[Len(mws) - i])
    BY <1>7, <2>1
  <2>4. Outcome(f[i + 1], doc, fn, template, mws, i + 1)
    BY <1>1, <1>3, <2>1, <2>2, <2>3, LayerOutcome
  <2>5. QED
    BY <2>1, <2>4
<1> HIDE DEF T
<1>8. \A i \in 0 .. Len(mws) : i \in T
  BY <1>1, <1>6, <1>7, UpTo
<1>9. Len(mws) \in T
  BY <1>1, <1>8
<1>10. QED
  BY <1>2, <1>9 DEF T, doc

\* The outcome of all the layers is the one that the property asks for.
AsDocumented(status, doc, args) ==
    /\ status \in doc.codes \cup {400, 500}
    /\ status = 400 => ~Allowed(doc, args)
    /\ status < 400 => Allowed(doc, args)
    /\ (doc.security # {} /\ "authorization" \notin DOMAIN req.headers) => status >= 400

LEMMA OutcomeAsDocumented ==
  ASSUME NEW fn, NEW template, NEW mws, Len(mws) \in Nat,
         NEW doc, Documents(doc, OwnDocument(fn, template), mws, Len(mws)),
         NEW result, Outcome(result, doc, fn, template, mws, Len(mws))
  PROVE  AsDocumented(result.status, doc, PathArgs(template, req.path))
<1> DEFINE args == PathArgs(template, req.path)
           own == OwnDocument(fn, template)
<1>1. /\ StatusOK(result)
      /\ result.status \in doc.codes \cup {400, 500}
      /\ result.status = 400 => ~Allowed(doc, args)
      /\ result.status < 400 =>
           /\ OwnGiven(fn, template, args)
           /\ \A k \in 1 .. Len(mws) : MiddlewareGiven(mws[k], args)
  <2>1. Len(mws) + 1 - Len(mws) = 1
    OBVIOUS
  <2>2. QED
    BY <2>1 DEF Outcome
<1>2. OwnGiven(fn, template, args) =>
        (\A d \in own.parameters : Acceptable(d, args)) /\ (own.body = "required" => req.body = "json")
  BY DEF OwnGiven, Given, OwnDocument
<1>3. \A k \in 1 .. Len(mws) : MiddlewareGiven(mws[k], args) =>
        /\ \A d \in MiddlewareParameters(mws[k]) : Acceptable(d, args)
        /\ mws[k].does = "authenticate" => "authorization" \in DOMAIN req.headers
  BY DEF MiddlewareGiven, Given, MiddlewareParameters
<1> HIDE DEF own
<1>4. /\ doc.body = own.body
      /\ \A d \in doc.parameters :
           d \in own.parameters \/ \E k \in 1 .. Len(mws) : d \in MiddlewareParameters(mws[k])
      /\ doc.security # {} => \E k \in 1 .. Len(mws) : mws[k].does = "authenticate"
  BY DEF Documents, own
<1>5. result.status < 400 =>
        Allowed(doc, args) /\ (doc.security # {} => "authorization" \in DOMAIN req.headers)
  BY <1>1, <1>2, <1>3, <1>4 DEF Allowed
<1>6. result.status \in Nat
  BY <1>1 DEF StatusOK
<1>7. QED
  BY <1>1, <1>5, <1>6 DEF AsDocumented

\* What goes out has the status of the result.
LEMMA OperationStatus ==
  ASSUME NEW entry, entry.handler # "built-in"
  PROVE  LET result == Run(Handlers[entry.handler], entry.template, AppMiddlewares \o entry.middlewares,
                           req, mount.flavour)
             called == OperationCalled(entry)
         IN  StatusOK(result) =>
               result.status = IF called.do = "fail" THEN 500 ELSE called.response.status
<1> DEFINE result == Run(Handlers[entry.handler], entry.template, AppMiddlewares \o entry.middlewares,
                         req, mount.flavour)
           called == OperationCalled(entry)
<1>1. called = CASE result.body = "raised" -> [do |-> "fail"]
           [] result.body = "events" ->
                [do |-> "stream", response |-> StreamSse(result), chunks |-> result.size]
           [] OTHER -> Complete(BuildHttpResponse(result), result.size)
  BY Zenon DEF OperationCalled
<1> SUFFICES ASSUME StatusOK(result)
             PROVE  result.status = IF called.do = "fail" THEN 500 ELSE called.response.status
  OBVIOUS
<1> HIDE DEF result, called
<1>2. CASE result.body = "raised"
  <2>1. called = [do |-> "fail"]
    BY <1>1, <1>2
  <2>2. called.do = "fail"
    BY <2>1
  <2>3. QED
    BY <1>2, <2>2 DEF StatusOK
<1>3. CASE result.body = "events"
  <2>1. called = [do |-> "stream", response |-> StreamSse(result), chunks |-> result.size]
    BY <1>1, <1>3
  <2>2. StreamSse(result).status = result.status
    BY DEF StreamSse
  <2>3. called.do = "stream" /\ called.response = StreamSse(result)
    BY <2>1
  <2>4. QED
    BY <2>2, <2>3
<1>4. CASE result.body \notin {"raised", "events"}
  <2>1. called = Complete(BuildHttpResponse(result), result.size)
    BY <1>1, <1>4
  <2>2. BuildHttpResponse(result).status = result.status
    BY DEF BuildHttpResponse
  <2>3. called.do = "complete" /\ called.response = BuildHttpResponse(result)
    BY <2>1 DEF Complete
  <2>4. QED
    BY <2>2, <2>3
<1>5. QED
  BY <1>2, <1>3, <1>4

LEMMA ConcatDocumented ==
  ASSUME NEW a, MiddlewareFunctions(a), \A i \in DOMAIN a : MiddlewareAsDocumented(a[i]),
         NEW b, MiddlewareFunctions(b), \A i \in DOMAIN b : MiddlewareAsDocumented(b[i])
  PROVE  \A i \in DOMAIN (a \o b) : MiddlewareAsDocumented((a \o b)[i])
<1> DEFINE A == {a[i] : i \in DOMAIN a}
           B == {b[i] : i \in DOMAIN b}
           M == {m \in A \cup B : MiddlewareAsDocumented(m)}
           c == a \o b
<1>1. a \in Seq(A) /\ b \in Seq(B)
  BY DEF MiddlewareFunctions
<1>2. \A m \in A \cup B : m \in M
  OBVIOUS
<1>3. \A m \in M : MiddlewareAsDocumented(m)
  OBVIOUS
<1> HIDE DEF A, B, M
<1>4. a \in Seq(M) /\ b \in Seq(M)
  BY <1>1, <1>2, SeqMonotonic
<1>5. c \in Seq(M)
  BY <1>4, ConcatProperties
<1> HIDE DEF c
<1>6. \A i \in DOMAIN c : c[i] \in M
  BY <1>5, LenProperties
<1>7. QED
  BY <1>3, <1>6 DEF c

LEMMA CalledAsDocumented ==
  ASSUME FunctionsAsDocumented, NEW r \in Registrable, r.app = "openapi"
  PROVE  LET called == OperationCalled(r)
             doc == BuildSpec(Handlers[r.handler], r.template, AppMiddlewares \o r.middlewares)
         IN  AsDocumented(IF called.do = "fail" THEN 500 ELSE called.response.status, doc,
                          PathArgs(r.template, req.path))
<1> DEFINE fn == Handlers[r.handler]
           mws == AppMiddlewares \o r.middlewares
           called == OperationCalled(r)
           status == IF called.do = "fail" THEN 500 ELSE called.response.status
           doc == BuildSpec(fn, r.template, mws)
           result == Run(fn, r.template, mws, req, mount.flavour)
<1>1. /\ r.handler # "built-in" /\ OperationFunction(fn)
      /\ MiddlewareFunctions(AppMiddlewares) /\ MiddlewareFunctions(r.middlewares)
  BY HandlersAssumption
<1>2. /\ OperationAsDocumented(fn, r.template)
      /\ \A i \in DOMAIN AppMiddlewares : MiddlewareAsDocumented(AppMiddlewares[i])
      /\ \A i \in DOMAIN r.middlewares : MiddlewareAsDocumented(r.middlewares[i])
  BY DEF FunctionsAsDocumented
<1>3. StatusOK(result) => result.status = status
  BY <1>1, OperationStatus
<1>4. MiddlewareFunctions(mws) /\ \A i \in DOMAIN mws : MiddlewareAsDocumented(mws[i])
  BY <1>1, <1>2, ConcatMiddlewares, ConcatDocumented
<1> HIDE DEF mws, fn
<1>5. Len(mws) \in Nat /\ DOMAIN mws = 1 .. Len(mws)
  BY <1>4, LenProperties DEF MiddlewareFunctions
<1>6. Outcome(result, doc, fn, r.template, mws, Len(mws))
  BY <1>1, <1>2, <1>4, RunOutcome
<1>7. Documents(doc, OwnDocument(fn, r.template), mws, Len(mws))
  BY <1>4, <1>5, BuiltSpecDocuments
<1> HIDE DEF result, doc
<1>8. AsDocumented(result.status, doc, PathArgs(r.template, req.path))
  BY <1>5, <1>6, <1>7, OutcomeAsDocumented
<1>9. StatusOK(result)
  BY <1>6 DEF Outcome
<1>10. status = result.status
  BY <1>3, <1>9
<1> HIDE DEF status
<1>11. AsDocumented(status, doc, PathArgs(r.template, req.path))
  BY <1>8, <1>10
<1>12. QED
  BY <1>11 DEF status, doc, mws, fn

LEMMA DocumentSafe ==
  ASSUME FunctionsAsDocumented, TableInv
  PROVE  OperationMatchesItsDocument
<1> DEFINE m == Match(table, req.path, req.method)
           entry == Entries[m.route.methods[m.method]]
           doc == BuildSpec(Handlers[entry.handler], entry.template, AppMiddlewares \o entry.middlewares)
           args == PathArgs(entry.template, req.path)
           status == IF doing.do = "fail" THEN 500 ELSE doing.response.status
<1> SUFFICES ASSUME pc = "send", mount.app = "openapi", m.kind = "ok", entry.handler # "built-in"
             PROVE  AsDocumented(status, doc, args)
  BY Zenon DEF OperationMatchesItsDocument, AsDocumented, Allowed
<1>1. /\ registry \in Seq(Registrable) /\ table = Built /\ doing = Dispatched /\ EntriesTyped
      /\ \A j \in DOMAIN registry : registry[j].app = "openapi"
  BY EntriesAreTyped DEF TableInv
<1>2. m.route.methods[m.method] \in DOMAIN Entries
  BY <1>1, MatchedIsEntry
<1>3. \E j \in DOMAIN registry : entry = registry[j]
  BY <1>1, <1>2, EntriesComeFrom
<1>4. entry \in Registrable /\ entry.app = "openapi"
  BY <1>1, <1>3, LenProperties
<1>5. Dispatched = CASE m.kind = "not_found" -> Complete(NotFound, NotFoundBody)
                     [] m.kind = "method_not_allowed" -> Complete(MethodNotAllowed(m.allow), NotAllowedBody)
                     [] OTHER -> HandlerCalled(entry)
  BY DEF Dispatched, AsyncMatch
<1> HIDE DEF m, entry
<1>6. doing = OperationCalled(entry)
  BY <1>1, <1>5 DEF HandlerCalled
<1>7. QED
  BY <1>4, <1>6, CalledAsDocumented

\* Whatever is registered, around whatever middlewares: what an operation answers is
\* what its document says of it and asks for, provided that functions answer as they
\* are annotated and ask for nothing that the document cannot say.
THEOREM OperationsMatchTheirDocument ==
  FunctionsAsDocumented => (AppSpec => []OperationMatchesItsDocument)
<1> SUFFICES ASSUME FunctionsAsDocumented PROVE AppSpec => []OperationMatchesItsDocument
  OBVIOUS
<1>1. TableInv => OperationMatchesItsDocument
  BY DocumentSafe
<1>2. QED
  BY <1>1, AllAnswers, PTL
=============================================================================
