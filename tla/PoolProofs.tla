----------------------------- MODULE PoolProofs ------------------------------
(***************************************************************************)
(* Proofs about WorkerPool, for every number of tasks and workers, and about*)
(* TaskGroup, for every way tasks may start each other.                    *)
(***************************************************************************)
EXTENDS TaskGroup, TLAPS, FiniteSetTheorems, SequenceTheorems

Queued(t) == \E i \in 1..Len(queue) : queue[i] = t
Held(t) == \E w \in Workers : job[w] = t
Waiters == {w \in Workers : wpc[w] = "wait"}

\* A worker has a job exactly while it fetches or runs one, and where a task is
\* agrees with the state of its future.
JobsOK ==
    /\ \A w \in Workers :
          /\ job[w] # NoTask <=> wpc[w] \in {"got", "run"}
          /\ wpc[w] = "run" => future[job[w]] = "running"
          /\ wpc[w] = "got" => future[job[w]] \in {"pending", "cancelled"}
    /\ \A i \in 1..Len(queue) : future[queue[i]] \in {"pending", "cancelled"}
    /\ \A t \in Tasks :
          /\ future[t] = "pending" => Queued(t) \/ Held(t)
          /\ future[t] = "running" => Held(t)

\* No task is in two places.
Apart ==
    /\ \A i, j \in 1..Len(queue) : queue[i] = queue[j] => i = j
    /\ \A v, w \in Workers : job[v] = job[w] /\ job[v] # NoTask => v = w
    /\ \A i \in 1..Len(queue), w \in Workers : queue[i] # job[w]

\* Waiters are counted and sleepers are waiters.
WaitersOK == sleeping \subseteq Waiters /\ IdleExact

\* __exit__ closes first, and is over when every worker has ended.
ExitOK ==
    /\ exiting # "no" => closed
    /\ exiting = "done" => \A w \in Workers : ~Alive(w)

\* The inductive invariant of the pool.
PInv == PoolTypeOK /\ JobsOK /\ Apart /\ WaitersOK /\ QueueIsServed /\ ExitOK

\* A new pool has no task and no worker.
LEMMA InitPInv == PoolInit => PInv
<1> SUFFICES ASSUME PoolInit PROVE PInv
  OBVIOUS
<1> USE PoolAssumption DEF PoolInit
<1>1. PoolTypeOK
  <2>1. <<>> \in Seq(Tasks)
    BY EmptySeq
  <2>2. job \in [Workers -> Tasks \cup {NoTask}]
    OBVIOUS
  <2>3. QED
    BY <2>1, <2>2 DEF PoolTypeOK
<1>2. WaitersOK
  <2>1. Waiters = {}
    BY DEF Waiters
  <2>2. QED
    BY <2>1, FS_EmptySet DEF WaitersOK, IdleExact, Waiters
<1>3. \A i \in 1..Len(queue) : FALSE
  BY EmptySeq
<1>4. JobsOK /\ Apart
  <2>1. Apart
    BY <1>3 DEF Apart
  <2>2. \A w \in Workers : job[w] = NoTask /\ wpc[w] = "unborn"
    OBVIOUS
  <2>3. \A t \in Tasks : future[t] = "new"
    OBVIOUS
  <2> QED
    BY <1>3, <2>1, <2>2, <2>3 DEF JobsOK
<1>5. QueueIsServed /\ ExitOK
  BY DEF QueueIsServed, ExitOK
<1>6. QED
  BY <1>1, <1>2, <1>4, <1>5 DEF PInv

-----------------------------------------------------------------------------
\* What appending to the queue and taking its head do, element by element.
LEMMA QueueFacts ==
  ASSUME PoolTypeOK
  PROVE  /\ Len(queue) \in Nat
         /\ \A i \in 1..Len(queue) : queue[i] \in Tasks
         /\ \A t \in Tasks :
               /\ Len(Append(queue, t)) = Len(queue) + 1
               /\ \A i \in 1..Len(queue) : Append(queue, t)[i] = queue[i]
               /\ Append(queue, t)[Len(queue) + 1] = t
         /\ queue # <<>> =>
               /\ Len(queue) # 0 /\ Head(queue) = queue[1]
               /\ Tail(queue) \in Seq(Tasks)
               /\ Len(Tail(queue)) = Len(queue) - 1
               /\ \A i \in 1..Len(Tail(queue)) : Tail(queue)[i] = queue[i + 1]
<1>1. queue \in Seq(Tasks)
  BY DEF PoolTypeOK
<1>2. QED
  BY <1>1, LenProperties, ElementOfSeq, AppendProperties, HeadTailProperties

\* The actions of the queue and of the workers by their effect on the queue, the
\* jobs and the futures.
Submits(t) ==
    /\ future[t] = "new"
    /\ queue' = Append(queue, t)
    /\ future' = [future EXCEPT ![t] = "pending"]
    /\ UNCHANGED job

Pops(w) ==
    /\ wpc[w] \in {"loop", "wait"} /\ queue # <<>>
    /\ queue' = Tail(queue)
    /\ job' = [job EXCEPT ![w] = Head(queue)]
    /\ wpc' = [wpc EXCEPT ![w] = "got"]
    /\ UNCHANGED future

\* A worker goes from one place without a job to another.
Moves ==
    /\ UNCHANGED <<queue, job, future>>
    /\ \A w \in Workers :
          wpc'[w] # wpc[w] => wpc[w] \in {"unborn", "loop", "wait"}
                              /\ wpc'[w] \in {"loop", "wait", "dead"}

\* Every step of the pool is one of these.
LEMMA PoolStepCases ==
  ASSUME PInv, [PoolNext]_poolVars
  PROVE  \/ Moves
         \/ \E t \in Tasks : \/ Submits(t) /\ Submit(t)
                             \/ SubmitRejected(t) \/ Cancel(t)
         \/ \E w \in Workers : Pops(w) \/ TaskStart(w) \/ TaskEnd(w)
<1> USE PoolAssumption DEF PInv, PoolTypeOK, condVars, lifeVars, Moves
<1>1. CASE Enter \/ Stop \/ ExitClose \/ ExitJoined
  BY <1>1 DEF Enter, Stop, ExitClose, ExitJoined
<1>2. ASSUME NEW t \in Tasks, Submit(t) PROVE Submits(t)
  BY <1>2 DEF Submit, Submits
<1>3. ASSUME NEW w \in Workers, WorkerLoop(w) \/ WorkerWake(w)
      PROVE  Moves \/ Pops(w)
  BY <1>3 DEF WorkerLoop, WorkerWake, PopTask, Leave, Sleep, Pops
<1>4. CASE UNCHANGED poolVars
  BY <1>4 DEF poolVars
<1>5. QED
  BY <1>1, <1>2, <1>3, <1>4 DEF PoolNext, WorkerStep

\* The pool stays well typed.
LEMMA NextPoolTypeOK ==
  ASSUME PInv, [PoolNext]_poolVars
  PROVE  PoolTypeOK'
<1> USE PoolAssumption DEF PInv, PoolTypeOK, condVars, lifeVars, NotifyWorker,
      Notified, MarkClosed
<1>1. CASE Enter \/ Stop \/ ExitClose \/ ExitJoined
  BY <1>1 DEF Enter, Stop, ExitClose, ExitJoined
<1>2. ASSUME NEW t \in Tasks, Submit(t) PROVE PoolTypeOK'
  <2>1. /\ wpc' \in [Workers -> {"unborn", "loop", "wait", "got", "run", "dead"}]
        /\ worker_count' \in Nat
    BY <1>2 DEF Submit, SpawnIfNoneIdle, SpawnWorker
  <2>2. sleeping' \subseteq Workers
    BY <1>2 DEF Submit
  <2>3. QED
    BY <1>2, <2>1, <2>2 DEF Submit
<1>3. ASSUME NEW t \in Tasks, SubmitRejected(t) \/ Cancel(t) PROVE PoolTypeOK'
  BY <1>3 DEF SubmitRejected, Cancel
<1>4. ASSUME NEW w \in Workers, WorkerLoop(w) \/ WorkerWake(w) PROVE PoolTypeOK'
  <2>1. queue' \in Seq(Tasks) /\ job' \in [Workers -> Tasks \cup {NoTask}]
    <3>1. queue # <<>> => Tail(queue) \in Seq(Tasks) /\ Head(queue) \in Tasks
      BY HeadTailProperties
    <3>2. QED
      BY <1>4, <3>1 DEF WorkerLoop, WorkerWake, PopTask, Leave, Sleep
  <2>2. idle' \in Nat
    <3>1. wpc[w] = "wait" => idle > 0
      <4>1. IsFiniteSet(Waiters) /\ Cardinality(Waiters) = idle
        BY FS_Subset DEF Waiters, WaitersOK, IdleExact
      <4>2. wpc[w] = "wait" => Waiters # {}
        BY DEF Waiters
      <4>3. QED
        BY <4>1, <4>2, FS_EmptySet
    <3>2. QED
      BY <1>4, <3>1 DEF WorkerLoop, WorkerWake, PopTask, Leave, Sleep
  <2>3. /\ wpc' \in [Workers -> {"unborn", "loop", "wait", "got", "run", "dead"}]
        /\ sleeping' \subseteq Workers
    BY <1>4 DEF WorkerLoop, WorkerWake, PopTask, Leave, Sleep
  <2>4. QED
    BY <1>4, <2>1, <2>2, <2>3 DEF WorkerLoop, WorkerWake
<1>5. ASSUME NEW w \in Workers, TaskStart(w) \/ TaskEnd(w) PROVE PoolTypeOK'
  <2>1. job[w] \in Tasks
    BY <1>5 DEF TaskStart, TaskEnd, JobsOK
  <2>2. QED
    BY <1>5, <2>1 DEF TaskStart, TaskEnd
<1>6. CASE UNCHANGED poolVars
  BY <1>6 DEF poolVars
<1>7. QED
  BY <1>1, <1>2, <1>3, <1>4, <1>5, <1>6 DEF PoolNext, WorkerStep

-----------------------------------------------------------------------------
\* A task moves from the queue to one worker and from there to its end.
LEMMA NextJobs ==
  ASSUME PInv, PoolTypeOK', [PoolNext]_poolVars
  PROVE  JobsOK' /\ Apart'
<1> USE PoolAssumption
<1>0. /\ \A i \in 1..Len(queue) : queue[i] \in Tasks
      /\ Len(queue) \in Nat
      /\ future \in [Tasks -> {"new", "pending", "running", "done", "cancelled",
                               "rejected"}]
      /\ wpc \in [Workers -> {"unborn", "loop", "wait", "got", "run", "dead"}]
      /\ job \in [Workers -> Tasks \cup {NoTask}]
      /\ JobsOK /\ Apart
  BY QueueFacts DEF PInv, PoolTypeOK
<1>1. CASE Moves
  BY <1>0, <1>1 DEF Moves, JobsOK, Apart, Queued, Held
<1>2. ASSUME NEW t \in Tasks, Submits(t), Submit(t) PROVE JobsOK' /\ Apart'
  <2>1. /\ future' = [future EXCEPT ![t] = "pending"] /\ job' = job
        /\ Len(queue') = Len(queue) + 1 /\ queue'[Len(queue) + 1] = t
        /\ \A i \in 1..Len(queue) : queue'[i] = queue[i]
        /\ future[t] = "new"
    BY <1>2, QueueFacts DEF Submits, PInv
  <2>2. \A w \in Workers : wpc'[w] = wpc[w] \/ (wpc[w] = "unborn" /\ wpc'[w] = "loop")
    BY <1>0, <1>2 DEF Submit, SpawnIfNoneIdle, SpawnWorker
  <2>3. /\ \A i \in 1..Len(queue) : queue[i] # t
        /\ \A w \in Workers : job[w] # t
    BY <1>0, <2>1 DEF JobsOK
  <2>4. \A i \in 1..Len(queue') : i \in 1..Len(queue) \/ i = Len(queue) + 1
    BY <1>0, <2>1
  <2>5. Apart'
    BY <1>0, <2>1, <2>3, <2>4 DEF Apart
  <2>6. \A w \in Workers :
           /\ job'[w] # NoTask <=> wpc'[w] \in {"got", "run"}
           /\ wpc'[w] = "run" => future'[job'[w]] = "running"
           /\ wpc'[w] = "got" => future'[job'[w]] \in {"pending", "cancelled"}
    BY <1>0, <2>1, <2>2, <2>3 DEF JobsOK
  <2>7. \A i \in 1..Len(queue') : future'[queue'[i]] \in {"pending", "cancelled"}
    BY <1>0, <2>1, <2>3, <2>4 DEF JobsOK
  <2>8. ASSUME NEW u \in Tasks
        PROVE  /\ future'[u] = "pending" => Queued(u)' \/ Held(u)'
               /\ future'[u] = "running" => Held(u)'
    <3>1. Queued(u) => Queued(u)'
      BY <1>0, <2>1 DEF Queued
    <3>2. Queued(t)'
      BY <1>0, <2>1 DEF Queued
    <3>3. Held(u) => Held(u)'
      BY <2>1 DEF Held
    <3>4. u # t => future'[u] = future[u]
      BY <1>0, <2>1
    <3>5. future'[t] = "pending"
      BY <1>0, <2>1
    <3>6. QED
      BY <1>0, <3>1, <3>2, <3>3, <3>4, <3>5 DEF JobsOK
  <2>9. QED
    BY <2>5, <2>6, <2>7, <2>8 DEF JobsOK
<1>3. ASSUME NEW t \in Tasks, SubmitRejected(t) \/ Cancel(t)
      PROVE  JobsOK' /\ Apart'
  <2>1. /\ UNCHANGED <<queue, job, wpc>>
        /\ \/ future[t] = "new" /\ future' = [future EXCEPT ![t] = "rejected"]
           \/ future[t] = "pending" /\ future' = [future EXCEPT ![t] = "cancelled"]
    BY <1>3 DEF SubmitRejected, Cancel, condVars
  <2>2. \A u \in Tasks :
           /\ future[u] \in {"pending", "cancelled"}
                 => future'[u] \in {"pending", "cancelled"}
           /\ future[u] = "running" <=> future'[u] = "running"
           /\ future'[u] = "pending" => future[u] = "pending"
    BY <1>0, <2>1
  <2>3. Apart'
    BY <1>0, <2>1 DEF Apart
  <2>4. QED
    BY <1>0, <2>1, <2>2, <2>3 DEF JobsOK, Queued, Held
<1>4. ASSUME NEW w \in Workers, Pops(w) PROVE JobsOK' /\ Apart'
  <2>1. /\ future' = future
        /\ wpc' = [wpc EXCEPT ![w] = "got"] /\ job' = [job EXCEPT ![w] = queue[1]]
        /\ 1 \in 1..Len(queue) /\ Len(queue') = Len(queue) - 1
        /\ \A i \in 1..Len(queue') : i + 1 \in 1..Len(queue) /\ queue'[i] = queue[i + 1]
    BY <1>0, <1>4, QueueFacts DEF Pops, PInv
  <2>2. job[w] = NoTask /\ job'[w] = queue[1]
        /\ \A v \in Workers \ {w} : job'[v] = job[v] /\ wpc'[v] = wpc[v]
    BY <1>0, <1>4, <2>1 DEF Pops, JobsOK
  <2>3. Apart'
    BY <1>0, <2>1, <2>2, SMTT(30) DEF Apart
  <2>4. \A v \in Workers :
           /\ job'[v] # NoTask <=> wpc'[v] \in {"got", "run"}
           /\ wpc'[v] = "run" => future'[job'[v]] = "running"
           /\ wpc'[v] = "got" => future'[job'[v]] \in {"pending", "cancelled"}
    BY <1>0, <2>1, <2>2 DEF JobsOK
  <2>5. \A i \in 1..Len(queue') : future'[queue'[i]] \in {"pending", "cancelled"}
    BY <1>0, <2>1 DEF JobsOK
  <2>6. ASSUME NEW u \in Tasks
        PROVE  /\ Queued(u) => Queued(u)' \/ Held(u)'
               /\ Held(u) => Held(u)'
    <3>1. ASSUME NEW i \in 1..Len(queue), queue[i] = u
          PROVE  Queued(u)' \/ Held(u)'
      <4>1. CASE i = 1
        BY <2>2, <3>1, <4>1 DEF Held
      <4>2. CASE i # 1
        <5>1. i - 1 \in 1..Len(queue') /\ queue'[i - 1] = queue[(i - 1) + 1]
          BY <1>0, <2>1, <4>2
        <5>2. QED
          BY <3>1, <5>1 DEF Queued
      <4>3. QED
        BY <4>1, <4>2
    <3>2. Held(u) => Held(u)'
      BY <2>2 DEF Held
    <3>3. QED
      BY <3>1, <3>2 DEF Queued
  <2>7. QED
    BY <1>0, <2>1, <2>3, <2>4, <2>5, <2>6 DEF JobsOK
<1>5. ASSUME NEW w \in Workers, TaskStart(w) PROVE JobsOK' /\ Apart'
  <2>1. queue' = queue /\ job[w] \in Tasks /\ wpc[w] = "got"
    BY <1>0, <1>5 DEF TaskStart, condVars, JobsOK
  <2>2. CASE future[job[w]] = "pending"
    <3>1. /\ future' = [future EXCEPT ![job[w]] = "running"] /\ job' = job
          /\ wpc' = [wpc EXCEPT ![w] = "run"]
      BY <1>5, <2>2 DEF TaskStart
    <3>2. \A v \in Workers \ {w} : job[v] # job[w]
      BY <1>0, <2>1 DEF Apart
    <3>3. \A i \in 1..Len(queue) : queue[i] # job[w]
      BY <1>0 DEF Apart
    <3>4. Apart'
      BY <1>0, <2>1, <3>1 DEF Apart
    <3>5. QED
      BY <1>0, <2>1, <3>1, <3>2, <3>3, <3>4 DEF JobsOK, Queued, Held
  <2>3. CASE future[job[w]] # "pending"
    <3>1. /\ future' = future /\ job' = [job EXCEPT ![w] = NoTask]
          /\ wpc' = [wpc EXCEPT ![w] = "loop"] /\ future[job[w]] = "cancelled"
      BY <1>0, <1>5, <2>1, <2>3 DEF TaskStart, JobsOK
    <3>2. Apart'
      BY <1>0, <2>1, <3>1 DEF Apart
    <3>3. QED
      BY <1>0, <2>1, <3>1, <3>2 DEF JobsOK, Queued, Held
  <2>4. QED
    BY <2>2, <2>3
<1>6. ASSUME NEW w \in Workers, TaskEnd(w) PROVE JobsOK' /\ Apart'
  <2>1. /\ queue' = queue /\ wpc[w] = "run" /\ job[w] \in Tasks
        /\ future' = [future EXCEPT ![job[w]] = "done"]
        /\ job' = [job EXCEPT ![w] = NoTask] /\ wpc' = [wpc EXCEPT ![w] = "loop"]
    BY <1>0, <1>6 DEF TaskEnd, condVars, JobsOK
  <2>2. /\ \A v \in Workers \ {w} : job[v] # job[w]
        /\ \A i \in 1..Len(queue) : queue[i] # job[w]
    BY <1>0, <2>1 DEF Apart
  <2>3. Apart'
    BY <1>0, <2>1 DEF Apart
  <2>4. QED
    BY <1>0, <2>1, <2>2, <2>3 DEF JobsOK, Queued, Held
<1>7. QED
  BY <1>1, <1>2, <1>3, <1>4, <1>5, <1>6, PoolStepCases

-----------------------------------------------------------------------------
\* idle is raised and lowered at the ends of the wait, whatever ends it.
LEMMA NextWaiters ==
  ASSUME PInv, PoolTypeOK', [PoolNext]_poolVars
  PROVE  WaitersOK'
<1> USE PoolAssumption
<1>0. /\ sleeping \subseteq Waiters /\ idle = Cardinality(Waiters)
      /\ wpc \in [Workers -> {"unborn", "loop", "wait", "got", "run", "dead"}]
      /\ idle \in Nat /\ IsFiniteSet(Waiters)
  BY FS_Subset DEF PInv, PoolTypeOK, WaitersOK, IdleExact, Waiters
<1>1. SUFFICES sleeping' \subseteq Waiters' /\ idle' = Cardinality(Waiters')
  BY DEF WaitersOK, IdleExact, Waiters
<1>2. CASE Enter \/ Stop \/ ExitClose \/ ExitJoined
  <2>1. idle' = idle /\ wpc' = wpc /\ sleeping' \subseteq sleeping
    BY <1>2 DEF Enter, Stop, ExitClose, ExitJoined, MarkClosed, condVars
  <2>2. QED
    BY <1>0, <2>1 DEF Waiters
<1>3. ASSUME NEW t \in Tasks, Submit(t)
      PROVE  sleeping' \subseteq Waiters' /\ idle' = Cardinality(Waiters')
  <2>1. idle' = idle /\ sleeping' \subseteq sleeping
    BY <1>3 DEF Submit, NotifyWorker, Notified
  <2>2. Waiters' = Waiters
    BY <1>0, <1>3 DEF Submit, SpawnIfNoneIdle, SpawnWorker, Waiters
  <2>3. QED
    BY <1>0, <2>1, <2>2
<1>4. ASSUME NEW t \in Tasks, SubmitRejected(t) \/ Cancel(t)
      PROVE  sleeping' \subseteq Waiters' /\ idle' = Cardinality(Waiters')
  BY <1>0, <1>4 DEF SubmitRejected, Cancel, condVars, Waiters
<1>5. ASSUME NEW w \in Workers, NEW n \in Nat,
             \/ wpc[w] = "loop" /\ n = idle + 1
             \/ wpc[w] = "wait" /\ w \notin sleeping /\ n = idle,
             PopTask(w, n) \/ Leave(w, n) \/ Sleep(w, n)
      PROVE  sleeping' \subseteq Waiters' /\ idle' = Cardinality(Waiters')
  <2>1. CASE PopTask(w, n) \/ Leave(w, n)
    <3>1. idle' = n - 1 /\ sleeping' = sleeping /\ Waiters' = Waiters \ {w}
      BY <1>0, <2>1 DEF PopTask, Leave, Waiters
    <3>2. Cardinality(Waiters \ {w}) = n - 1
      <4>1. Cardinality(Waiters \ {w}) =
              IF w \in Waiters THEN Cardinality(Waiters) - 1 ELSE Cardinality(Waiters)
        BY <1>0, FS_RemoveElement
      <4>2. w \in Waiters <=> wpc[w] = "wait"
        BY DEF Waiters
      <4>3. QED
        BY <1>0, <1>5, <4>1, <4>2
    <3>3. w \notin sleeping
      BY <1>0, <1>5 DEF Waiters
    <3>4. QED
      BY <1>0, <3>1, <3>2, <3>3
  <2>2. CASE Sleep(w, n)
    <3>1. /\ idle' = n /\ sleeping' = sleeping \cup {w}
          /\ Waiters' = Waiters \cup {w}
      BY <1>0, <2>2 DEF Sleep, Waiters
    <3>2. Cardinality(Waiters \cup {w}) =
            IF w \in Waiters THEN Cardinality(Waiters) ELSE Cardinality(Waiters) + 1
      BY <1>0, FS_AddElement
    <3>3. w \in Waiters <=> wpc[w] = "wait"
      BY DEF Waiters
    <3>4. QED
      BY <1>0, <1>5, <3>1, <3>2, <3>3
  <2>3. QED
    BY <1>5, <2>1, <2>2
<1>6. ASSUME NEW w \in Workers, TaskStart(w) \/ TaskEnd(w)
      PROVE  sleeping' \subseteq Waiters' /\ idle' = Cardinality(Waiters')
  <2>1. idle' = idle /\ sleeping' = sleeping /\ Waiters' = Waiters
    BY <1>0, <1>6 DEF TaskStart, TaskEnd, condVars, Waiters
  <2>2. QED
    BY <1>0, <2>1
<1>7. CASE UNCHANGED poolVars
  BY <1>0, <1>7 DEF poolVars, condVars, Waiters
<1>8. QED
  <2>1. idle + 1 \in Nat
    BY <1>0
  <2>2. QED
    BY <1>0, <1>2, <1>3, <1>4, <1>5, <1>6, <1>7, <2>1
    DEF PoolNext, WorkerStep, WorkerLoop, WorkerWake

\* submit spawns or wakes a worker, and none sleeps or leaves with a task queued.
LEMMA NextServed ==
  ASSUME PInv, [PoolNext]_poolVars
  PROVE  QueueIsServed'
<1> USE PoolAssumption
<1>0. /\ sleeping \subseteq Waiters /\ idle = Cardinality(Waiters)
      /\ wpc \in [Workers -> {"unborn", "loop", "wait", "got", "run", "dead"}]
      /\ IsFiniteSet(Waiters) /\ sleeping \subseteq Workers
  BY FS_Subset DEF PInv, PoolTypeOK, WaitersOK, IdleExact, Waiters
<1>1. SUFFICES ASSUME queue' # <<>>
               PROVE  \E w \in Workers : Alive(w)' /\ w \notin sleeping'
  BY DEF QueueIsServed
<1>2. ASSUME queue' = queue, sleeping' \subseteq sleeping,
             \A w \in Workers : Alive(w) => Alive(w)'
      PROVE  \E w \in Workers : Alive(w)' /\ w \notin sleeping'
  BY <1>1, <1>2 DEF PInv, QueueIsServed
<1>3. CASE Enter \/ Stop \/ ExitClose \/ ExitJoined
  BY <1>2, <1>3 DEF Enter, Stop, ExitClose, ExitJoined, MarkClosed, condVars, Alive
<1>4. ASSUME NEW t \in Tasks, Submit(t)
      PROVE  \E w \in Workers : Alive(w)' /\ w \notin sleeping'
  <2>1. sleeping' \in Notified(sleeping)
    BY <1>4 DEF Submit, NotifyWorker
  <2>2. CASE idle = 0
    <3>1. PICK w \in Workers : wpc[w] = "unborn" /\ wpc' = [wpc EXCEPT ![w] = "loop"]
      BY <1>4, <2>2 DEF Submit, SpawnIfNoneIdle, SpawnWorker
    <3>2. w \notin sleeping'
      BY <1>0, <2>1, <3>1 DEF Notified, Waiters
    <3>3. QED
      BY <1>0, <3>1, <3>2 DEF Alive
  <2>3. CASE idle # 0
    <3>1. wpc' = wpc
      BY <1>4, <2>3 DEF Submit, SpawnIfNoneIdle
    <3>2. Waiters # {}
      BY <1>0, <2>3, FS_EmptySet
    <3>3. \E w \in Waiters : w \notin sleeping'
      BY <1>0, <2>1, <3>2 DEF Notified
    <3>4. QED
      BY <3>1, <3>3 DEF Waiters, Alive
  <2>4. QED
    BY <2>2, <2>3
<1>5. ASSUME NEW w \in Workers, WorkerLoop(w) \/ WorkerWake(w)
      PROVE  \E v \in Workers : Alive(v)' /\ v \notin sleeping'
  <2>1. \E n : PopTask(w, n)
    BY <1>1, <1>5 DEF WorkerLoop, WorkerWake, Leave, Sleep
  <2>2. wpc'[w] = "got" /\ sleeping' = sleeping
    BY <1>0, <2>1 DEF PopTask
  <2>3. w \notin sleeping
    BY <1>0, <1>5 DEF WorkerLoop, WorkerWake, Waiters
  <2>4. QED
    BY <2>2, <2>3 DEF Alive
<1>6. ASSUME NEW t \in Tasks, SubmitRejected(t) \/ Cancel(t)
      PROVE  \E w \in Workers : Alive(w)' /\ w \notin sleeping'
  BY <1>2, <1>6 DEF SubmitRejected, Cancel, condVars, Alive
<1>7. ASSUME NEW w \in Workers, TaskStart(w) \/ TaskEnd(w)
      PROVE  \E v \in Workers : Alive(v)' /\ v \notin sleeping'
  <2>1. \A v \in Workers : Alive(v) => Alive(v)'
    BY <1>0, <1>7 DEF TaskStart, TaskEnd, Alive
  <2>2. QED
    BY <1>2, <1>7, <2>1 DEF TaskStart, TaskEnd, condVars
<1>8. CASE UNCHANGED poolVars
  BY <1>2, <1>8 DEF poolVars, condVars, Alive
<1>9. QED
  BY <1>3, <1>4, <1>5, <1>6, <1>7, <1>8 DEF PoolNext, WorkerStep

\* Nobody is spawned once __exit__ has closed the pool.
LEMMA NextExitOK ==
  ASSUME PInv, [PoolNext]_poolVars
  PROVE  ExitOK'
<1> USE DEF PInv, PoolTypeOK, ExitOK, Alive, condVars, lifeVars
<1>1. CASE Enter \/ Stop \/ ExitClose \/ ExitJoined
  BY <1>1 DEF Enter, Stop, ExitClose, ExitJoined, MarkClosed
<1>2. ASSUME NEW t \in Tasks, Submit(t) PROVE ExitOK'
  BY <1>2 DEF Submit
<1>3. ASSUME NEW t \in Tasks, SubmitRejected(t) \/ Cancel(t) PROVE ExitOK'
  BY <1>3 DEF SubmitRejected, Cancel
<1>4. ASSUME NEW w \in Workers, WorkerStep(w) \/ TaskEnd(w) PROVE ExitOK'
  BY <1>4 DEF WorkerStep, WorkerLoop, WorkerWake, TaskStart, TaskEnd
<1>5. CASE UNCHANGED poolVars
  BY <1>5 DEF poolVars
<1>6. QED
  BY <1>1, <1>2, <1>3, <1>4, <1>5 DEF PoolNext

\* Every step of the pool keeps its invariant.
LEMMA NextPInv == PInv /\ [PoolNext]_poolVars => PInv'
  BY NextPoolTypeOK, NextJobs, NextWaiters, NextServed, NextExitOK DEF PInv

-----------------------------------------------------------------------------
\* A set without two different members has at most one.
LEMMA AtMostOne ==
  ASSUME NEW S, \A x, y \in S : x = y
  PROVE  Cardinality(S) <= 1
<1>1. CASE S = {}
  BY <1>1, FS_EmptySet
<1>2. ASSUME NEW x \in S PROVE Cardinality(S) <= 1
  <2>1. S = {x}
    OBVIOUS
  <2>2. QED
    BY <2>1, FS_Singleton
<1>3. QED
  BY <1>1, <1>2

\* The invariant says where each task is.
LEMMA PInvHolders == PInv => OneHolderPerTask
<1> SUFFICES ASSUME PInv, NEW t \in Tasks
             PROVE  LET places == {<<"queue", i>> : i \in {j \in 1..Len(queue) : queue[j] = t}}
                                  \cup {<<"worker", w>> : w \in {v \in Workers : job[v] = t}}
                    IN  /\ Cardinality(places) <= 1
                        /\ future[t] = "pending" => places # {}
                        /\ future[t] = "running" <=> \E w \in Workers : job[w] = t /\ wpc[w] = "run"
                        /\ future[t] \in {"new", "done", "rejected"} => places = {}
  BY DEF OneHolderPerTask
<1> DEFINE places == {<<"queue", i>> : i \in {j \in 1..Len(queue) : queue[j] = t}}
                     \cup {<<"worker", w>> : w \in {v \in Workers : job[v] = t}}
<1> USE PoolAssumption
<1>1. JobsOK /\ Apart
  BY DEF PInv
<1>2. \A x, y \in places : x = y
  <2>1. \A v, w \in Workers : job[v] = t /\ job[w] = t => v = w
    BY <1>1 DEF Apart
  <2>2. \A i, j \in 1..Len(queue) : queue[i] = t /\ queue[j] = t => i = j
    BY <1>1 DEF Apart
  <2>3. \A i \in 1..Len(queue), w \in Workers : ~(queue[i] = t /\ job[w] = t)
    BY <1>1 DEF Apart
  <2>4. QED
    BY <2>1, <2>2, <2>3
<1>3. Cardinality(places) <= 1
  <2> HIDE DEF places
  <2>1. QED
    BY <1>2, AtMostOne
<1>4. future[t] = "pending" => places # {}
  <2>1. ASSUME NEW i \in 1..Len(queue), queue[i] = t PROVE <<"queue", i>> \in places
    BY <2>1
  <2>2. ASSUME NEW w \in Workers, job[w] = t PROVE <<"worker", w>> \in places
    BY <2>2
  <2>3. future[t] = "pending" => Queued(t) \/ Held(t)
    BY <1>1 DEF JobsOK
  <2> HIDE DEF places
  <2>4. QED
    BY <2>1, <2>2, <2>3 DEF Queued, Held
<1>5. future[t] = "running" <=> \E w \in Workers : job[w] = t /\ wpc[w] = "run"
  BY <1>1 DEF JobsOK, Held
<1>6. future[t] \in {"new", "done", "rejected"} => places = {}
  <2>1. ASSUME NEW i \in 1..Len(queue), queue[i] = t
        PROVE  future[t] \in {"pending", "cancelled"}
    BY <1>1, <2>1 DEF JobsOK
  <2>2. ASSUME NEW w \in Workers, job[w] = t
        PROVE  future[t] \in {"pending", "cancelled", "running"}
    BY <1>1, <2>2 DEF JobsOK
  <2>3. QED
    BY <2>1, <2>2
<1>7. QED
  BY <1>3, <1>4, <1>5, <1>6

\* When every worker has ended, nothing is left to do.
LEMMA PInvDrained == PInv => ExitMeansDrained
<1> SUFFICES ASSUME PInv, exiting = "done"
             PROVE  /\ queue = <<>>
                    /\ \A w \in Workers : ~Alive(w)
                    /\ \A t \in Tasks : Settled(t) \/ future[t] \in {"new", "rejected"}
  BY DEF ExitMeansDrained
<1> USE PoolAssumption
<1>1. \A w \in Workers : ~Alive(w)
  BY DEF PInv, ExitOK
<1>2. queue = <<>>
  BY <1>1 DEF PInv, QueueIsServed
<1>3. \A t \in Tasks : ~Queued(t) /\ ~Held(t)
  <2>1. Len(queue) = 0
    BY <1>2, EmptySeq
  <2>2. \A t \in Tasks : ~Queued(t)
    BY <2>1 DEF Queued
  <2>3. \A t \in Tasks : ~Held(t)
    BY <1>1 DEF PInv, JobsOK, Held, Alive
  <2>4. QED
    BY <2>2, <2>3
<1>4. QED
  BY <1>1, <1>2, <1>3 DEF PInv, PoolTypeOK, JobsOK, Settled

\* The invariant implies what the pool promises.
LEMMA PInvSafe == PInv => PoolSafe
  BY PInvHolders, PInvDrained DEF PInv, WaitersOK, PoolSafe

\* Of any number of tasks given to a pool of any number of workers none is lost,
\* run twice or left to sleepers (submit, _run_worker), and __exit__ leaves none
\* behind, whatever is submitted, cancelled or closed meanwhile.
THEOREM PoolIsSafe == PoolSpec => []PoolSafe
  BY InitPInv, NextPInv, PInvSafe, PTL DEF PoolSpec

-----------------------------------------------------------------------------
(***************************************************************************)
(* The group over its pool.                                                *)
(***************************************************************************)

\* create_task is called by the owner of the "with" block and by tasks of the
\* group.  Anybody else may call it too late.
NoOutsiders == \A t \in Tasks : Creator[t] # "outside"

\* The future of a task follows what create_task has done for it.
FuturesOK ==
    \A t \in Tasks :
        /\ cpc[t] \in {"none", "checked"} => future[t] = "new"
        /\ cpc[t] = "refused" => future[t] \in {"new", "rejected"}
        /\ Started(t) => future[t] \notin {"new", "rejected"}
        /\ cpc[t] = "called back" => Settled(t)
        /\ t \in raised => future[t] = "done"

\* The list of futures: added by create_task, removed by _on_done if successful.
ListOK ==
    \A t \in Tasks :
        /\ cpc[t] \in {"appended", "created"} => t \in tasks
        /\ cpc[t] = "called back" /\ t \in raised => t \in tasks

\* Whoever is inside create_task is still running.
CreatorsRun ==
    \A t \in Tasks :
        /\ cpc[t] \in InCreate /\ Creator[t] = "owner" => gpc = "body"
        /\ cpc[t] \in InCreate /\ Creator[t] \in Tasks =>
              future[Creator[t]] = "running"

\* Tasks do not create each other in a circle: every set of tasks that were
\* created has one whose creator is not in it.
NoCircle ==
    /\ \A t \in Tasks : cpc[t] # "none" /\ Creator[t] \in Tasks =>
          cpc[Creator[t]] # "none"
    /\ \A Z \in SUBSET Tasks : Z # {} /\ (\A t \in Z : cpc[t] # "none") =>
          \E t \in Z : Creator[t] \notin Z

\* Nothing runs and nobody creates.
AllQuiet ==
    \A t \in Tasks : cpc[t] \notin InCreate /\ (Started(t) => Settled(t))

\* Where __exit__ stands.
OwnerOK ==
    /\ tgClosed <=> gpc \in {"collect", "exited"}
    /\ gpc \in {"close", "collect", "exited"} => AllQuiet
    /\ gpc = "collect" => raised \subseteq pending
    /\ gpc = "exited" => errors = raised

\* The inductive invariant of a group and its pool.
GInv == PInv /\ TypeOK /\ FuturesOK /\ ListOK /\ CreatorsRun /\ NoCircle /\ OwnerOK

\* A new group has no tasks.
LEMMA InitGInv == Init => GInv
<1> SUFFICES ASSUME Init PROVE GInv
  OBVIOUS
<1> USE CreatorAssumption DEF Init
<1>1. PInv
  BY InitPInv
<1>2. \A t \in Tasks : cpc[t] = "none" /\ future[t] = "new"
  BY DEF PoolInit
<1>3. TypeOK
  BY <1>1 DEF TypeOK, PInv
<1>4. FuturesOK /\ ListOK /\ CreatorsRun /\ NoCircle
  BY <1>2 DEF FuturesOK, ListOK, CreatorsRun, NoCircle, Started, InCreate
<1>5. OwnerOK
  BY DEF OwnerOK
<1>6. QED
  BY <1>1, <1>3, <1>4, <1>5 DEF GInv

-----------------------------------------------------------------------------
\* Every step of the group is one of the pool, or leaves the pool alone.
LEMMA GroupStepsPool == [Next]_vars => [PoolNext]_poolVars
<1> SUFFICES ASSUME [Next]_vars PROVE PoolNext \/ UNCHANGED poolVars
  OBVIOUS
<1>1. CASE ExecutorStep
  BY <1>1 DEF ExecutorStep, PoolNext
<1>2. ASSUME NEW t \in Tasks, CreateCheck(t) \/ CreateStep(t)
      PROVE  PoolNext \/ UNCHANGED poolVars
  BY <1>2 DEF CreateCheck, CreateStep, CreateSubmit, CreateAppend, CreateCallback,
     OnDone, PoolNext
<1>3. ASSUME NEW w \in Workers, BodyEnd(w) PROVE PoolNext
  BY <1>3 DEF BodyEnd, PoolNext
<1>4. CASE ExitGroup \/ OwnerStep
  BY <1>4 DEF ExitGroup, OwnerStep, Drain, WaitAll, CloseGroup, Collect
<1>5. CASE UNCHANGED vars
  BY <1>5 DEF vars
<1>6. QED
  BY <1>1, <1>2, <1>3, <1>4, <1>5 DEF Next

\* What a step of the executor on its own does to the futures.
Proceeds ==
    \A t \in Tasks :
        \/ future'[t] = future[t]
        \/ future[t] = "pending" /\ future'[t] \in {"cancelled", "running"}

LEMMA ExecutorProceeds ==
  ASSUME PInv, ExecutorStep
  PROVE  Proceeds
<1> USE DEF PInv, PoolTypeOK, Proceeds
<1>1. CASE Enter \/ ExitClose \/ ExitJoined \/ Stop
  BY <1>1 DEF Enter, ExitClose, ExitJoined, Stop
<1>2. ASSUME NEW t \in Tasks, Cancel(t) PROVE Proceeds
  BY <1>2 DEF Cancel
<1>3. ASSUME NEW w \in Workers, WorkerLoop(w) \/ WorkerWake(w) PROVE Proceeds
  BY <1>3 DEF WorkerLoop, WorkerWake
<1>4. ASSUME NEW w \in Workers, TaskStart(w) PROVE Proceeds
  BY <1>4 DEF TaskStart
<1>5. QED
  BY <1>1, <1>2, <1>3, <1>4 DEF ExecutorStep, WorkerStep

\* A body that ends settles the task it ran, which was running.
LEMMA BodyEndSettles ==
  ASSUME PInv, NEW w \in Workers, BodyEnd(w)
  PROVE  /\ job[w] \in Tasks /\ future[job[w]] = "running"
         /\ future' = [future EXCEPT ![job[w]] = "done"]
         /\ raised' \in {raised, raised \cup {job[w]}}
         /\ ~Busy(job[w])
         /\ UNCHANGED <<tasks, tgClosed, gpc, pending, cpc, errors>>
  BY DEF BodyEnd, TaskEnd, PInv, JobsOK, PoolTypeOK

\* create_task hands the task over or is refused.
LEMMA SubmitEffects ==
  ASSUME PInv, NEW t \in Tasks, CreateSubmit(t)
  PROVE  /\ cpc[t] = "checked"
         /\ \/ /\ future' = [future EXCEPT ![t] = "pending"]
               /\ cpc' = [cpc EXCEPT ![t] = "submitted"]
            \/ /\ future' = [future EXCEPT ![t] = "rejected"]
               /\ cpc' = [cpc EXCEPT ![t] = "refused"]
         /\ UNCHANGED <<tasks, tgClosed, gpc, pending, raised, errors>>
  BY DEF CreateSubmit, Submit, SubmitRejected

-----------------------------------------------------------------------------
\* The state of a group stays well typed.
LEMMA NextGroupTypeOK ==
  ASSUME PInv, TypeOK, [Next]_vars
  PROVE  TypeOK'
<1> USE DEF TypeOK, groupVars, InCreate
<1>0. PoolTypeOK'
  BY NextPInv, GroupStepsPool DEF PInv
<1>1. CASE ExecutorStep
  BY <1>0, <1>1 DEF ExecutorStep
<1>2. ASSUME NEW t \in Tasks, CreateCheck(t) \/ CreateStep(t) PROVE TypeOK'
  BY <1>0, <1>2 DEF CreateCheck, CreateStep, CreateSubmit, CreateAppend,
     CreateCallback, OnDone
<1>3. ASSUME NEW w \in Workers, BodyEnd(w) PROVE TypeOK'
  BY <1>0, <1>3, BodyEndSettles
<1>4. CASE ExitGroup \/ OwnerStep
  BY <1>0, <1>4 DEF ExitGroup, OwnerStep, Drain, WaitAll, CloseGroup, Collect
<1>5. CASE UNCHANGED vars
  BY <1>0, <1>5 DEF vars
<1>6. QED
  BY <1>1, <1>2, <1>3, <1>4, <1>5 DEF Next

\* The types of what the next lemmas are about.
LEMMA GroupTypes ==
  ASSUME GInv
  PROVE  /\ future \in [Tasks -> {"new", "pending", "running", "done", "cancelled",
                                  "rejected"}]
         /\ cpc \in [Tasks -> {"none", "checked", "submitted", "appended", "created",
                               "called back", "refused"}]
         /\ tasks \subseteq Tasks /\ raised \subseteq Tasks
         /\ Creator \in [Tasks -> Creators]
  BY CreatorAssumption DEF GInv, TypeOK, PoolTypeOK, InCreate

\* The futures follow create_task, the workers and the bodies.
LEMMA NextFutures ==
  ASSUME GInv, [Next]_vars
  PROVE  FuturesOK'
<1>0. PInv /\ FuturesOK
  BY DEF GInv
<1> USE GroupTypes DEF FuturesOK, Settled, Started, groupVars
<1>1. CASE ExecutorStep
  <2>1. Proceeds /\ cpc' = cpc /\ raised' = raised
    BY <1>0, <1>1, ExecutorProceeds DEF ExecutorStep
  <2>2. QED
    BY <1>0, <2>1 DEF Proceeds
<1>2. ASSUME NEW t \in Tasks, CreateSubmit(t) PROVE FuturesOK'
  BY <1>0, <1>2, SubmitEffects, ZenonT(60)
<1>3. ASSUME NEW t \in Tasks,
             CreateCheck(t) \/ CreateAppend(t) \/ CreateCallback(t) \/ OnDone(t)
      PROVE  FuturesOK'
  BY <1>0, <1>3 DEF CreateCheck, CreateAppend, CreateCallback, OnDone, poolVars
<1>4. ASSUME NEW w \in Workers, BodyEnd(w) PROVE FuturesOK'
  <2>1. PICK u \in Tasks :
           /\ future[u] = "running" /\ future' = [future EXCEPT ![u] = "done"]
           /\ raised' \in {raised, raised \cup {u}} /\ cpc' = cpc
    BY <1>0, <1>4, BodyEndSettles
  <2>2. \A t \in Tasks \ {u} : future'[t] = future[t] /\ (t \in raised' <=> t \in raised)
    BY <2>1
  <2>3. future'[u] = "done" /\ Started(u)
    BY <1>0, <2>1
  <2>4. QED
    BY <1>0, <2>1, <2>2, <2>3
<1>5. CASE ExitGroup \/ OwnerStep
  BY <1>0, <1>5 DEF ExitGroup, OwnerStep, Drain, WaitAll, CloseGroup, Collect,
     poolVars
<1>6. CASE UNCHANGED vars
  BY <1>0, <1>6 DEF vars, poolVars
<1>7. QED
  BY <1>1, <1>2, <1>3, <1>4, <1>5, <1>6 DEF Next, CreateStep

\* A future leaves the list only when its task has succeeded.
LEMMA NextList ==
  ASSUME GInv, [Next]_vars
  PROVE  ListOK'
<1>0. PInv /\ FuturesOK /\ ListOK
  BY DEF GInv
<1> USE GroupTypes DEF ListOK, groupVars
<1>1. CASE ExecutorStep
  BY <1>0, <1>1 DEF ExecutorStep
<1>2. ASSUME NEW t \in Tasks, CreateSubmit(t) PROVE ListOK'
  BY <1>0, <1>2, SubmitEffects
<1>3. ASSUME NEW t \in Tasks,
             CreateCheck(t) \/ CreateAppend(t) \/ CreateCallback(t) \/ OnDone(t)
      PROVE  ListOK'
  BY <1>0, <1>3 DEF CreateCheck, CreateAppend, CreateCallback, OnDone, poolVars
<1>4. ASSUME NEW w \in Workers, BodyEnd(w) PROVE ListOK'
  <2>1. PICK u \in Tasks :
           /\ future[u] = "running" /\ raised' \in {raised, raised \cup {u}}
           /\ cpc' = cpc /\ tasks' = tasks
    BY <1>0, <1>4, BodyEndSettles
  <2>2. cpc[u] # "called back"
    BY <1>0, <2>1 DEF FuturesOK, Settled
  <2>3. QED
    BY <1>0, <2>1, <2>2
<1>5. CASE ExitGroup \/ OwnerStep
  BY <1>0, <1>5 DEF ExitGroup, OwnerStep, Drain, WaitAll, CloseGroup, Collect
<1>6. CASE UNCHANGED vars
  BY <1>0, <1>6 DEF vars
<1>7. QED
  BY <1>1, <1>2, <1>3, <1>4, <1>5, <1>6 DEF Next, CreateStep

\* A caller of create_task neither ends its body nor leaves the block.
LEMMA NextCreatorsRun ==
  ASSUME GInv, [Next]_vars
  PROVE  CreatorsRun'
<1>0. PInv /\ FuturesOK /\ CreatorsRun /\ Tasks \cap {"owner", "outside"} = {}
  BY CreatorAssumption DEF GInv
<1> USE GroupTypes DEF CreatorsRun, groupVars, InCreate
<1>1. CASE ExecutorStep
  <2>1. Proceeds /\ cpc' = cpc /\ gpc' = gpc
    BY <1>0, <1>1, ExecutorProceeds DEF ExecutorStep
  <2>2. QED
    BY <1>0, <2>1 DEF Proceeds
<1>2. ASSUME NEW t \in Tasks, CreateSubmit(t) PROVE CreatorsRun'
  <2>1. future[t] = "new"
    BY <1>0, <1>2, SubmitEffects DEF FuturesOK
  <2>0. /\ cpc[t] = "checked" /\ gpc' = gpc
        /\ \E f, c : /\ future' = [future EXCEPT ![t] = f]
                     /\ cpc' = [cpc EXCEPT ![t] = c]
    BY <1>2 DEF CreateSubmit, Submit, SubmitRejected
  <2>2. \A u \in Tasks \ {t} : cpc'[u] = cpc[u] /\ future'[u] = future[u]
    BY <2>0
  <2>3. ASSUME NEW u \in Tasks, cpc'[u] \in InCreate
        PROVE  cpc[u] \in InCreate
    BY <2>0, <2>2, <2>3
  <2>4. \A c \in Tasks : future[c] = "running" => future'[c] = "running"
    BY <2>1, <2>2
  <2>5. QED
    BY <1>0, <2>0, <2>3, <2>4
<1>3. ASSUME NEW t \in Tasks, CreateCheck(t) PROVE CreatorsRun'
  BY <1>0, <1>3 DEF CreateCheck, CreatorRuns, poolVars
<1>4. ASSUME NEW t \in Tasks, CreateAppend(t) \/ CreateCallback(t) \/ OnDone(t)
      PROVE  CreatorsRun'
  BY <1>0, <1>4 DEF CreateAppend, CreateCallback, OnDone, poolVars
<1>5. ASSUME NEW w \in Workers, BodyEnd(w) PROVE CreatorsRun'
  BY <1>0, <1>5, BodyEndSettles DEF Busy
<1>6. CASE ExitGroup
  BY <1>0, <1>6 DEF ExitGroup, Busy, poolVars
<1>7. CASE OwnerStep
  BY <1>0, <1>7 DEF OwnerStep, Drain, WaitAll, CloseGroup, Collect, poolVars
<1>8. CASE UNCHANGED vars
  BY <1>0, <1>8 DEF vars, poolVars
<1>9. QED
  BY <1>1, <1>2, <1>3, <1>4, <1>5, <1>6, <1>7, <1>8 DEF Next, CreateStep

\* A new task is created by one that was created before it.
LEMMA NextNoCircle ==
  ASSUME GInv, [Next]_vars
  PROVE  NoCircle'
<1>0. PInv /\ FuturesOK /\ NoCircle /\ Tasks \cap {"owner", "outside"} = {}
  BY CreatorAssumption DEF GInv
<1>1. CASE \A t \in Tasks : cpc'[t] # "none" <=> cpc[t] # "none"
  BY <1>0, <1>1, GroupTypes DEF NoCircle
<1>2. ASSUME NEW t \in Tasks, CreateCheck(t) PROVE NoCircle'
  <2>1. /\ cpc[t] = "none" /\ cpc'[t] # "none"
        /\ \A u \in Tasks \ {t} : cpc'[u] = cpc[u]
    BY <1>2, GroupTypes DEF CreateCheck
  <2>2. Creator[t] \in Tasks => cpc[Creator[t]] # "none"
    BY <1>0, <1>2, GroupTypes DEF CreateCheck, CreatorRuns, FuturesOK
  <2>3. \A u \in Tasks : cpc'[u] # "none" /\ Creator[u] \in Tasks =>
           cpc'[Creator[u]] # "none"
    BY <1>0, <2>1, <2>2 DEF NoCircle
  <2>4. ASSUME NEW Z \in SUBSET Tasks, Z # {}, \A u \in Z : cpc'[u] # "none"
        PROVE  \E u \in Z : Creator[u] \notin Z
    <3>1. CASE t \notin Z
      BY <1>0, <2>1, <2>4, <3>1 DEF NoCircle
    <3>2. CASE t \in Z /\ Creator[t] \notin Z
      BY <3>2
    <3>3. CASE t \in Z /\ Creator[t] \in Z
      <4>1. Creator[t] \in Z \ {t}
        BY <2>1, <2>2, <3>3
      <4>2. PICK u \in Z \ {t} : Creator[u] \notin Z \ {t}
        BY <1>0, <2>1, <2>4, <4>1, ZenonT(60) DEF NoCircle
      <4>3. Creator[u] # t
        BY <1>0, <2>1, <2>4, <4>2 DEF NoCircle
      <4>4. QED
        BY <4>2, <4>3
    <3>4. QED
      BY <3>1, <3>2, <3>3
  <2>5. QED
    BY <2>3, <2>4 DEF NoCircle
<1>3. ASSUME NEW t \in Tasks, CreateStep(t)
      PROVE  \A u \in Tasks : cpc'[u] # "none" <=> cpc[u] # "none"
  BY <1>3, GroupTypes DEF CreateStep, CreateSubmit, CreateAppend, CreateCallback,
     OnDone
<1>4. ASSUME ExecutorStep \/ (\E w \in Workers : BodyEnd(w)) \/ ExitGroup \/ OwnerStep
             \/ UNCHANGED vars
      PROVE  cpc' = cpc
  BY <1>4 DEF ExecutorStep, BodyEnd, ExitGroup, OwnerStep, Drain, WaitAll, CloseGroup,
     Collect, vars, groupVars
<1>5. QED
  BY <1>1, <1>2, <1>3, <1>4 DEF Next

-----------------------------------------------------------------------------
\* Once the owner has left the block and every future in the list is settled,
\* nothing runs: a task that runs outside the list is inside create_task, so
\* its creator runs, too, and the chain would have to end at the owner.
LEMMA DrainedIsQuiet ==
  ASSUME NoOutsiders, GInv, gpc # "body", \A t \in tasks : Settled(t)
  PROVE  AllQuiet
<1> DEFINE Z == {t \in Tasks : cpc[t] \in InCreate}
<1>0. FuturesOK /\ ListOK /\ CreatorsRun /\ NoCircle
  BY DEF GInv
<1>1. \A t \in Tasks : Started(t) /\ ~Settled(t) => t \in Z
  BY <1>0 DEF FuturesOK, ListOK, Started, InCreate
<1>2. \A t \in Z : Creator[t] \in Z
  <2>1. SUFFICES ASSUME NEW t \in Z PROVE Creator[t] \in Z
    OBVIOUS
  <2>2. Creator[t] \in Tasks /\ future[Creator[t]] = "running"
    BY <1>0, GroupTypes DEF CreatorsRun, Creators, NoOutsiders
  <2>3. Started(Creator[t]) /\ ~Settled(Creator[t])
    BY <1>0, <2>2, GroupTypes DEF FuturesOK, Started, Settled
  <2>4. QED
    BY <1>1, <2>2, <2>3
<1>3. Z = {}
  BY <1>0, <1>2 DEF NoCircle, InCreate
<1>4. QED
  BY <1>1, <1>3 DEF AllQuiet

\* Once nothing runs, nothing starts: no caller of create_task is left.
LEMMA QuietStays ==
  ASSUME NoOutsiders, GInv, gpc \in {"close", "collect", "exited"}, [Next]_vars
  PROVE  AllQuiet' /\ raised' = raised
<1>0. /\ PInv /\ FuturesOK /\ AllQuiet /\ Tasks \cap {"owner", "outside"} = {}
      /\ tgClosed <=> gpc \in {"collect", "exited"}
  BY CreatorAssumption DEF GInv, OwnerOK
<1>1. \A t \in Tasks : future[t] \notin {"pending", "running"}
  BY <1>0, GroupTypes DEF FuturesOK, AllQuiet, Started, Settled, InCreate
<1> USE GroupTypes DEF AllQuiet, Settled, Started, groupVars, InCreate
<1>2. CASE ExecutorStep
  <2>1. Proceeds /\ cpc' = cpc /\ raised' = raised
    BY <1>0, <1>2, ExecutorProceeds DEF ExecutorStep
  <2>2. QED
    BY <1>0, <1>1, <2>1 DEF Proceeds
<1>3. ASSUME NEW t \in Tasks, CreateCheck(t) PROVE FALSE
  BY <1>0, <1>1, <1>3 DEF CreateCheck, CreatorRuns, NoOutsiders
<1>4. ASSUME NEW t \in Tasks, CreateSubmit(t) \/ CreateAppend(t) \/ CreateCallback(t)
      PROVE  FALSE
  BY <1>0, <1>4 DEF CreateSubmit, CreateAppend, CreateCallback
<1>5. ASSUME NEW t \in Tasks, OnDone(t) PROVE AllQuiet' /\ raised' = raised
  BY <1>0, <1>5 DEF OnDone, poolVars
<1>6. ASSUME NEW w \in Workers, BodyEnd(w) PROVE FALSE
  BY <1>0, <1>1, <1>6, BodyEndSettles
<1>7. CASE ExitGroup \/ OwnerStep
  BY <1>0, <1>7 DEF ExitGroup, OwnerStep, Drain, WaitAll, CloseGroup, Collect, poolVars
<1>8. CASE UNCHANGED vars
  BY <1>0, <1>8 DEF vars, poolVars
<1>9. QED
  BY <1>2, <1>3, <1>4, <1>5, <1>6, <1>7, <1>8 DEF Next, CreateStep

\* What the owner collects after the close is what raised.
LEMMA NextOwner ==
  ASSUME NoOutsiders, GInv, [Next]_vars
  PROVE  OwnerOK'
<1>0. FuturesOK /\ ListOK /\ OwnerOK
  BY DEF GInv
<1> USE DEF groupVars
<1>1. ASSUME UNCHANGED <<tgClosed, gpc, pending, errors>> PROVE OwnerOK'
  <2>1. gpc \in {"close", "collect", "exited"} => AllQuiet' /\ raised' = raised
    BY QuietStays
  <2>2. QED
    BY <1>0, <1>1, <2>1 DEF OwnerOK
<1>2. CASE ExitGroup \/ WaitAll
  BY <1>0, <1>2 DEF ExitGroup, WaitAll, OwnerOK
<1>3. CASE Drain
  <2>1. pending' = {} => \A t \in tasks : Settled(t)
    BY <1>3 DEF Drain
  <2>2. pending' = {} => AllQuiet
    BY <1>3, <2>1, DrainedIsQuiet DEF Drain
  <2>3. AllQuiet => AllQuiet'
    BY <1>3 DEF Drain, AllQuiet, poolVars, Started, Settled
  <2>4. QED
    BY <1>0, <1>3, <2>2, <2>3 DEF Drain, OwnerOK
<1>4. CASE CloseGroup
  <2>1. AllQuiet' /\ raised' = raised /\ AllQuiet
    BY <1>0, <1>4, QuietStays DEF CloseGroup, OwnerOK
  <2>2. raised \subseteq tasks
    <3>1. \A t \in raised : t \in Tasks /\ future[t] = "done"
      BY <1>0, GroupTypes DEF FuturesOK
    <3>2. \A t \in raised : cpc[t] \in {"created", "called back"}
      BY <1>0, <2>1, <3>1, GroupTypes DEF FuturesOK, AllQuiet, InCreate
    <3>3. QED
      BY <1>0, <3>1, <3>2 DEF ListOK
  <2>3. QED
    BY <1>4, <2>1, <2>2 DEF CloseGroup, OwnerOK
<1>5. CASE Collect
  <2>1. AllQuiet' /\ raised \subseteq pending
    BY <1>0, <1>5, QuietStays DEF Collect, OwnerOK
  <2>2. QED
    BY <1>0, <1>5, <2>1 DEF Collect, OwnerOK
<1>6. ASSUME NEW t \in Tasks, CreateCheck(t) \/ CreateStep(t)
      PROVE  UNCHANGED <<tgClosed, gpc, pending, errors>>
  BY <1>6 DEF CreateCheck, CreateStep, CreateSubmit, CreateAppend, CreateCallback,
     OnDone
<1>7. ASSUME ExecutorStep \/ (\E w \in Workers : BodyEnd(w)) \/ UNCHANGED vars
      PROVE  UNCHANGED <<tgClosed, gpc, pending, errors>>
  BY <1>7 DEF ExecutorStep, BodyEnd, vars
<1>8. QED
  BY <1>1, <1>2, <1>3, <1>4, <1>5, <1>6, <1>7 DEF Next, OwnerStep

-----------------------------------------------------------------------------
\* Every step of the group keeps its invariant.
LEMMA NextGInv == ASSUME NoOutsiders PROVE GInv /\ [Next]_vars => GInv'
<1> SUFFICES ASSUME GInv, [Next]_vars PROVE GInv'
  OBVIOUS
<1>1. PInv' /\ TypeOK'
  BY NextPInv, GroupStepsPool, NextGroupTypeOK DEF GInv
<1>2. FuturesOK' /\ ListOK' /\ CreatorsRun' /\ NoCircle' /\ OwnerOK'
  BY NextFutures, NextList, NextCreatorsRun, NextNoCircle, NextOwner
<1>3. QED
  BY <1>1, <1>2 DEF GInv

\* A group that has been left has nothing running, and told everything.
LEMMA GInvSafe == GInv => GroupSafe
  BY DEF GInv, OwnerOK, AllQuiet, GroupSafe, ExitWaitsForAll, FailuresSurface,
     NobodyCreatesAfterClose

\* When the block of a task group has been left, every task started in it is
\* settled, however deep tasks started further ones while __exit__ was waiting;
\* the exceptions it raises are exactly those of the tasks that failed, and nobody
\* can add a task any more; for any tasks and workers, if only the owner and
\* tasks of the group call create_task.
THEOREM GroupIsSafe == ASSUME NoOutsiders PROVE Spec => []GroupSafe
<1>1. Init => GInv
  BY InitGInv
<1>2. GInv /\ [Next]_vars => GInv'
  BY NextGInv
<1>3. GInv => GroupSafe
  BY GInvSafe
<1>4. QED
  BY <1>1, <1>2, <1>3, PTL DEF Spec
=============================================================================
