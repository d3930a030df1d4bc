-------------------------- MODULE HttpSelectorProofs --------------------------
(***************************************************************************)
(* Proofs about HttpSelector, for any number of connections, descriptors,  *)
(* workers, chunks and sweeps.                                             *)
(***************************************************************************)
EXTENDS HttpSelector, TLAPS, SequenceTheorems

In(o, s) == \E i \in 1 .. Len(s) : s[i] = o

\* Who refers to a connection: the selector's callback and batch, its map, the
\* op queue, a worker.
Lingers(c) ==
    \/ cur = c
    \/ c \in batch
    \/ \E f \in Fds : InMap(f) /\ (keys[f].obj = c \/ keys[f].data = c)
    \/ In(OpTrack(c), ops)
    \/ \E w \in Workers : job[w] = c

\* accept takes a descriptor only when nothing refers any more to a connection
\* that had it, and no op that names it is left in the queue.
Late ==
    \A c \in Conns : sock[c] = "none" /\ sock'[c] = "open" =>
        /\ \A d \in Conns : fd[d] = fd'[c] => ~Lingers(d)
        /\ ~In(OpClose(fd'[c]), ops)

ReuseIsLate == [][Late]_vars

-----------------------------------------------------------------------------
\* The types that need no arithmetic, and those of the rest.
WhoTypes ==
    /\ sock \in [Conns -> {"none", "open", "closed"}]
    /\ fd \in [Conns -> Fds \cup {NoFd}]
    /\ backlog \subseteq Conns
    /\ keys \in [Fds -> [obj : Conns, data : Conns] \cup {NoKey}]
    /\ watched \subseteq Fds
    /\ ops \in Seq(Ops)
    /\ wakeup \in BOOLEAN /\ shutting_down \in BOOLEAN /\ cleanup_due \in BOOLEAN
    /\ spc \in {"drain", "redrain", "select", "batch", "loop", "dispatched",
                "shutdown", "down"}
    /\ cur \in Conns \cup {NoConn}
    /\ batch \subseteq Conns \cup {Accept, Wakeup}
    /\ tracked \in [Conns -> BOOLEAN]
    /\ wpc \in [Workers -> {"idle", "run", "give back", "append", "wake",
                            "after", "close", "append close", "wake and end"}]
    /\ job \in [Workers -> Conns \cup {NoConn}]

\* Only what was accepted is referred to.
Referred ==
    /\ \A c \in Conns : sock[c] = "none" => ~tracked[c] /\ ~Lingers(c) /\ fd[c] = NoFd
    /\ \A c \in Conns : sock[c] # "none" => fd[c] \in Fds /\ c \notin backlog
    /\ \A w \in Workers : wpc[w] # "idle" => job[w] \in Conns
    /\ spc \in {"loop", "dispatched"} <=> cur # NoConn

\* One worker at a time answers or gives back, while the selector leaves the
\* connection alone.
Busy(w) == wpc[w] \in {"run", "give back"}

Owners ==
    \A w \in Workers : Busy(w) =>
        /\ ~tracked[job[w]]
        /\ \A v \in Workers \ {w} : ~(Busy(v) /\ job[v] = job[w])

\* From the end of a drain to the start of the next, an op has its byte.
Bytes ==
    spc \in {"select", "batch", "loop", "dispatched"} /\ ops # <<>> =>
        wakeup \/ \E w \in Workers : wpc[w] \in {"wake", "wake and end"}

OwnerInv == WhoTypes /\ Referred /\ Owners /\ Bytes

-----------------------------------------------------------------------------
\* What was sent is on the wire, in the parser, in work, or answered.
InWork(c) == IF parser[c] = "request" THEN 1 ELSE 0

Counts ==
    /\ wire \in [Conns -> Nat] /\ chunks \in [Conns -> 0 .. MaxChunks]
    /\ fin \in [Conns -> BOOLEAN] /\ sweeps \in 0 .. MaxSweeps
    /\ close_at \in [Conns -> {"none", "keep_alive", "rw_timeout"}]
    /\ overdue \in [Conns -> BOOLEAN] /\ idle \in [Conns -> BOOLEAN]
    /\ parser \in [Conns -> {"idle", "request", "done", "must_close"}]
    /\ buf \in [Conns -> Nat] /\ answered \in [Conns -> Nat]
    /\ got408 \in [Conns -> BOOLEAN] /\ killed \in [Conns -> BOOLEAN]
    /\ \A c \in Conns :
          /\ 2 * answered[c] + 2 * InWork(c) + buf[c] + wire[c] <= chunks[c]
          /\ ~idle[c] /\ parser[c] = "idle" => buf[c] > 0
    /\ \A w \in Workers : wpc[w] = "run" => parser[job[w]] = "request"

-----------------------------------------------------------------------------
\* A descriptor leads to one connection, as long as anything refers to it.
Opened == {c \in Conns : sock[c] = "open"}

Fresh ==
    /\ \A c, d \in Opened : fd[c] = fd[d] => c = d
    /\ \A f \in Fds : InMap(f) => keys[f].obj = keys[f].data /\ fd[keys[f].data] = f
    /\ \A c \in Opened : InMap(fd[c]) => fd[c] \in watched
    /\ \A c \in Opened, d \in Conns :
          fd[c] = fd[d] /\ sock[d] = "closed" => ~Lingers(d)
    /\ \A c \in Opened : ~In(OpClose(fd[c]), ops)
    /\ \A w \in Workers : wpc[w] = "append close" => sock[job[w]] = "closed"

\* An open connection is with the selector or on its way there while it is
\* tracked, and with a worker while it is not.
Reached(c) ==
    Watched(c) \/ Queued(c) \/ \E w \in Workers : job[w] = c /\ wpc[w] = "append"

Handled(c) == \E w \in Workers : job[w] = c /\ wpc[w] \in {"run", "give back", "close"}

Kept ==
    /\ \A c \in Opened : tracked[c] /\ spc # "down" => Reached(c)
    /\ \A c \in Opened : ~tracked[c] => Handled(c)

-----------------------------------------------------------------------------
\* With inline handlers no worker has anything and sweeps are the only ops; the
\* map is exactly the open connections; and a callback leaves no answered request
\* behind.
InlineQueue ==
    /\ \A w \in Workers : wpc[w] = "idle"
    /\ \A o \in Ops : In(o, ops) => o.op = "cleanup"
    /\ spc # "dispatched"

InlineKeys ==
    /\ \A c \in Conns : tracked[c] <=> c \in Opened
    /\ \A c \in Opened : Watched(c)
    /\ \A f \in Fds : InMap(f) => keys[f].data \in Opened /\ fd[keys[f].data] = f
    /\ spc = "down" => Opened = {}

InlineCycle ==
    /\ \A c \in Conns : parser[c] # "request" /\ (sock[c] = "none" => parser[c] = "idle")
    /\ \A c \in Opened : parser[c] # "idle" => cur = c
    /\ \A c \in Conns : answered[c] > 0 /\ buf[c] = 0 /\ parser[c] = "idle" =>
          close_at[c] = "keep_alive"

InlineInv == InlineQueue /\ InlineKeys /\ InlineCycle

-----------------------------------------------------------------------------
(***************************************************************************)
(* Queues, keys and records.                                               *)
(***************************************************************************)

LEMMA InAppend ==
  ASSUME NEW S, NEW s \in Seq(S), NEW x \in S
  PROVE  /\ Append(s, x) \in Seq(S) /\ Append(s, x) # <<>>
         /\ \A o : In(o, Append(s, x)) <=> In(o, s) \/ o = x
<1>1. /\ Append(s, x) \in Seq(S) /\ Len(Append(s, x)) = Len(s) + 1 /\ Len(s) \in Nat
      /\ \A i \in 1 .. Len(s) : Append(s, x)[i] = s[i]
      /\ Append(s, x)[Len(s) + 1] = x
  BY AppendProperties
<1>2. ASSUME NEW o, In(o, Append(s, x)) PROVE In(o, s) \/ o = x
  BY <1>1, <1>2 DEF In
<1>3. ASSUME NEW o, In(o, s) \/ o = x PROVE In(o, Append(s, x))
  BY <1>1, <1>3 DEF In
<1>4. Append(s, x) # <<>>
  BY <1>1
<1>5. QED
  BY <1>1, <1>2, <1>3, <1>4

LEMMA InTail ==
  ASSUME NEW S, NEW s \in Seq(S), s # <<>>
  PROVE  /\ Head(s) \in S /\ Tail(s) \in Seq(S) /\ In(Head(s), s)
         /\ \A o : In(o, s) => o = Head(s) \/ In(o, Tail(s))
         /\ \A o : In(o, Tail(s)) => In(o, s)
<1>1. /\ Head(s) \in S /\ Tail(s) \in Seq(S) /\ Len(Tail(s)) = Len(s) - 1
      /\ Len(s) \in Nat /\ Len(s) # 0 /\ Head(s) = s[1]
      /\ \A i \in 1 .. Len(Tail(s)) : Tail(s)[i] = s[i + 1]
  BY HeadTailProperties, EmptySeq
<1>2. ASSUME NEW o, In(o, s) PROVE o = Head(s) \/ In(o, Tail(s))
  <2>1. PICK i \in 1 .. Len(s) : s[i] = o
    BY <1>2 DEF In
  <2>2. CASE i = 1
    BY <1>1, <2>1, <2>2
  <2>3. CASE i # 1
    <3>1. i - 1 \in 1 .. Len(Tail(s)) /\ Tail(s)[i - 1] = o
      BY <1>1, <2>1, <2>3
    <3>2. QED
      BY <3>1 DEF In
  <2>4. QED
    BY <2>2, <2>3
<1>3. ASSUME NEW o, In(o, Tail(s)) PROVE In(o, s)
  BY <1>1, <1>3 DEF In
<1>4. In(Head(s), s)
  BY <1>1 DEF In
<1>5. QED
  BY <1>1, <1>2, <1>3, <1>4

LEMMA NothingIn == \A o : ~In(o, <<>>)
  BY DEF In

\* The three ops are told apart by their first field.
LEMMA OpKinds ==
  ASSUME NEW o \in Ops
  PROVE  /\ o.op = "track" => o.conn \in Conns /\ o = OpTrack(o.conn)
         /\ o.op = "close" => o.fd \in Fds /\ o = OpClose(o.fd)
         /\ \A c : o = OpTrack(c) => o.op = "track" /\ o.conn = c
         /\ \A f : o = OpClose(f) => o.op = "close" /\ o.fd = f
         /\ o.op \in {"track", "close", "cleanup"}
  BY DEF Ops, OpTrack, OpClose, OpCleanup

LEMMA OpsApart ==
  ASSUME NEW a, NEW b
  PROVE  /\ OpTrack(a) = OpTrack(b) <=> a = b
         /\ OpClose(a) = OpClose(b) <=> a = b
         /\ OpTrack(a) # OpClose(b) /\ OpTrack(a) # OpCleanup /\ OpClose(a) # OpCleanup
  BY DEF OpTrack, OpClose, OpCleanup

\* What KeyFd finds.
LEMMA KeyFdFinds ==
  ASSUME NEW c
  PROVE  /\ sock[c] = "open" => KeyFd(c) = fd[c]
         /\ sock[c] # "open" =>
               \/ KeyFd(c) = NoFd
               \/ KeyFd(c) \in Fds /\ InMap(KeyFd(c)) /\ keys[KeyFd(c)].obj = c
<1>1. CASE \E f \in Fds : InMap(f) /\ keys[f].obj = c
  <2> DEFINE g == CHOOSE f \in Fds : InMap(f) /\ keys[f].obj = c
  <2>1. g \in Fds /\ InMap(g) /\ keys[g].obj = c
    BY <1>1
  <2>2. KeyFd(c) = IF sock[c] = "open" THEN fd[c] ELSE g
    BY <1>1 DEF KeyFd
  <2> HIDE DEF g
  <2>3. QED
    BY <2>1, <2>2
<1>2. CASE ~\E f \in Fds : InMap(f) /\ keys[f].obj = c
  BY <1>2 DEF KeyFd
<1>3. QED
  BY <1>1, <1>2

-----------------------------------------------------------------------------
(***************************************************************************)
(* Types.                                                                  *)
(***************************************************************************)

\* What the callback of a connection, a client or a timer changes beside this
\* says nothing about who owns what.
whoVars == <<sock, fd, backlog, keyVars, opVars, loopVars, shutting_down, tracked, workVars>>

LEMMA WhoTypesInit == Init => WhoTypes
<1> SUFFICES ASSUME Init PROVE WhoTypes
  OBVIOUS
<1>1. ops \in Seq(Ops)
  BY EmptySeq DEF Init
<1>2. sock \in [Conns -> {"none", "open", "closed"}] /\ fd \in [Conns -> Fds \cup {NoFd}]
  BY DEF Init
<1>3. keys \in [Fds -> [obj : Conns, data : Conns] \cup {NoKey}]
  BY DEF Init
<1>4. /\ wpc \in [Workers -> {"idle", "run", "give back", "append", "wake",
                            "after", "close", "append close", "wake and end"}]
      /\ job \in [Workers -> Conns \cup {NoConn}]
  BY DEF Init
<1>5. QED
  BY <1>1, <1>2, <1>3, <1>4 DEF Init, WhoTypes

\* The selector's drain.
LEMMA DrainTypes ==
  ASSUME WhoTypes, DrainOp \/ CleanupStale \/ ShutdownOp
  PROVE  WhoTypes'
<1> USE DEF WhoTypes, kernelVars, keyVars, opVars, loopVars, selVars, connVars, workVars
<1>1. ASSUME ops # <<>>
      PROVE  Head(ops) \in Ops /\ Tail(ops) \in Seq(Ops)
  BY <1>1, InTail
<1>2. CASE DrainOp
  <2>1. ops' \in Seq(Ops) /\ Head(ops) \in Ops
    BY <1>1, <1>2 DEF DrainOp
  <2>2. CASE Head(ops).op = "track" /\ ApplyTrack(Head(ops).conn) /\ UNCHANGED cleanup_due
    <3> DEFINE c == Head(ops).conn
    <3>1. c \in Conns
      BY <2>1, <2>2, OpKinds
    <3> HIDE DEF c
    <3>2. /\ sock' \in [Conns -> {"none", "open", "closed"}]
          /\ keys' \in [Fds -> [obj : Conns, data : Conns] \cup {NoKey}]
          /\ watched' \subseteq Fds /\ tracked' \in [Conns -> BOOLEAN]
      <4>1. ApplyTrack(c)
        BY <2>2 DEF c
      <4> DEFINE k == KeyFd(c)
                 e == [obj |-> IF InMap(k) THEN keys[k].obj ELSE c, data |-> c]
      <4>2. e \in [obj : Conns, data : Conns]
        BY <3>1 DEF InMap
      <4>3. CASE /\ k \in Fds /\ keys' = [keys EXCEPT ![k] = e]
                 /\ watched' = IF InMap(k) THEN watched ELSE watched \cup {k}
                 /\ UNCHANGED <<tracked, sock>>
        <5> HIDE DEF k, e
        <5> QED  BY <4>2, <4>3
      <4>4. CASE tracked' = [tracked EXCEPT ![c] = FALSE] /\ sock' = CloseSocks({c})
                 /\ UNCHANGED <<keys, watched>>
        BY <3>1, <4>4 DEF CloseSocks
      <4>5. QED
        BY <4>1, <4>3, <4>4 DEF ApplyTrack
    <3>3. QED
      BY <1>2, <2>1, <2>2, <3>2 DEF DrainOp
  <2>3. CASE Head(ops).op = "close" /\ Unregister(Head(ops).fd)
             /\ UNCHANGED <<tracked, sock, cleanup_due>>
    BY <1>2, <2>1, <2>3 DEF DrainOp, Unregister, Without
  <2>4. CASE Head(ops).op = "cleanup" /\ cleanup_due' = TRUE
             /\ UNCHANGED <<tracked, sock, keyVars>>
    BY <1>2, <2>1, <2>4 DEF DrainOp
  <2>5. QED
    BY <1>2, <2>2, <2>3, <2>4 DEF DrainOp
<1>3. CASE CleanupStale
  BY <1>3 DEF CleanupStale, AfterDrain, CloseSocks
<1>4. CASE ShutdownOp
  <2>1. ops' \in Seq(Ops)
    BY <1>1, <1>4 DEF ShutdownOp
  <2>2. CASE Head(ops).op = "track"
    <3> DEFINE c == Head(ops).conn
    <3>1. /\ sock' = CloseSocks({c}) /\ watched' = watched \ FreedFds({c})
          /\ tracked' = [tracked EXCEPT ![c] = FALSE]
          /\ UNCHANGED <<fd, backlog, keys, wakeup, loopVars, selVars, workVars>>
      BY <1>4, <2>2 DEF ShutdownOp
    <3> HIDE DEF c
    <3>2. sock' \in [Conns -> {"none", "open", "closed"}] /\ watched' \subseteq Fds
      BY <3>1 DEF CloseSocks
    <3>3. QED
      BY <2>1, <3>1, <3>2
  <2>3. CASE Head(ops).op # "track"
    BY <1>4, <2>1, <2>3 DEF ShutdownOp
  <2>4. QED
    BY <2>2, <2>3
<1>5. QED
  BY <1>2, <1>3, <1>4

LEMMA WorkerTypes ==
  ASSUME WhoTypes, NEW w \in Workers, WorkerStep(w),
         wpc[w] # "idle" => job[w] \in Conns
         , wpc[w] = "append close" => fd[job[w]] \in Fds
  PROVE  WhoTypes'
<1> USE DEF WhoTypes, kernelVars, keyVars, opVars, loopVars, selVars, connVars, workVars
<1>1. CASE Respond(w) \/ Abort(w) \/ ReturnAfter(w) \/ RaiseAfter(w) \/ Wake(w)
  BY <1>1 DEF Respond, Abort, ReturnAfter, RaiseAfter, Wake, Goto, Finish
<1>2. CASE GiveBack(w)
  BY <1>2 DEF GiveBack, Goto, CloseSocks
<1>3. CASE AppendTrack(w)
  <2>1. OpTrack(job[w]) \in Ops
    BY <1>3 DEF AppendTrack, Ops
  <2>2. Append(ops, OpTrack(job[w])) \in Seq(Ops)
    BY <2>1, InAppend
  <2>3. QED
    BY <1>3, <2>2 DEF AppendTrack, Goto
<1>4. CASE AppendClose(w)
  <2>1. OpClose(fd[job[w]]) \in Ops
    BY <1>4 DEF AppendClose, Ops
  <2>2. Append(ops, OpClose(fd[job[w]])) \in Seq(Ops)
    BY <2>1, InAppend
  <2>3. QED
    BY <1>4, <2>2 DEF AppendClose, Goto
<1>5. CASE CloseByWorker(w)
  BY <1>5 DEF CloseByWorker, Goto, Finish, CloseSocks
<1>6. QED
  BY <1>1, <1>2, <1>3, <1>4, <1>5 DEF WorkerStep

LEMMA SelectorTypes ==
  ASSUME WhoTypes, SelectorStep, ~DrainOp, ~CleanupStale
  PROVE  WhoTypes'
<1> USE DEF WhoTypes, kernelVars, keyVars, opVars, loopVars, selVars, connVars, workVars
<1>1. CASE DrainDone \/ BatchWakeup \/ BatchAcceptFails \/ BatchConn \/ BatchDone \/ CheckBorrowed
  BY <1>1 DEF DrainDone, AfterDrain, BatchWakeup, BatchAcceptFails, BatchConn, BatchDone,
              CheckBorrowed, EndCallback
<1>2. CASE Select
  <2>1. \A f \in Fds : InMap(f) => keys[f].data \in Conns
    BY DEF InMap
  <2>2. {keys[f].data : f \in {g \in watched : InMap(g) /\
           \E c \in Conns : /\ sock[c] = "open" /\ fd[c] = g
                            /\ wire[c] > 0 \/ fin[c]}} \subseteq Conns
    BY <2>1
  <2>3. Ready \subseteq Conns \cup {Accept, Wakeup}
    BY <2>2 DEF Ready
  <2>4. QED
    BY <1>2, <2>3 DEF Select
<1>3. CASE BatchAccept
  <2>1. PICK c \in backlog, f \in FreeFds :
           /\ backlog' = backlog \ {c}
           /\ sock' = [sock EXCEPT ![c] = "open"]
           /\ fd' = [fd EXCEPT ![c] = f]
           /\ tracked' = [tracked EXCEPT ![c] = TRUE]
           /\ keys' = [keys EXCEPT ![f] =
                         [obj |-> IF InMap(f) THEN keys[f].obj ELSE c, data |-> c]]
           /\ watched' = IF InMap(f) THEN watched ELSE watched \cup {f}
    BY <1>3 DEF BatchAccept
  <2>2. c \in Conns /\ f \in Fds
    BY DEF FreeFds
  <2>3. keys' \in [Fds -> [obj : Conns, data : Conns] \cup {NoKey}]
    BY <2>1, <2>2 DEF InMap
  <2>4. QED
    BY <1>3, <2>1, <2>2, <2>3, ZenonT(60) DEF BatchAccept
<1>4. ASSUME NEW c \in Conns, LoopUntracked(c) \/ LoopReceive(c) \/ LoopBlock(c) \/ LoopAnswer(c)
      PROVE  WhoTypes'
  BY <1>4 DEF LoopUntracked, LoopReceive, LoopBlock, LoopAnswer, EndCallback, StayInLoop
<1>5. ASSUME NEW c \in Conns, LoopClose(c) PROVE WhoTypes'
  BY <1>5 DEF LoopClose, CloseInline, CloseSocks, Unregister, Without, EndCallback
<1>6. ASSUME NEW c \in Conns, LoopDispatch(c) PROVE WhoTypes'
  BY <1>6, ZenonT(60) DEF LoopDispatch, StopTracking, Unregister, Without, FreeWorkers
<1>7. QED
  BY <1>1, <1>2, <1>3, <1>4, <1>5, <1>6 DEF SelectorStep, LoopStep

LEMMA OtherTypes ==
  ASSUME WhoTypes,
         \/ PostCleanup \/ ShutdownBegins \/ ShutdownEnds \/ UNCHANGED vars
         \/ \E c \in Conns : ClientStep(c)
  PROVE  WhoTypes'
<1> USE DEF WhoTypes, vars, kernelVars, keyVars, opVars, loopVars, selVars, connVars, workVars
<1>1. CASE PostCleanup
  <2>1. Append(ops, OpCleanup) \in Seq(Ops)
    BY InAppend DEF Ops
  <2>2. QED
    BY <1>1, <2>1 DEF PostCleanup
<1>2. CASE ShutdownBegins \/ UNCHANGED vars
  BY <1>2 DEF ShutdownBegins
<1>3. CASE ShutdownEnds
  BY <1>3 DEF ShutdownEnds, CloseSocks
<1>4. CASE \E c \in Conns : ClientStep(c)
  BY <1>4 DEF ClientStep, ClientConnects, ClientSends, ClientCloses, TimePasses
<1>5. QED
  BY <1>1, <1>2, <1>3, <1>4

LEMMA WhoTypesNext ==
  ASSUME WhoTypes, Referred, [Next]_vars
  PROVE  WhoTypes'
<1>1. ASSUME NEW w \in Workers, wpc[w] # "idle"
      PROVE  job[w] \in Conns /\ fd[job[w]] \in Fds
  <2>1. job[w] \in Conns /\ Lingers(job[w])
    BY <1>1 DEF Referred, Lingers
  <2>2. QED
    BY <2>1 DEF Referred
<1>2. CASE DrainOp \/ CleanupStale \/ ShutdownOp
  BY <1>2, DrainTypes
<1>3. CASE SelectorStep /\ ~DrainOp /\ ~CleanupStale
  BY <1>3, SelectorTypes
<1>4. ASSUME NEW w \in Workers, WorkerStep(w) PROVE WhoTypes'
  <2>1. wpc[w] = "append close" => fd[job[w]] \in Fds
    BY <1>1
  <2>2. wpc[w] # "idle" => job[w] \in Conns
    BY <1>1
  <2>3. QED
    BY <1>4, <2>1, <2>2, WorkerTypes
<1>5. QED
  BY <1>2, <1>3, <1>4, OtherTypes DEF Next, ShutdownStep

-----------------------------------------------------------------------------
(***************************************************************************)
(* What a step may do to the connections.  A reference to a connection is  *)
(* copied from another one, or made when the connection is accepted; only  *)
(* a connection that is referred to is closed, and no socket opens twice.  *)
(***************************************************************************)
Accepted(c) == sock[c] = "none" /\ sock'[c] = "open"

Flow ==
    /\ \A c \in Conns : Lingers(c)' => Lingers(c) \/ Accepted(c)
    /\ \A c \in Conns :
          \/ sock'[c] = sock[c]
          \/ sock'[c] = "closed" /\ Lingers(c)
          \/ Accepted(c) /\ fd'[c] \in FreeFds /\ c \notin backlog'
    /\ \A c \in Conns : fd'[c] = fd[c] \/ Accepted(c)
    /\ \A c \in Conns : tracked'[c] => tracked[c] \/ Accepted(c) \/ Lingers(c)
    /\ \A c \in Conns : c \in backlog' => c \in backlog \/ sock[c] = "none"

LEMMA DrainFlow ==
  ASSUME WhoTypes, DrainOp
  PROVE  Flow
<1>1. /\ ops' = Tail(ops) /\ Head(ops) \in Ops /\ In(Head(ops), ops)
      /\ \A o : In(o, ops') => In(o, ops)
      /\ UNCHANGED <<fd, backlog, cur, batch, job>>
  BY InTail DEF DrainOp, WhoTypes, workVars
<1>2. CASE Head(ops).op = "track" /\ ApplyTrack(Head(ops).conn)
  <2> DEFINE d == Head(ops).conn
             k == KeyFd(d)
             e == [obj |-> IF InMap(k) THEN keys[k].obj ELSE d, data |-> d]
  <2>1. d \in Conns /\ Lingers(d)
    BY <1>1, <1>2, OpKinds DEF Lingers
  <2>2. CASE k \in Fds /\ keys' = [keys EXCEPT ![k] = e] /\ UNCHANGED <<tracked, sock>>
    <3>1. \A f \in Fds : f # k => keys'[f] = keys[f]
      <4> HIDE DEF k, e
      <4> QED  BY <2>2 DEF WhoTypes
    <3>2. keys'[k] = e /\ e.data = d /\ e.obj \in {d, keys[k].obj}
      <4> HIDE DEF k
      <4> QED  BY <2>2 DEF WhoTypes
    <3>3. InMap(k) \/ e.obj = d
      OBVIOUS
    <3>4. \A c \in Conns : Lingers(c)' => Lingers(c)
      <4> HIDE DEF d, k, e
      <4> QED  BY <1>1, <2>1, <2>2, <3>1, <3>2, <3>3 DEF Lingers, InMap
    <3>5. QED
      BY <1>1, <2>2, <3>4 DEF Flow
  <2>3. CASE tracked' = [tracked EXCEPT ![d] = FALSE] /\ sock' = CloseSocks({d})
             /\ UNCHANGED keys
    <3> HIDE DEF d
    <3>1. \A c \in Conns : Lingers(c)' => Lingers(c)
      BY <1>1, <2>3 DEF Lingers, InMap
    <3>2. QED
      BY <1>1, <2>1, <2>3, <3>1 DEF Flow, CloseSocks, WhoTypes
  <2>4. QED
    BY <1>2, <2>2, <2>3 DEF ApplyTrack
<1>3. CASE Unregister(Head(ops).fd) /\ UNCHANGED <<tracked, sock>>
  <2>1. \A f \in Fds : keys'[f] = keys[f] \/ keys'[f] = NoKey
    BY <1>3 DEF Unregister, Without
  <2>2. \A c \in Conns : Lingers(c)' => Lingers(c)
    BY <1>1, <2>1 DEF Lingers, InMap
  <2>3. QED
    BY <1>1, <1>3, <2>2 DEF Flow
<1>4. CASE UNCHANGED <<tracked, sock, keys>>
  <2>1. \A c \in Conns : Lingers(c)' => Lingers(c)
    BY <1>1, <1>4 DEF Lingers, InMap
  <2>2. QED
    BY <1>1, <1>4, <2>1 DEF Flow
<1>5. QED
  BY <1>2, <1>3, <1>4 DEF DrainOp, keyVars

\* A step that only drops keys closes nothing but what they lead to.
LEMMA DropFlow ==
  ASSUME WhoTypes, NEW cs, \A c \in cs : c \in Conns /\ Lingers(c),
         sock' = CloseSocks(cs),
         \A c \in Conns : tracked'[c] => tracked[c] \/ Lingers(c),
         \A f \in Fds : keys'[f] = keys[f] \/ keys'[f] = NoKey,
         backlog' \subseteq backlog,
         \A c \in Conns : In(OpTrack(c), ops') => Lingers(c),
         cur' = cur \/ cur' \in batch \/ cur' = NoConn,
         batch' \subseteq batch \/ batch' = Ready,
         \A w \in Workers : job'[w] \in {job[w], cur, NoConn},
         UNCHANGED fd
  PROVE  Flow
<1>1. ASSUME NEW c \in Conns, Lingers(c)' PROVE Lingers(c)
  <2>0. c \notin {NoConn, Accept, Wakeup}
    BY SelectorAssumption
  <2>1. CASE cur' = c
    BY <2>0, <2>1 DEF Lingers
  <2>2. CASE c \in batch'
    <3>1. c \in Ready => \E f \in Fds : InMap(f) /\ keys[f].data = c
      BY <2>0 DEF Ready, InMap
    <3>2. QED
      BY <2>2, <3>1 DEF Lingers
  <2>3. CASE \E f \in Fds : InMap(f)' /\ (keys'[f].obj = c \/ keys'[f].data = c)
    BY <2>3 DEF Lingers, InMap
  <2>4. CASE In(OpTrack(c), ops')
    BY <2>4
  <2>5. CASE \E w \in Workers : job'[w] = c
    BY <2>0, <2>5 DEF Lingers
  <2>6. QED
    BY <1>1, <2>1, <2>2, <2>3, <2>4, <2>5 DEF Lingers
<1>2. ASSUME NEW c \in Conns
      PROVE  sock'[c] = sock[c] \/ (sock'[c] = "closed" /\ Lingers(c))
  <2>1. sock'[c] = IF c \in cs THEN "closed" ELSE sock[c]
    BY DEF CloseSocks
  <2>2. c \in cs => Lingers(c)
    OBVIOUS
  <2>3. QED
    BY <2>1, <2>2
<1>3. QED
  BY <1>1, <1>2 DEF Flow

LEMMA SweepFlow ==
  ASSUME WhoTypes, CleanupStale \/ ShutdownOp \/ ShutdownEnds
  PROVE  Flow
<1>1. CASE CleanupStale
  <2>1. \A c \in Stale : c \in Conns /\ Lingers(c)
    BY DEF Stale, Lingers, InMap, WhoTypes
  <2>2. /\ sock' = CloseSocks(Stale) /\ tracked' = [c \in Conns |-> tracked[c] /\ c \notin Stale]
        /\ \A f \in Fds : keys'[f] = keys[f] \/ keys'[f] = NoKey
        /\ UNCHANGED <<fd, backlog, ops, cur, batch, job>>
    BY <1>1 DEF CleanupStale, opVars, workVars
  <2>3. \A c \in Conns : In(OpTrack(c), ops') => Lingers(c)
    BY <2>2 DEF Lingers
  <2>4. QED
    BY <2>1, <2>2, <2>3, DropFlow
<1>2. CASE ShutdownOp
  <2>1. /\ ops' = Tail(ops) /\ Head(ops) \in Ops /\ In(Head(ops), ops)
        /\ \A o : In(o, ops') => In(o, ops)
        /\ UNCHANGED <<fd, backlog, keys, cur, batch, job>>
    BY <1>2, InTail DEF ShutdownOp, WhoTypes, workVars, loopVars
  <2>2. CASE Head(ops).op = "track"
    <3> DEFINE d == Head(ops).conn
    <3>1. d \in Conns /\ Lingers(d)
      BY <2>1, <2>2, OpKinds DEF Lingers
    <3>2. sock' = CloseSocks({d}) /\ tracked' = [tracked EXCEPT ![d] = FALSE]
      BY <1>2, <2>2 DEF ShutdownOp
    <3> HIDE DEF d
    <3>3. /\ \A c \in {d} : c \in Conns /\ Lingers(c)
          /\ \A c \in Conns : tracked'[c] => tracked[c] \/ Lingers(c)
      BY <3>1, <3>2 DEF WhoTypes
    <3>4. \A c \in Conns : In(OpTrack(c), ops') => Lingers(c)
      BY <2>1 DEF Lingers
    <3>5. QED
      BY <2>1, <3>2, <3>3, <3>4, DropFlow
  <2>3. CASE Head(ops).op # "track"
    <3>1. UNCHANGED <<sock, tracked>>
      BY <1>2, <2>3 DEF ShutdownOp
    <3>2. sock' = CloseSocks({}) /\ \A c \in {} : c \in Conns /\ Lingers(c)
      BY <3>1 DEF CloseSocks, WhoTypes
    <3>3. \A c \in Conns : In(OpTrack(c), ops') => Lingers(c)
      BY <2>1 DEF Lingers
    <3>4. QED
      BY <2>1, <3>1, <3>2, <3>3, DropFlow
  <2>4. QED
    BY <2>2, <2>3
<1>3. CASE ShutdownEnds
  <2>1. \A c \in Registered : c \in Conns /\ Lingers(c)
    BY DEF Registered, Lingers, InMap, WhoTypes
  <2>2. /\ sock' = CloseSocks(Registered)
        /\ tracked' = [c \in Conns |-> tracked[c] /\ c \notin Registered]
        /\ \A f \in Fds : keys'[f] = NoKey
        /\ backlog' = {} /\ UNCHANGED <<fd, ops, cur, batch, job>>
    BY <1>3 DEF ShutdownEnds, workVars
  <2>3. \A c \in Conns : In(OpTrack(c), ops') => Lingers(c)
    BY <2>2 DEF Lingers
  <2>4. QED
    BY <2>1, <2>2, <2>3, DropFlow
<1>4. QED
  BY <1>1, <1>2, <1>3

LEMMA SelectorFlow ==
  ASSUME WhoTypes, Referred, SelectorStep, ~DrainOp, ~CleanupStale
  PROVE  Flow
<1> USE DEF kernelVars, keyVars, opVars, loopVars, selVars, connVars, workVars
<1>0. /\ UNCHANGED sock => sock' = CloseSocks({})
      /\ \A c \in {} : c \in Conns /\ Lingers(c)
  BY DEF CloseSocks, WhoTypes
<1>1. CASE DrainDone \/ BatchWakeup \/ BatchAcceptFails \/ BatchConn \/ BatchDone \/ Select
           \/ CheckBorrowed
  <2>1. /\ cur' = cur \/ cur' \in batch \/ cur' = NoConn
        /\ batch' \subseteq batch \/ batch' = Ready
        /\ UNCHANGED <<sock, fd, backlog, keys, tracked, ops, job>>
    BY <1>1 DEF DrainDone, AfterDrain, BatchWakeup, BatchAcceptFails, BatchConn, BatchDone,
                Select, CheckBorrowed, EndCallback
  <2>2. \A c \in Conns : In(OpTrack(c), ops') => Lingers(c)
    BY <2>1 DEF Lingers
  <2>3. QED
    BY <1>0, <2>1, <2>2, DropFlow
<1>2. ASSUME NEW d \in Conns, LoopUntracked(d) \/ LoopReceive(d) \/ LoopBlock(d) \/ LoopAnswer(d)
      PROVE  Flow
  <2>1. /\ cur' = cur \/ cur' = NoConn
        /\ UNCHANGED <<batch, sock, fd, backlog, keys, tracked, ops, job>>
    BY <1>2 DEF LoopUntracked, LoopReceive, LoopBlock, LoopAnswer, EndCallback, StayInLoop
  <2>2. \A c \in Conns : In(OpTrack(c), ops') => Lingers(c)
    BY <2>1 DEF Lingers
  <2>3. QED
    BY <1>0, <2>1, <2>2, DropFlow
<1>3. ASSUME NEW d \in Conns, LoopClose(d) PROVE Flow
  <2>1. /\ cur = d /\ cur' = NoConn /\ sock' = CloseSocks({d})
        /\ tracked' = [tracked EXCEPT ![d] = FALSE]
        /\ \A f \in Fds : keys'[f] = keys[f] \/ keys'[f] = NoKey
        /\ UNCHANGED <<batch, fd, backlog, ops, job>>
    BY <1>3 DEF LoopClose, CloseInline, Unregister, Without, EndCallback, InLoop
  <2>2. /\ \A c \in {d} : c \in Conns /\ Lingers(c)
        /\ \A c \in Conns : tracked'[c] => tracked[c] \/ Lingers(c)
    BY <2>1 DEF Lingers, WhoTypes
  <2>3. \A c \in Conns : In(OpTrack(c), ops') => Lingers(c)
    BY <2>1 DEF Lingers
  <2>4. QED
    BY <2>1, <2>2, <2>3, DropFlow
<1>4. ASSUME NEW d \in Conns, LoopDispatch(d) PROVE Flow
  <2>1. /\ cur' = d /\ cur = d
        /\ tracked' = [tracked EXCEPT ![d] = FALSE]
        /\ \A f \in Fds : keys'[f] = keys[f] \/ keys'[f] = NoKey
        /\ \E w \in Workers : job' = [job EXCEPT ![w] = d]
        /\ UNCHANGED <<batch, sock, fd, backlog, ops>>
    BY <1>4 DEF LoopDispatch, StopTracking, Unregister, Without, InLoop, FreeWorkers
  <2>2. \A w \in Workers : job'[w] \in {job[w], cur, NoConn}
    BY <2>1 DEF WhoTypes
  <2>3. \A c \in Conns : tracked'[c] => tracked[c] \/ Lingers(c)
    BY <2>1 DEF WhoTypes
  <2>4. \A c \in Conns : In(OpTrack(c), ops') => Lingers(c)
    BY <2>1 DEF Lingers
  <2>5. QED
    BY <1>0, <2>1, <2>2, <2>3, <2>4, DropFlow
<1>5. CASE BatchAccept
  <2>1. PICK a \in backlog, f \in FreeFds :
           /\ backlog' = backlog \ {a}
           /\ sock' = [sock EXCEPT ![a] = "open"]
           /\ fd' = [fd EXCEPT ![a] = f]
           /\ tracked' = [tracked EXCEPT ![a] = TRUE]
           /\ keys' = [keys EXCEPT ![f] =
                         [obj |-> IF InMap(f) THEN keys[f].obj ELSE a, data |-> a]]
           /\ watched' = IF InMap(f) THEN watched ELSE watched \cup {f}
    BY <1>5 DEF BatchAccept
  <2>2. a \in Conns /\ f \in Fds /\ sock[a] = "none"
    <3>1. a \in Conns /\ f \in Fds
      BY DEF FreeFds, WhoTypes
    <3>2. QED
      BY <3>1 DEF Referred
  <2>3. batch' \subseteq batch /\ UNCHANGED <<cur, ops, job>>
    BY <1>5 DEF BatchAccept
  <2>4. Accepted(a)
    BY <2>1, <2>2 DEF Accepted, WhoTypes
  <2>5. ASSUME NEW c \in Conns, Lingers(c)', c # a PROVE Lingers(c)
    <3>1. \A g \in Fds : keys'[g].obj = c \/ keys'[g].data = c
                            => keys'[g] = keys[g] \/ (g = f /\ InMap(f) /\ keys[f].obj = c)
      BY <2>1, <2>2, <2>5 DEF WhoTypes
    <3>2. QED
      BY <2>3, <2>5, <3>1 DEF Lingers, InMap, In
  <2>6. QED
    BY <2>1, <2>2, <2>4, <2>5 DEF Flow, WhoTypes
<1>6. QED
  BY <1>1, <1>2, <1>3, <1>4, <1>5 DEF SelectorStep, LoopStep

LEMMA WorkerFlow ==
  ASSUME WhoTypes, Referred, NEW w \in Workers, WorkerStep(w)
  PROVE  Flow
<1> USE DEF kernelVars, keyVars, opVars, loopVars, selVars, connVars, workVars
<1>0. /\ UNCHANGED sock => sock' = CloseSocks({})
      /\ \A c \in {} : c \in Conns /\ Lingers(c)
      /\ wpc[w] # "idle" => job[w] \in Conns /\ Lingers(job[w])
  BY DEF CloseSocks, WhoTypes, Referred, Lingers
<1>1. wpc[w] # "idle"
  BY DEF WorkerStep, Respond, Abort, GiveBack, AppendTrack, Wake, ReturnAfter, RaiseAfter,
         CloseByWorker, AppendClose
<1>2. CASE Respond(w) \/ Abort(w) \/ ReturnAfter(w) \/ RaiseAfter(w) \/ Wake(w)
  <2>1. /\ \A v \in Workers : job'[v] \in {job[v], cur, NoConn}
        /\ UNCHANGED <<sock, fd, backlog, keys, tracked, ops, cur, batch>>
    BY <1>2 DEF Respond, Abort, ReturnAfter, RaiseAfter, Wake, Goto, Finish, WhoTypes
  <2>2. \A c \in Conns : In(OpTrack(c), ops') => Lingers(c)
    BY <2>1 DEF Lingers
  <2>3. QED
    BY <1>0, <2>1, <2>2, DropFlow
<1>3. CASE GiveBack(w)
  <2>1. /\ sock' = CloseSocks({}) \/ sock' = CloseSocks({job[w]})
        /\ \A c \in Conns : tracked'[c] => tracked[c] \/ Lingers(c)
        /\ UNCHANGED <<fd, backlog, keys, ops, cur, batch, job>>
    BY <1>0, <1>1, <1>3 DEF GiveBack, Goto, WhoTypes
  <2>2. \A c \in Conns : In(OpTrack(c), ops') => Lingers(c)
    BY <2>1 DEF Lingers
  <2>3. \A c \in {job[w]} : c \in Conns /\ Lingers(c)
    BY <1>0, <1>1
  <2>4. CASE sock' = CloseSocks({})
    BY <1>0, <2>1, <2>2, <2>4, DropFlow
  <2>5. CASE sock' = CloseSocks({job[w]})
    BY <2>1, <2>2, <2>3, <2>5, DropFlow
  <2>6. QED
    BY <2>1, <2>4, <2>5
<1>4. CASE AppendTrack(w) \/ AppendClose(w)
  <2>0. OpTrack(job[w]) \in Ops /\ OpClose(fd[job[w]]) \in Ops
    <3>1. fd[job[w]] \in Fds
      BY <1>0, <1>1 DEF Referred
    <3>2. QED
      BY <1>0, <1>1, <3>1 DEF Ops
  <2>1. /\ ops' \in {Append(ops, OpTrack(job[w])), Append(ops, OpClose(fd[job[w]]))}
        /\ UNCHANGED <<sock, fd, backlog, keys, tracked, cur, batch, job>>
    BY <1>4 DEF AppendTrack, AppendClose, Goto
  <2>2. PICK o \in Ops : o \in {OpTrack(job[w]), OpClose(fd[job[w]])} /\ ops' = Append(ops, o)
    BY <2>0, <2>1
  <2>3. ASSUME NEW c \in Conns, In(OpTrack(c), ops') PROVE Lingers(c)
    <3>1. In(OpTrack(c), ops) \/ OpTrack(c) = o
      BY <2>2, <2>3, InAppend DEF WhoTypes
    <3>2. OpTrack(c) = o => c = job[w]
      BY <2>2, OpsApart
    <3>3. QED
      BY <1>0, <1>1, <3>1, <3>2 DEF Lingers
  <2>4. QED
    BY <1>0, <2>1, <2>3, DropFlow
<1>5. CASE CloseByWorker(w)
  <2>1. /\ sock' = CloseSocks({job[w]}) /\ tracked' = [tracked EXCEPT ![job[w]] = FALSE]
        /\ \A v \in Workers : job'[v] \in {job[v], cur, NoConn}
        /\ UNCHANGED <<fd, backlog, keys, ops, cur, batch>>
    BY <1>5 DEF CloseByWorker, Goto, Finish, WhoTypes
  <2>2. \A c \in Conns : In(OpTrack(c), ops') => Lingers(c)
    BY <2>1 DEF Lingers
  <2>3. /\ \A c \in {job[w]} : c \in Conns /\ Lingers(c)
        /\ \A c \in Conns : tracked'[c] => tracked[c] \/ Lingers(c)
    BY <1>0, <1>1, <2>1 DEF WhoTypes
  <2>4. QED
    BY <2>1, <2>2, <2>3, DropFlow
<1>6. QED
  BY <1>2, <1>3, <1>4, <1>5 DEF WorkerStep

LEMMA OtherFlow ==
  ASSUME WhoTypes, Referred,
         \/ PostCleanup \/ ShutdownBegins \/ UNCHANGED vars
         \/ \E c \in Conns : ClientStep(c)
  PROVE  Flow
<1> USE DEF vars, kernelVars, keyVars, opVars, loopVars, selVars, connVars, workVars
<1>1. CASE \E c \in Conns : ClientConnects(c)
  <2>1. UNCHANGED <<sock, fd, keys, tracked, ops, cur, batch, job>>
    BY <1>1 DEF ClientConnects
  <2>2. \A c \in Conns : c \in backlog' => c \in backlog \/ sock[c] = "none"
    BY <1>1 DEF ClientConnects
  <2>3. \A c \in Conns : Lingers(c)' => Lingers(c)
    BY <2>1 DEF Lingers, InMap
  <2>4. QED
    BY <2>1, <2>2, <2>3 DEF Flow
<1>2. CASE PostCleanup
  <2>1. ops' = Append(ops, OpCleanup) /\ OpCleanup \in Ops
    BY <1>2 DEF PostCleanup, Ops
  <2>2. ASSUME NEW c \in Conns, In(OpTrack(c), ops') PROVE In(OpTrack(c), ops)
    <3>1. ops \in Seq(Ops)
      BY DEF WhoTypes
    <3>2. In(OpTrack(c), ops) \/ OpTrack(c) = OpCleanup
      BY <2>1, <2>2, <3>1, InAppend
    <3>3. QED
      BY <3>2, OpsApart
  <2>3. UNCHANGED <<sock, fd, backlog, keys, tracked, cur, batch, job>>
    BY <1>2 DEF PostCleanup
  <2>4. \A c \in Conns : Lingers(c)' => Lingers(c)
    BY <2>2, <2>3 DEF Lingers, InMap
  <2>5. QED
    BY <2>3, <2>4 DEF Flow
<1>3. CASE ShutdownBegins \/ UNCHANGED vars
           \/ \E c \in Conns : ClientSends(c) \/ ClientCloses(c) \/ TimePasses(c)
  <2>1. UNCHANGED <<sock, fd, backlog, keys, tracked, ops, cur, batch, job>>
    BY <1>3 DEF ShutdownBegins, ClientSends, ClientCloses, TimePasses
  <2>2. \A c \in Conns : Lingers(c)' => Lingers(c)
    BY <2>1 DEF Lingers, InMap
  <2>3. QED
    BY <2>1, <2>2 DEF Flow
<1>4. QED
  BY <1>1, <1>2, <1>3 DEF ClientStep

LEMMA FlowNext ==
  ASSUME WhoTypes, Referred, [Next]_vars
  PROVE  Flow
<1>1. CASE SelectorStep
  BY <1>1, DrainFlow, SweepFlow, SelectorFlow
<1>2. CASE ShutdownStep
  BY <1>2, SweepFlow, OtherFlow DEF ShutdownStep
<1>3. ASSUME NEW w \in Workers, WorkerStep(w) PROVE Flow
  BY <1>3, WorkerFlow
<1>4. CASE PostCleanup \/ UNCHANGED vars \/ \E c \in Conns : ClientStep(c)
  BY <1>4, OtherFlow
<1>5. QED
  BY <1>1, <1>2, <1>3, <1>4 DEF Next

-----------------------------------------------------------------------------
(***************************************************************************)
(* One owner, and no op without its byte.                                  *)
(***************************************************************************)

LEMMA OwnerInit == Init => OwnerInv
<1> SUFFICES ASSUME Init PROVE OwnerInv
  OBVIOUS
<1>1. \A c \in Conns : ~Lingers(c)
  BY SelectorAssumption, NothingIn DEF Init, Lingers, InMap
<1>2. Referred
  BY <1>1 DEF Init, Referred
<1>3. Owners /\ Bytes
  BY DEF Init, Owners, Bytes, Busy
<1>4. QED
  BY <1>2, <1>3, WhoTypesInit DEF OwnerInv

LEMMA ReferredNext ==
  ASSUME WhoTypes, Referred, [Next]_vars
  PROVE  Referred'
<1>1. Flow
  BY FlowNext
<1>2. ASSUME NEW c \in Conns, sock'[c] = "none"
      PROVE  ~tracked'[c] /\ ~Lingers(c)' /\ fd'[c] = NoFd
  <2>1. sock[c] = "none" /\ ~Accepted(c)
    BY <1>1, <1>2 DEF Flow, Accepted
  <2>2. QED
    BY <1>1, <2>1 DEF Flow, Referred
<1>3. ASSUME NEW c \in Conns, sock'[c] # "none"
      PROVE  fd'[c] \in Fds /\ c \notin backlog'
  <2>1. CASE Accepted(c)
    BY <1>1, <2>1 DEF Flow, Accepted, FreeFds
  <2>2. CASE ~Accepted(c)
    <3>1. sock[c] # "none"
      BY <1>1, <1>3, <2>2 DEF Flow, Referred
    <3>2. QED
      BY <1>1, <2>2, <3>1 DEF Flow, Referred
  <2>3. QED
    BY <2>1, <2>2
<1>4. ASSUME NEW w \in Workers, wpc'[w] # "idle" PROVE job'[w] \in Conns
  <2> USE DEF vars, workVars
  <2>1. CASE UNCHANGED workVars
    BY <1>4, <2>1 DEF Referred
  <2>2. ASSUME NEW v \in Workers, WorkerStep(v) PROVE job'[w] \in Conns
    BY <1>4, <2>2 DEF WorkerStep, Respond, Abort, GiveBack, AppendTrack, Wake, ReturnAfter,
       RaiseAfter, CloseByWorker, AppendClose, Goto, Finish, Referred, WhoTypes
  <2>3. ASSUME NEW c \in Conns, LoopDispatch(c) PROVE job'[w] \in Conns
    BY <1>4, <2>3 DEF LoopDispatch, FreeWorkers, Referred, WhoTypes
  <2>4. ASSUME NEW c \in Conns, LoopStep(c), ~LoopDispatch(c) PROVE UNCHANGED workVars
    BY <2>4 DEF LoopStep, LoopUntracked, LoopClose, CloseInline, LoopReceive, LoopBlock, LoopAnswer
  <2>5. ASSUME SelectorStep, \A c \in Conns : ~LoopStep(c) PROVE UNCHANGED workVars
    BY <2>5 DEF SelectorStep, DrainOp, DrainDone, CleanupStale, Select, BatchWakeup,
       BatchAccept, BatchAcceptFails, BatchConn, BatchDone, CheckBorrowed
  <2>6. ASSUME PostCleanup \/ ShutdownStep \/ \E c \in Conns : ClientStep(c)
        PROVE UNCHANGED workVars
    BY <2>6 DEF PostCleanup, ShutdownStep, ShutdownBegins, ShutdownOp, ShutdownEnds,
       ClientStep, ClientConnects, ClientSends, ClientCloses, TimePasses
  <2>7. QED
    BY <2>1, <2>2, <2>3, <2>4, <2>5, <2>6 DEF Next
<1>5. (spc \in {"loop", "dispatched"} <=> cur # NoConn)'
  <2> USE SelectorAssumption DEF loopVars, Referred
  <2>1. CASE UNCHANGED <<spc, cur>>
    BY <2>1
  <2>2. CASE SelectorStep
    <3>1. ASSUME NEW c \in Conns, LoopStep(c)
          PROVE  (spc \in {"loop", "dispatched"} <=> cur # NoConn)'
      BY <3>1 DEF LoopStep, LoopUntracked, LoopClose, CloseInline, LoopReceive, LoopBlock,
         LoopDispatch, LoopAnswer, EndCallback, StayInLoop, InLoop
    <3>2. CASE ~\E c \in Conns : LoopStep(c)
      BY <2>2, <3>2 DEF SelectorStep, DrainOp, DrainDone, AfterDrain, CleanupStale, Select,
         BatchWakeup, BatchAccept, BatchAcceptFails, BatchConn, BatchDone, CheckBorrowed, EndCallback
    <3>3. QED
      BY <3>1, <3>2
  <2>3. CASE ShutdownStep
    BY <2>3 DEF ShutdownStep, ShutdownBegins, ShutdownOp, ShutdownEnds
  <2>4. ASSUME \/ PostCleanup \/ UNCHANGED vars
               \/ \E w \in Workers : WorkerStep(w)
               \/ \E c \in Conns : ClientStep(c)
        PROVE UNCHANGED <<spc, cur>>
    BY <2>4 DEF vars, PostCleanup, WorkerStep, Respond, Abort, GiveBack, AppendTrack, Wake,
       ReturnAfter, RaiseAfter, CloseByWorker, AppendClose,
       ClientStep, ClientConnects, ClientSends, ClientCloses, TimePasses
  <2>5. QED
    BY <2>1, <2>2, <2>3, <2>4 DEF Next
<1>6. QED
  BY <1>2, <1>3, <1>4, <1>5 DEF Referred

\* A worker's step is about itself, and leaves it with its connection or idle.
LEMMA OwnWorker ==
  ASSUME WhoTypes, NEW w \in Workers, WorkerStep(w)
  PROVE  /\ \A v \in Workers : v # w => wpc'[v] = wpc[v] /\ job'[v] = job[v]
         /\ job'[w] = job[w] \/ (wpc'[w] = "idle" /\ job'[w] = NoConn)
         /\ Busy(w)' => Respond(w)
<1> USE DEF WhoTypes, workVars, Busy
<1>1. CASE Respond(w)
  BY <1>1 DEF Respond, Goto
<1>2. CASE Abort(w) \/ RaiseAfter(w) \/ AppendTrack(w) \/ AppendClose(w)
  BY <1>2 DEF Abort, RaiseAfter, AppendTrack, AppendClose, Goto
<1>3. CASE ReturnAfter(w) \/ Wake(w)
  BY <1>3 DEF ReturnAfter, Wake, Goto, Finish
<1>4. CASE GiveBack(w)
  BY <1>4 DEF GiveBack, Goto
<1>5. CASE CloseByWorker(w)
  BY <1>5 DEF CloseByWorker, Goto, Finish
<1>6. QED
  BY <1>1, <1>2, <1>3, <1>4, <1>5 DEF WorkerStep

\* What a step does to the workers and to the flags of connections they own:
\* a free worker is given the selector's own connection, which is untracked with
\* it; only the worker that gives a connection back sets the flag again.
LEMMA OwnersNext ==
  ASSUME WhoTypes, Referred, Owners, [Next]_vars
  PROVE  Owners'
<1> USE DEF vars, workVars, connVars
<1>1. CASE UNCHANGED <<tracked, workVars>>
  BY <1>1 DEF Owners, Busy
<1>2. ASSUME NEW w \in Workers, WorkerStep(w) PROVE Owners'
  <2>1. ASSUME NEW v \in Workers, Busy(v)'
        PROVE  Busy(v) /\ job'[v] = job[v]
    <3>1. CASE v = w
      BY <1>2, <2>1, <3>1, OwnWorker DEF Respond, Goto, Busy
    <3>2. CASE v # w
      BY <1>2, <2>1, <3>2, OwnWorker DEF Busy
    <3>3. QED
      BY <3>1, <3>2
  <2>2. ASSUME NEW v \in Workers, Busy(v)', tracked'[job[v]] PROVE FALSE
    <3>1. Busy(v) /\ job[v] \in Conns /\ ~tracked[job[v]]
      BY <2>1, <2>2 DEF Owners, Referred, Busy
    <3>2. CASE GiveBack(w)
      <4>1. w # v
        BY <1>2, <2>2, <3>2 DEF GiveBack, Goto, WhoTypes, Busy
      <4>2. Busy(w) /\ job[w] \in Conns /\ job[w] # job[v]
        BY <3>1, <3>2, <4>1 DEF Owners, GiveBack, Busy, Referred
      <4>3. QED
        BY <2>2, <3>1, <3>2, <4>2 DEF GiveBack, WhoTypes
    <3>3. CASE ~GiveBack(w)
      BY <1>2, <2>2, <3>1, <3>3 DEF WorkerStep, Respond, Abort, AppendTrack, Wake,
         ReturnAfter, RaiseAfter, CloseByWorker, AppendClose, Goto, Finish, WhoTypes
    <3>4. QED
      BY <3>2, <3>3
  <2>3. QED
    BY <2>1, <2>2 DEF Owners
<1>3. ASSUME NEW c \in Conns, LoopDispatch(c) PROVE Owners'
  <2>1. PICK w \in FreeWorkers : wpc' = [wpc EXCEPT ![w] = "run"] /\ job' = [job EXCEPT ![w] = c]
    BY <1>3 DEF LoopDispatch
  <2>2. tracked[c] /\ tracked' = [tracked EXCEPT ![c] = FALSE]
    BY <1>3 DEF LoopDispatch, StopTracking
  <2>3. w \in Workers /\ job'[w] = c /\ Busy(w)'
    BY <2>1 DEF FreeWorkers, WhoTypes, Busy
  <2>4. ASSUME NEW v \in Workers, Busy(v)', v # w
        PROVE  /\ Busy(v) /\ job'[v] = job[v] /\ job[v] \in Conns /\ job[v] # c
               /\ ~tracked[job[v]]
    BY <2>1, <2>2, <2>4 DEF WhoTypes, Owners, Referred, Busy
  <2>5. ASSUME NEW v \in Workers, Busy(v)' PROVE ~tracked'[job'[v]]
    BY <2>2, <2>3, <2>4, <2>5 DEF WhoTypes
  <2>6. ASSUME NEW v \in Workers, NEW u \in Workers, u # v, Busy(v)', Busy(u)'
        PROVE  job'[u] # job'[v]
    BY <2>3, <2>4, <2>6 DEF Owners
  <2>7. QED
    BY <2>5, <2>6 DEF Owners
<1>4. CASE BatchAccept
  <2>1. PICK a \in backlog : tracked' = [tracked EXCEPT ![a] = TRUE]
    BY <1>4 DEF BatchAccept
  <2>2. UNCHANGED workVars
    BY <1>4 DEF BatchAccept
  <2>3. \A v \in Workers : Busy(v) => job[v] # a /\ job[v] \in Conns
    BY DEF Referred, WhoTypes, Lingers, Busy
  <2>4. QED
    BY <2>1, <2>2, <2>3 DEF Owners, WhoTypes, Busy
<1>5. ASSUME UNCHANGED workVars, \A c \in Conns : tracked'[c] => tracked[c]
      PROVE  Owners'
  BY <1>5 DEF Owners, Referred, Busy
<1>6. CASE SelectorStep
  <2>1. ASSUME NEW c \in Conns, LoopStep(c), ~LoopDispatch(c) PROVE Owners'
    BY <1>5, <2>1 DEF LoopStep, LoopUntracked, LoopClose, CloseInline, LoopReceive, LoopBlock,
       LoopAnswer, WhoTypes
  <2>2. CASE DrainOp
    <3>1. Flow /\ UNCHANGED workVars
      BY <2>2, FlowNext DEF Next, SelectorStep, DrainOp
    <3>2. CASE UNCHANGED tracked
      BY <1>1, <3>1, <3>2
    <3>3. CASE ApplyTrack(Head(ops).conn)
      <4>1. UNCHANGED tracked \/ tracked' = [tracked EXCEPT ![Head(ops).conn] = FALSE]
        BY <3>3 DEF ApplyTrack
      <4>2. QED
        BY <1>5, <3>1, <4>1 DEF WhoTypes
    <3>4. QED
      BY <2>2, <3>2, <3>3 DEF DrainOp
  <2>3. CASE CleanupStale
    BY <1>5, <2>3 DEF CleanupStale
  <2>4. CASE DrainDone \/ Select \/ BatchWakeup \/ BatchAcceptFails \/ BatchConn \/ BatchDone
             \/ CheckBorrowed
    BY <1>1, <2>4 DEF DrainDone, Select, BatchWakeup, BatchAcceptFails, BatchConn, BatchDone,
       CheckBorrowed
  <2>5. QED
    BY <1>3, <1>4, <1>6, <2>1, <2>2, <2>3, <2>4 DEF SelectorStep
<1>7. CASE ShutdownStep
  <2>1. CASE ShutdownOp
    <3>1. tracked' = tracked \/ tracked' = [tracked EXCEPT ![Head(ops).conn] = FALSE]
      BY <2>1 DEF ShutdownOp
    <3>2. QED
      BY <1>5, <2>1, <3>1 DEF WhoTypes, ShutdownOp
  <2>2. CASE ShutdownBegins \/ ShutdownEnds
    BY <1>5, <2>2 DEF ShutdownBegins, ShutdownEnds
  <2>3. QED
    BY <1>7, <2>1, <2>2 DEF ShutdownStep
<1>8. CASE PostCleanup \/ UNCHANGED vars \/ \E c \in Conns : ClientStep(c)
  BY <1>1, <1>8 DEF PostCleanup, ClientStep, ClientConnects, ClientSends, ClientCloses, TimePasses
<1>9. QED
  BY <1>2, <1>6, <1>7, <1>8 DEF Next

LEMMA BytesNext ==
  ASSUME WhoTypes, Bytes, [Next]_vars
  PROVE  Bytes'
<1> USE DEF vars, opVars, loopVars, workVars
<1> DEFINE Out == {"select", "batch", "loop", "dispatched"}
           Waking(v) == wpc[v] \in {"wake", "wake and end"}
<1>1. CASE UNCHANGED <<spc, ops, wakeup, wpc>>
  BY <1>1 DEF Bytes
<1>2. ASSUME NEW w \in Workers, WorkerStep(w) PROVE Bytes'
  <2>1. UNCHANGED spc /\ \A v \in Workers : v # w /\ Waking(v) => Waking(v)'
    BY <1>2, OwnWorker DEF WorkerStep, Respond, Abort, GiveBack, AppendTrack, Wake, ReturnAfter,
       RaiseAfter, CloseByWorker, AppendClose
  <2>2. CASE AppendTrack(w) \/ AppendClose(w)
    BY <2>2 DEF AppendTrack, AppendClose, Goto, Bytes, WhoTypes
  <2>3. CASE Wake(w)
    BY <2>1, <2>3 DEF Wake, Bytes
  <2>4. CASE Respond(w) \/ Abort(w) \/ GiveBack(w) \/ ReturnAfter(w) \/ RaiseAfter(w) \/ CloseByWorker(w)
    <3>1. UNCHANGED <<ops, wakeup>> /\ ~Waking(w)
      BY <2>4 DEF Respond, Abort, GiveBack, ReturnAfter, RaiseAfter, CloseByWorker
    <3>2. QED
      BY <2>1, <3>1 DEF Bytes
  <2>5. QED
    BY <1>2, <2>2, <2>3, <2>4 DEF WorkerStep
<1>3. ASSUME NEW c \in Conns, LoopStep(c) PROVE Bytes'
  <2>1. CASE LoopDispatch(c)
    <3>1. PICK w \in FreeWorkers : wpc' = [wpc EXCEPT ![w] = "run"]
      BY <2>1 DEF LoopDispatch
    <3>2. \A v \in Workers : Waking(v) => Waking(v)'
      BY <3>1 DEF FreeWorkers, WhoTypes
    <3>3. spc \in Out /\ UNCHANGED <<ops, wakeup>>
      BY <2>1 DEF LoopDispatch, InLoop
    <3>4. QED
      BY <3>2, <3>3 DEF Bytes
  <2>2. CASE ~LoopDispatch(c)
    BY <1>3, <2>2 DEF LoopStep, LoopUntracked, LoopClose, CloseInline, LoopReceive, LoopBlock,
       LoopAnswer, EndCallback, StayInLoop, InLoop, Bytes
  <2>3. QED
    BY <2>1, <2>2
<1>4. CASE SelectorStep /\ ~\E c \in Conns : LoopStep(c)
  <2>1. CASE DrainOp
    BY <2>1 DEF DrainOp, Bytes
  <2>2. CASE DrainDone \/ CleanupStale
    BY <2>2 DEF DrainDone, CleanupStale, Bytes
  <2>3. CASE Select \/ BatchAccept \/ BatchAcceptFails \/ BatchConn \/ CheckBorrowed
    BY <2>3 DEF Select, BatchAccept, BatchAcceptFails, BatchConn, CheckBorrowed, EndCallback, Bytes
  <2>4. CASE BatchWakeup \/ BatchDone
    BY <2>4 DEF BatchWakeup, BatchDone, Bytes
  <2>5. QED
    BY <1>4, <2>1, <2>2, <2>3, <2>4 DEF SelectorStep
<1>5. CASE PostCleanup \/ ShutdownStep
  BY <1>5 DEF PostCleanup, ShutdownStep, ShutdownBegins, ShutdownOp, ShutdownEnds, Bytes
<1>6. CASE \E c \in Conns : ClientStep(c)
  BY <1>1, <1>6 DEF ClientStep, ClientConnects, ClientSends, ClientCloses, TimePasses
<1>7. QED
  BY <1>1, <1>2, <1>3, <1>4, <1>5, <1>6 DEF Next

LEMMA OwnerInvNext ==
  ASSUME OwnerInv, [Next]_vars
  PROVE  OwnerInv'
  BY WhoTypesNext, ReferredNext, OwnersNext, BytesNext DEF OwnerInv

LEMMA OwnerInvariant == Spec => []OwnerInv
<1>1. OwnerInv /\ [Next]_vars => OwnerInv'
  BY OwnerInvNext
<1>2. QED
  BY OwnerInit, <1>1, PTL DEF Spec

-----------------------------------------------------------------------------
(***************************************************************************)
(* What was sent, read, worked on and answered.                            *)
(***************************************************************************)
LEMMA CountsInit == Init => Counts
  BY SelectorAssumption DEF Init, Counts, InWork

\* A step that is about sockets, keys and ops only.
LEMMA CountsFrame ==
  ASSUME Counts, UNCHANGED <<wire, chunks, fin, sweeps, close_at, overdue, idle, parser, buf, answered>>,
         got408' \in [Conns -> BOOLEAN], killed' \in [Conns -> BOOLEAN],
         \A w \in Workers : wpc'[w] = "run" => wpc[w] = "run" /\ job'[w] = job[w]
  PROVE  Counts'
  BY DEF Counts, InWork

LEMMA CountsLoop ==
  ASSUME OwnerInv, Counts, NEW c \in Conns, LoopStep(c)
  PROVE  Counts'
<1> USE DEF kernelVars, keyVars, opVars, loopVars, selVars, connVars, workVars, history
<1>0. /\ buf[c] \in Nat /\ wire[c] \in Nat /\ answered[c] \in Nat
      /\ 2 * answered[c] + 2 * InWork(c) + buf[c] + wire[c] <= chunks[c]
      /\ chunks[c] \in 0 .. MaxChunks
      /\ ~idle[c] /\ parser[c] = "idle" => buf[c] > 0
      /\ Between(c) => InWork(c) = 0
  BY DEF Counts, Between, InWork
<1>1. CASE LoopUntracked(c)
  BY <1>1, CountsFrame DEF LoopUntracked, Counts
<1>2. CASE LoopClose(c)
  BY <1>2, CountsFrame DEF LoopClose, CloseInline, Counts
<1>3. ASSUME Between(c)
      PROVE  \A w \in Workers : wpc[w] = "run" =>
                job[w] \in Conns /\ job[w] # c /\ parser[job[w]] = "request"
  BY <1>3 DEF Counts, Between, OwnerInv, Referred
<1>4. CASE LoopReceive(c)
  <2>1. /\ Between(c) /\ wire[c] > 0
        /\ parser' = [parser EXCEPT ![c] = "idle"]
        /\ buf' = [buf EXCEPT ![c] = @ + wire[c]] /\ wire' = [wire EXCEPT ![c] = 0]
        /\ idle' = [idle EXCEPT ![c] = FALSE]
        /\ close_at' = [close_at EXCEPT ![c] = "rw_timeout"]
        /\ overdue' = [overdue EXCEPT ![c] = FALSE]
        /\ UNCHANGED <<fin, chunks, sweeps, answered, got408, killed, wpc, job>>
    BY <1>4 DEF LoopReceive, ReadWire
  <2>2. \A w \in Workers : wpc[w] = "run" => parser'[job[w]] = "request"
    BY <1>3, <2>1 DEF Counts
  <2>3. InWork(c)' = 0 /\ \A d \in Conns : d # c => InWork(d)' = InWork(d)
    BY <2>1 DEF InWork, Counts
  <2>4. \A d \in Conns :
          /\ 2 * answered'[d] + 2 * InWork(d)' + buf'[d] + wire'[d] <= chunks'[d]
          /\ ~idle'[d] /\ parser'[d] = "idle" => buf'[d] > 0
    <3>1. ASSUME NEW d \in Conns, d # c
          PROVE  /\ 2 * answered'[d] + 2 * InWork(d)' + buf'[d] + wire'[d] <= chunks'[d]
                 /\ ~idle'[d] /\ parser'[d] = "idle" => buf'[d] > 0
      BY <2>1, <2>3, <3>1 DEF Counts
    <3>2. buf'[c] = buf[c] + wire[c] /\ wire'[c] = 0
      BY <2>1 DEF Counts
    <3>3. QED
      BY <1>0, <2>1, <2>3, <3>1, <3>2
  <2>5. QED
    BY <1>0, <2>1, <2>2, <2>4 DEF Counts
<1>5. CASE LoopBlock(c)
  <2>1. /\ Between(c)
        /\ parser' = [parser EXCEPT ![c] = "idle"] /\ StartNextCycle(c)
        /\ UNCHANGED <<wire, buf, fin, chunks, sweeps, answered, got408, killed, wpc, job>>
    BY <1>5 DEF LoopBlock, EndCallback
  <2>2. \A w \in Workers : wpc[w] = "run" => parser'[job[w]] = "request"
    BY <1>3, <2>1 DEF Counts
  <2>3. InWork(c)' = 0 /\ \A d \in Conns : d # c => InWork(d)' = InWork(d)
    BY <2>1 DEF InWork, Counts
  <2>4. /\ close_at' \in [Conns -> {"none", "keep_alive", "rw_timeout"}]
        /\ overdue' \in [Conns -> BOOLEAN] /\ idle' \in [Conns -> BOOLEAN]
        /\ \A d \in Conns : d # c => idle'[d] = idle[d]
        /\ ~idle'[c] => ~idle[c] /\ parser[c] = "idle"
    BY <2>1, ZenonT(60) DEF StartNextCycle, Counts, Between
  <2>5. \A d \in Conns :
          /\ 2 * answered'[d] + 2 * InWork(d)' + buf'[d] + wire'[d] <= chunks'[d]
          /\ ~idle'[d] /\ parser'[d] = "idle" => buf'[d] > 0
    <3>1. ASSUME NEW d \in Conns, d # c
          PROVE  /\ 2 * answered'[d] + 2 * InWork(d)' + buf'[d] + wire'[d] <= chunks'[d]
                 /\ ~idle'[d] /\ parser'[d] = "idle" => buf'[d] > 0
      BY <2>1, <2>3, <2>4, <3>1 DEF Counts
    <3>2. QED
      BY <1>0, <2>1, <2>3, <2>4, <3>1
  <2>6. QED
    BY <2>1, <2>2, <2>4, <2>5 DEF Counts
<1>6. CASE LoopDispatch(c)
  <2>1. /\ Between(c) /\ buf[c] >= 2 /\ tracked[c]
        /\ parser' = [parser EXCEPT ![c] = "request"] /\ StartNextCycle(c)
        /\ buf' = [buf EXCEPT ![c] = @ - 2]
        /\ UNCHANGED <<wire, fin, chunks, sweeps, answered, got408, killed>>
    BY <1>6 DEF LoopDispatch, TakeRequest
  <2>2. PICK u \in FreeWorkers : wpc' = [wpc EXCEPT ![u] = "run"] /\ job' = [job EXCEPT ![u] = c]
    BY <1>6 DEF LoopDispatch
  <2>3. \A w \in Workers : wpc'[w] = "run" => parser'[job'[w]] = "request"
    <3>1. /\ u \in Workers /\ wpc'[u] = "run" /\ job'[u] = c /\ parser'[c] = "request"
          /\ \A w \in Workers : w # u => wpc'[w] = wpc[w] /\ job'[w] = job[w]
      BY <2>1, <2>2 DEF FreeWorkers, OwnerInv, WhoTypes, Counts
    <3>2. \A w \in Workers : wpc[w] = "run" => parser[job[w]] = "request" /\ job[w] \in Conns
      BY DEF OwnerInv, Referred, Counts
    <3>3. \A d \in Conns : parser[d] = "request" => parser'[d] = "request"
      BY <2>1 DEF Counts
    <3>4. QED
      BY <3>1, <3>2, <3>3
  <2>4. InWork(c)' = 1 /\ \A d \in Conns : d # c => InWork(d)' = InWork(d)
    BY <2>1 DEF InWork, Counts
  <2>5. /\ close_at' \in [Conns -> {"none", "keep_alive", "rw_timeout"}]
        /\ overdue' \in [Conns -> BOOLEAN] /\ idle' \in [Conns -> BOOLEAN]
        /\ \A d \in Conns : d # c => idle'[d] = idle[d]
    BY <2>1 DEF StartNextCycle, Counts
  <2>6. /\ buf'[c] = buf[c] - 2 /\ \A d \in Conns : d # c => buf'[d] = buf[d]
        /\ buf' \in [Conns -> Nat]
    BY <1>0, <2>1 DEF Counts
  <2>7. \A d \in Conns :
          /\ 2 * answered'[d] + 2 * InWork(d)' + buf'[d] + wire'[d] <= chunks'[d]
          /\ ~idle'[d] /\ parser'[d] = "idle" => buf'[d] > 0
    <3>1. ASSUME NEW d \in Conns, d # c
          PROVE  /\ 2 * answered'[d] + 2 * InWork(d)' + buf'[d] + wire'[d] <= chunks'[d]
                 /\ ~idle'[d] /\ parser'[d] = "idle" => buf'[d] > 0
      BY <2>1, <2>4, <2>5, <2>6, <3>1 DEF Counts
    <3>2. parser'[c] = "request"
      BY <2>1 DEF Counts
    <3>3. QED
      BY <1>0, <2>1, <2>4, <2>6, <3>1, <3>2
  <2>8. QED
    BY <2>1, <2>3, <2>5, <2>6, <2>7 DEF Counts
<1>7. CASE LoopAnswer(c)
  <2>1. /\ Between(c) /\ buf[c] >= 2 /\ StartNextCycle(c)
        /\ buf' = [buf EXCEPT ![c] = @ - 2] /\ answered' = [answered EXCEPT ![c] = @ + 1]
        /\ UNCHANGED <<wire, fin, chunks, sweeps, got408, killed, wpc, job>>
    BY <1>7 DEF LoopAnswer, TakeRequest, StayInLoop
  <2>2. PICK p \in {"done", "must_close"} : parser' = [parser EXCEPT ![c] = p]
    BY <1>7 DEF LoopAnswer
  <2>3. \A w \in Workers : wpc[w] = "run" => parser'[job[w]] = "request"
    BY <1>3, <2>1, <2>2 DEF Counts
  <2>4. InWork(c)' = 0 /\ \A d \in Conns : d # c => InWork(d)' = InWork(d)
    BY <2>2 DEF InWork, Counts
  <2>5. /\ close_at' \in [Conns -> {"none", "keep_alive", "rw_timeout"}]
        /\ overdue' \in [Conns -> BOOLEAN] /\ idle' \in [Conns -> BOOLEAN]
        /\ \A d \in Conns : d # c => idle'[d] = idle[d]
    BY <2>1, ZenonT(60) DEF StartNextCycle, Counts
  <2>6. /\ buf'[c] = buf[c] - 2 /\ \A d \in Conns : d # c => buf'[d] = buf[d]
        /\ answered'[c] = answered[c] + 1 /\ \A d \in Conns : d # c => answered'[d] = answered[d]
        /\ buf' \in [Conns -> Nat] /\ answered' \in [Conns -> Nat]
    BY <1>0, <2>1 DEF Counts
  <2>7. \A d \in Conns :
          /\ 2 * answered'[d] + 2 * InWork(d)' + buf'[d] + wire'[d] <= chunks'[d]
          /\ ~idle'[d] /\ parser'[d] = "idle" => buf'[d] > 0
    <3>1. ASSUME NEW d \in Conns, d # c
          PROVE  /\ 2 * answered'[d] + 2 * InWork(d)' + buf'[d] + wire'[d] <= chunks'[d]
                 /\ ~idle'[d] /\ parser'[d] = "idle" => buf'[d] > 0
      BY <2>1, <2>2, <2>4, <2>5, <2>6, <3>1 DEF Counts
    <3>2. parser'[c] # "idle"
      BY <2>2 DEF Counts
    <3>3. QED
      BY <1>0, <2>1, <2>4, <2>6, <3>1, <3>2
  <2>8. QED
    BY <2>1, <2>2, <2>3, <2>5, <2>6, <2>7 DEF Counts
<1>8. QED
  BY <1>1, <1>2, <1>4, <1>5, <1>6, <1>7 DEF LoopStep

LEMMA CountsNext ==
  ASSUME OwnerInv, Counts, [Next]_vars
  PROVE  Counts'
<1> USE DEF kernelVars, keyVars, opVars, loopVars, selVars, connVars, workVars, history
<1>1. ASSUME NEW c \in Conns, LoopStep(c) PROVE Counts'
  BY <1>1, CountsLoop
<1>2. CASE CleanupStale
  BY <1>2, CountsFrame DEF CleanupStale
<1>3. CASE SelectorStep /\ ~CleanupStale /\ ~\E c \in Conns : LoopStep(c)
  <2>1. UNCHANGED <<wire, chunks, fin, sweeps, close_at, overdue, idle, parser, buf, answered,
                    got408, killed, wpc, job>>
    BY <1>3 DEF SelectorStep, DrainOp, DrainDone, Select, BatchWakeup,
       BatchAccept, BatchAcceptFails, BatchConn, BatchDone, CheckBorrowed
  <2>2. QED
    BY <2>1, CountsFrame DEF Counts
<1>4. CASE PostCleanup
  BY <1>4, SelectorAssumption DEF PostCleanup, Counts, InWork
<1>5. CASE ShutdownStep \/ UNCHANGED vars
  <2>1. UNCHANGED <<wire, chunks, fin, sweeps, close_at, overdue, idle, parser, buf, answered,
                    got408, killed, wpc, job>>
    BY <1>5 DEF ShutdownStep, ShutdownBegins, ShutdownOp, ShutdownEnds, vars
  <2>2. QED
    BY <2>1, CountsFrame DEF Counts
<1>6. ASSUME NEW c \in Conns, ClientStep(c) PROVE Counts'
  <2>1. CASE ClientConnects(c)
    BY <2>1, CountsFrame DEF ClientConnects, Counts
  <2>2. CASE ClientSends(c)
    <3>1. /\ chunks[c] < MaxChunks
          /\ wire' = [wire EXCEPT ![c] = @ + 1] /\ chunks' = [chunks EXCEPT ![c] = @ + 1]
          /\ UNCHANGED <<fin, sweeps, close_at, overdue, idle, parser, buf, answered,
                         got408, killed, wpc, job>>
      BY <2>2 DEF ClientSends
    <3>2. \A d \in Conns : InWork(d)' = InWork(d)
      BY <3>1 DEF InWork
    <3>3. /\ wire' \in [Conns -> Nat] /\ chunks' \in [Conns -> 0 .. MaxChunks]
          /\ \A d \in Conns : wire'[d] - wire[d] = chunks'[d] - chunks[d]
      BY <3>1, SelectorAssumption DEF Counts
    <3>4. \A d \in Conns : 2 * answered[d] + 2 * InWork(d) + buf[d] + wire'[d] <= chunks'[d]
      <4>1. ASSUME NEW d \in Conns
            PROVE  2 * answered[d] + 2 * InWork(d) + buf[d] + wire'[d] <= chunks'[d]
        <5>1. /\ answered[d] \in Nat /\ InWork(d) \in Nat /\ buf[d] \in Nat /\ wire[d] \in Nat
              /\ chunks[d] \in Nat /\ wire'[d] \in Nat /\ chunks'[d] \in Nat
              /\ wire'[d] - wire[d] = chunks'[d] - chunks[d]
              /\ 2 * answered[d] + 2 * InWork(d) + buf[d] + wire[d] <= chunks[d]
          BY <3>3 DEF Counts, InWork
        <5>2. QED
          BY <5>1
      <4>2. QED
        BY <4>1
    <3>5. QED
      BY <3>1, <3>2, <3>3, <3>4 DEF Counts
  <2>3. CASE ClientCloses(c) \/ TimePasses(c)
    BY <2>3 DEF ClientCloses, TimePasses, Counts, InWork
  <2>4. QED
    BY <1>6, <2>1, <2>2, <2>3 DEF ClientStep
<1>7. ASSUME NEW w \in Workers, WorkerStep(w) PROVE Counts'
  <2>1. CASE Respond(w)
    <3>1. PICK c \in Conns : c = job[w] /\ parser[c] = "request"
      BY <2>1 DEF Respond, Counts, OwnerInv, Referred
    <3>2. PICK p \in {"done", "must_close"} : parser' = [parser EXCEPT ![c] = p]
      BY <2>1, <3>1 DEF Respond
    <3>3. /\ answered' = [answered EXCEPT ![c] = @ + 1] /\ wpc' = [wpc EXCEPT ![w] = "give back"]
          /\ UNCHANGED <<wire, chunks, fin, sweeps, close_at, overdue, idle, buf, got408, killed, job>>
      BY <2>1, <3>1 DEF Respond, Goto
    <3>4. \A v \in Workers \ {w} : wpc[v] = "run" => job[v] # c
      BY <2>1, <3>1 DEF Respond, OwnerInv, Owners, Busy
    <3>5. /\ answered'[c] = answered[c] + 1 /\ \A d \in Conns : d # c => answered'[d] = answered[d]
          /\ answered' \in [Conns -> Nat]
      <4>1. answered \in [Conns -> Nat]
        BY DEF Counts
      <4>2. answered' = [answered EXCEPT ![c] = @ + 1]
        BY <3>3
      <4>3. answered[c] + 1 \in Nat
        BY <4>1
      <4>4. QED
        BY <4>1, <4>2, <4>3
    <3>6. /\ parser' \in [Conns -> {"idle", "request", "done", "must_close"}]
          /\ parser'[c] \in {"done", "must_close"} /\ \A d \in Conns : d # c => parser'[d] = parser[d]
          /\ InWork(c) = 1 /\ InWork(c)' = 0 /\ \A d \in Conns : d # c => InWork(d)' = InWork(d)
      <4>1. /\ parser' \in [Conns -> {"idle", "request", "done", "must_close"}]
            /\ parser'[c] = p /\ \A d \in Conns : d # c => parser'[d] = parser[d]
        BY <3>2 DEF Counts
      <4>2. QED
        BY <3>1, <4>1 DEF InWork
    <3>9. ASSUME NEW v \in Workers, wpc'[v] = "run" PROVE parser'[job'[v]] = "request"
      <4>1. v # w /\ wpc[v] = "run" /\ job'[v] = job[v] /\ job[v] \in Conns
        BY <3>3, <3>9 DEF OwnerInv, WhoTypes, Referred
      <4>2. QED
        BY <3>4, <3>6, <4>1 DEF Counts
    <3>7. \A d \in Conns :
            /\ 2 * answered'[d] + 2 * InWork(d)' + buf'[d] + wire'[d] <= chunks'[d]
            /\ ~idle'[d] /\ parser'[d] = "idle" => buf'[d] > 0
      <4>1. ASSUME NEW d \in Conns, d # c
            PROVE  /\ 2 * answered'[d] + 2 * InWork(d)' + buf'[d] + wire'[d] <= chunks'[d]
                   /\ ~idle'[d] /\ parser'[d] = "idle" => buf'[d] > 0
        BY <3>3, <3>5, <3>6, <4>1 DEF Counts
      <4>2. /\ buf[c] \in Nat /\ wire[c] \in Nat /\ answered[c] \in Nat /\ chunks[c] \in Nat
            /\ 2 * answered[c] + 2 * InWork(c) + buf[c] + wire[c] <= chunks[c]
        BY <3>1 DEF Counts
      <4>3. /\ 2 * answered'[c] + 2 * InWork(c)' + buf'[c] + wire'[c] <= chunks'[c]
            /\ ~idle'[c] /\ parser'[c] = "idle" => buf'[c] > 0
        <5>1. /\ answered'[c] = answered[c] + 1 /\ InWork(c) = 1 /\ InWork(c)' = 0
              /\ buf'[c] = buf[c] /\ wire'[c] = wire[c] /\ chunks'[c] = chunks[c]
              /\ parser'[c] # "idle"
          BY <3>3, <3>5, <3>6
        <5>2. QED
          BY <4>2, <5>1
      <4>4. QED
        BY <4>1, <4>3
    <3>8. QED
      BY <3>3, <3>5, <3>6, <3>7, <3>9 DEF Counts
  <2>2. CASE ~Respond(w)
    <3>1. \A v \in Workers : wpc'[v] = "run" => wpc[v] = "run" /\ job'[v] = job[v]
      BY <1>7, <2>2, OwnWorker DEF OwnerInv, Busy
    <3>2. CASE CloseByWorker(w)
      BY <3>1, <3>2, CountsFrame DEF CloseByWorker, Counts
    <3>3. CASE ~CloseByWorker(w)
      <4>1. UNCHANGED <<wire, chunks, fin, sweeps, close_at, overdue, idle, parser, buf, answered,
                        got408, killed>>
        BY <1>7, <2>2, <3>3 DEF WorkerStep, Abort, GiveBack, AppendTrack, Wake, ReturnAfter,
           RaiseAfter, AppendClose
      <4>2. QED
        BY <3>1, <4>1, CountsFrame DEF Counts
    <3>4. QED
      BY <3>2, <3>3
  <2>3. QED
    BY <2>1, <2>2
<1>8. QED
  BY <1>1, <1>2, <1>3, <1>4, <1>5, <1>6, <1>7 DEF Next

LEMMA CountsInvariant == Spec => [](OwnerInv /\ Counts)
<1>1. OwnerInv /\ Counts /\ [Next]_vars => (OwnerInv /\ Counts)'
  BY OwnerInvNext, CountsNext
<1>2. QED
  BY OwnerInit, CountsInit, <1>1, PTL DEF Spec

LEMMA CountsBound ==
  ASSUME Counts, NEW c \in Conns
  PROVE  /\ wire[c] \in 0 .. MaxChunks /\ buf[c] \in 0 .. MaxChunks
         /\ answered[c] \in Nat /\ chunks[c] \in Nat
         /\ 2 * answered[c] <= chunks[c] - wire[c] - buf[c]
<1>1. /\ wire[c] \in Nat /\ buf[c] \in Nat /\ answered[c] \in Nat /\ chunks[c] \in 0 .. MaxChunks
      /\ InWork(c) \in Nat
      /\ 2 * answered[c] + 2 * InWork(c) + buf[c] + wire[c] <= chunks[c]
  BY DEF Counts, InWork
<1>2. QED
  BY <1>1, SelectorAssumption

LEMMA TypesFollow == OwnerInv /\ Counts => TypeOK
<1> SUFFICES ASSUME OwnerInv, Counts PROVE TypeOK
  OBVIOUS
<1>1. wire \in [Conns -> 0 .. MaxChunks] /\ buf \in [Conns -> 0 .. MaxChunks]
  BY CountsBound DEF Counts
<1>2. QED
  BY <1>1 DEF OwnerInv, WhoTypes, Counts, TypeOK

LEMMA OwnersFollow == OwnerInv => OneOwner /\ NoLostWakeup
  BY DEF OwnerInv, Owners, Busy, OneOwner, Bytes, NoLostWakeup

\* Every parser has one owner and no op is slept on, whatever the clients, the
\* workers and the sweeps do, and however descriptors are reused (track,
\* stop_tracking, _maybe_give_back, _wake).
THEOREM OneOwnerAndNoLostWakeup == Spec => [](TypeOK /\ OneOwner /\ NoLostWakeup)
<1>1. OwnerInv /\ Counts => TypeOK /\ OneOwner /\ NoLostWakeup
  BY TypesFollow, OwnersFollow
<1>2. QED
  BY CountsInvariant, <1>1, PTL

\* A 408 interrupts neither a response nor a wait between two requests
\* (emit_stale_408 called by _cleanup_stale).
THEOREM NoStray408 == Spec => Only408WhenStalled
<1> DEFINE Polite == \A c \in Conns : got408'[c] /\ ~got408[c] =>
                        buf[c] > 0 /\ c \notin Borrowed /\ 2 * answered[c] < chunks[c]
<1>1. ASSUME OwnerInv, Counts, [Next]_vars PROVE Polite \/ UNCHANGED vars
  <2> USE DEF kernelVars, keyVars, opVars, loopVars, selVars, connVars, workVars, history
  <2>1. CASE CleanupStale
    <3> SUFFICES ASSUME NEW c \in Conns, got408'[c], ~got408[c]
                 PROVE  buf[c] > 0 /\ c \notin Borrowed /\ 2 * answered[c] < chunks[c]
      OBVIOUS
    <3>1. ~idle[c] /\ parser[c] = "idle"
      BY <2>1 DEF CleanupStale, Stalled
    <3>2. buf[c] > 0 /\ \A w \in Workers : wpc[w] = "run" => job[w] # c
      BY <1>1, <3>1 DEF Counts
    <3>3. /\ wire[c] \in Nat /\ buf[c] \in Nat /\ answered[c] \in Nat /\ chunks[c] \in Nat
          /\ 2 * answered[c] <= chunks[c] - wire[c] - buf[c]
      BY <1>1, CountsBound
    <3>4. QED
      BY <3>2, <3>3 DEF Borrowed
  <2>2. CASE SelectorStep /\ ~CleanupStale
    <3>1. ASSUME NEW c \in Conns, LoopStep(c) PROVE UNCHANGED got408
      BY <3>1 DEF LoopStep, LoopUntracked, LoopClose, LoopReceive, LoopBlock, LoopDispatch, LoopAnswer
    <3>2. UNCHANGED got408
      BY <2>2, <3>1 DEF SelectorStep, DrainOp, DrainDone, Select, BatchWakeup, BatchAccept,
         BatchAcceptFails, BatchConn, BatchDone, CheckBorrowed
    <3>3. QED
      BY <3>2
  <2>3. ASSUME NEW w \in Workers, WorkerStep(w) PROVE UNCHANGED got408
    BY <2>3 DEF WorkerStep, Respond, Abort, GiveBack, AppendTrack, Wake, ReturnAfter,
       RaiseAfter, CloseByWorker, AppendClose
  <2>4. CASE PostCleanup \/ ShutdownStep \/ \E c \in Conns : ClientStep(c)
    <3>1. UNCHANGED got408
      BY <2>4 DEF PostCleanup, ShutdownStep, ShutdownBegins, ShutdownOp, ShutdownEnds,
         ClientStep, ClientConnects, ClientSends, ClientCloses, TimePasses
    <3>2. QED
      BY <3>1
  <2>5. QED
    BY <1>1, <2>1, <2>2, <2>3, <2>4 DEF Next
<1>2. (OwnerInv /\ Counts) /\ [Next]_vars => [Polite]_vars
  BY <1>1
<1>3. QED
  BY CountsInvariant, <1>2, PTL DEF Spec, Only408WhenStalled

-----------------------------------------------------------------------------
(***************************************************************************)
(* No connection is forgotten, as long as descriptors are not reused too   *)
(* early.                                                                  *)
(***************************************************************************)
LEMMA OnlyAcceptOpens ==
  ASSUME WhoTypes, [Next]_vars, ~BatchAccept
  PROVE  \A c \in Conns : sock'[c] = sock[c] \/ sock'[c] = "closed"
<1> USE DEF vars, kernelVars, WhoTypes
<1>1. \A cs : \A c \in Conns : sock' = CloseSocks(cs) => sock'[c] = sock[c] \/ sock'[c] = "closed"
  BY DEF CloseSocks
<1>2. CASE UNCHANGED sock
  BY <1>2
<1>3. ASSUME NEW c \in Conns, LoopStep(c)
      PROVE  \A d \in Conns : sock'[d] = sock[d] \/ sock'[d] = "closed"
  BY <1>1, <1>3 DEF LoopStep, LoopUntracked, LoopClose, CloseInline, LoopReceive, LoopBlock,
     LoopDispatch, LoopAnswer
<1>4. CASE SelectorStep /\ ~\E c \in Conns : LoopStep(c)
  <2>1. CASE DrainOp
    <3>1. UNCHANGED sock \/ \E cs : sock' = CloseSocks(cs)
      BY <2>1 DEF DrainOp, ApplyTrack
    <3>2. QED
      BY <1>1, <1>2, <3>1
  <2>2. CASE CleanupStale
    BY <1>1, <2>2 DEF CleanupStale
  <2>3. QED
    BY <1>2, <1>4, <2>1, <2>2 DEF SelectorStep, DrainDone, Select, BatchWakeup,
       BatchAcceptFails, BatchConn, BatchDone, CheckBorrowed
<1>5. ASSUME NEW w \in Workers, WorkerStep(w)
      PROVE  \A c \in Conns : sock'[c] = sock[c] \/ sock'[c] = "closed"
  BY <1>1, <1>5 DEF WorkerStep, Respond, Abort, GiveBack, AppendTrack, Wake, ReturnAfter,
     RaiseAfter, CloseByWorker, AppendClose
<1>6. CASE ShutdownStep
  <2>1. UNCHANGED sock \/ \E cs : sock' = CloseSocks(cs)
    BY <1>6 DEF ShutdownStep, ShutdownBegins, ShutdownOp, ShutdownEnds
  <2>2. QED
    BY <1>1, <1>2, <2>1
<1>7. CASE PostCleanup \/ UNCHANGED vars \/ \E c \in Conns : ClientStep(c)
  BY <1>2, <1>7 DEF PostCleanup, ClientStep, ClientConnects, ClientSends, ClientCloses, TimePasses
<1>8. QED
  BY <1>3, <1>4, <1>5, <1>6, <1>7 DEF Next

LEMMA KeyTypes ==
  ASSUME WhoTypes
  PROVE  \A f \in Fds : InMap(f) => keys[f].data \in Conns /\ keys[f].obj \in Conns
  BY DEF WhoTypes, InMap

\* Whoever still has a socket's key has that socket.
LEMMA KeysLead ==
  ASSUME WhoTypes, Referred, Fresh, NEW c \in Opened, InMap(fd[c])
  PROVE  keys[fd[c]].data = c /\ keys[fd[c]].obj = c
<1> DEFINE x == keys[fd[c]].data
<1>1. x \in Conns /\ Lingers(x) /\ fd[x] = fd[c] /\ keys[fd[c]].obj = x
  <2>1. fd[c] \in Fds /\ keys[fd[c]] # NoKey
    BY DEF InMap
  <2>2. x \in Conns /\ Lingers(x)
    BY <2>1 DEF WhoTypes, Lingers
  <2>3. keys[fd[c]].obj = x /\ fd[x] = fd[c]
    BY <2>1 DEF Fresh
  <2>4. QED
    BY <2>2, <2>3
<1>2. c \in Conns /\ sock[x] \in {"none", "open", "closed"}
  BY <1>1 DEF Opened, WhoTypes
<1> HIDE DEF x
<1>3. sock[x] # "none"
  BY <1>1 DEF Referred
<1>4. sock[x] # "closed"
  BY <1>1, <1>2 DEF Fresh
<1>5. x \in Opened
  BY <1>1, <1>2, <1>3, <1>4 DEF Opened
<1>6. x = c
  BY <1>1, <1>5 DEF Fresh
<1>7. QED
  BY <1>1, <1>6 DEF x

\* What KeyFd finds is the descriptor, or nothing.
LEMMA KeyFdIsFd ==
  ASSUME WhoTypes, Referred, Fresh, NEW c \in Conns
  PROVE  KeyFd(c) \in Fds => /\ KeyFd(c) = fd[c]
                             /\ sock[c] # "open" => InMap(fd[c]) /\ keys[fd[c]].data = c
<1>1. CASE sock[c] = "open"
  BY <1>1, KeyFdFinds
<1>2. CASE sock[c] # "open"
  <2>1. KeyFd(c) = NoFd \/ (KeyFd(c) \in Fds /\ InMap(KeyFd(c)) /\ keys[KeyFd(c)].obj = c)
    BY <1>2, KeyFdFinds
  <2>2. ASSUME NEW k \in Fds, InMap(k), keys[k].obj = c
        PROVE  k = fd[c] /\ InMap(fd[c]) /\ keys[fd[c]].data = c
    <3>1. keys[k].data = keys[k].obj /\ fd[keys[k].data] = k
      BY <2>2 DEF Fresh
    <3>2. keys[k].data = c
      BY <2>2, <3>1
    <3>3. k = fd[c]
      BY <3>1, <3>2
    <3>4. QED
      BY <2>2, <3>2, <3>3
  <2>3. QED
    BY <2>1, <2>2, SelectorAssumption
<1>3. QED
  BY <1>1, <1>2

\* The key of an open connection, as register files it.
OwnKey(f) == \E d \in Opened : keys[f].obj = d /\ keys[f].data = d /\ fd[d] = f /\ f \in watched

\* A step that opens nothing and adds no key but an open connection's own.
LEMMA FreshFrame ==
  ASSUME WhoTypes, Referred, Fresh, Flow,
         \A c \in Conns : sock'[c] = sock[c] \/ sock'[c] = "closed",
         \A f \in Fds : InMap(f)' => (InMap(f) /\ keys'[f] = keys[f]) \/ OwnKey(f)',
         \A c \in Opened : c \in Opened' /\ InMap(fd[c])' /\ fd[c] \in watched => fd[c] \in watched',
         \A c \in Opened : In(OpClose(fd[c]), ops') => In(OpClose(fd[c]), ops),
         \A w \in Workers : wpc'[w] = "append close" =>
             (wpc[w] = "append close" /\ job'[w] = job[w]) \/ sock'[job'[w]] = "closed"
  PROVE  Fresh'
<1>1. Opened' \subseteq Opened /\ \A c \in Conns : ~Accepted(c)
  BY DEF Opened, Accepted
<1>2. \A c \in Conns : fd'[c] = fd[c] /\ (Lingers(c)' => Lingers(c))
  BY <1>1 DEF Flow
<1>3. \A c \in Opened' : c \in Opened /\ c \in Conns /\ fd'[c] = fd[c]
  <2>1. \A c \in Opened : c \in Conns
    BY DEF Opened
  <2>2. QED
    BY <1>1, <1>2, <2>1
<1>4. (\A c, d \in Opened : fd[c] = fd[d] => c = d)'
  BY <1>3 DEF Fresh
<1>5. (\A f \in Fds : InMap(f) => keys[f].obj = keys[f].data /\ fd[keys[f].data] = f)'
  <2>1. \A f \in Fds : InMap(f) => keys[f].data \in Conns
    BY KeyTypes
  <2>2. ASSUME NEW f \in Fds, InMap(f)'
        PROVE  keys'[f].obj = keys'[f].data /\ fd'[keys'[f].data] = f
    <3>1. CASE InMap(f) /\ keys'[f] = keys[f]
      <4>1. keys[f].obj = keys[f].data /\ fd[keys[f].data] = f
        BY <3>1 DEF Fresh
      <4>2. fd'[keys[f].data] = f
        BY <1>2, <2>1, <3>1, <4>1
      <4>3. QED
        BY <3>1, <4>1, <4>2
    <3>2. CASE OwnKey(f)'
      BY <3>2 DEF OwnKey
    <3>3. QED
      BY <2>2, <3>1, <3>2
  <2>3. QED
    BY <2>2
<1>6. (\A c \in Opened : InMap(fd[c]) => fd[c] \in watched)'
  <2>1. ASSUME NEW c \in Opened', InMap(fd[c])' PROVE fd'[c] \in watched'
    <3>1. c \in Opened /\ fd'[c] = fd[c] /\ fd[c] \in Fds
      BY <1>3 DEF Opened, Referred
    <3>2. InMap(fd[c])'
      BY <2>1, <3>1 DEF InMap
    <3>3. InMap(fd[c]) => fd[c] \in watched
      BY <3>1 DEF Fresh
    <3>4. OwnKey(fd[c])' => fd[c] \in watched'
      BY <3>1 DEF OwnKey
    <3>5. QED
      BY <2>1, <3>1, <3>2, <3>3, <3>4
  <2>2. QED
    BY <2>1
<1>7. ASSUME NEW c \in Opened', NEW d \in Conns, fd'[c] = fd'[d], sock'[d] = "closed"
      PROVE  ~Lingers(d)'
  <2>1. c \in Opened /\ c \in Conns /\ fd[c] = fd[d] /\ sock[c] = "open" /\ sock'[c] = "open"
    BY <1>2, <1>3, <1>7 DEF Opened
  <2>2. CASE sock[d] = "open"
    <3>1. c = d
      BY <2>1, <2>2 DEF Fresh, Opened
    <3>2. QED
      BY <1>7, <2>1, <3>1
  <2>3. CASE sock[d] = "closed"
    BY <1>2, <2>1, <2>3 DEF Fresh
  <2>4. CASE sock[d] = "none"
    BY <1>2, <2>4 DEF Referred
  <2>5. QED
    BY <2>2, <2>3, <2>4 DEF WhoTypes
<1>8. \A c \in Opened' : ~In(OpClose(fd'[c]), ops')
  BY <1>3 DEF Fresh
<1>9. ASSUME NEW w \in Workers, wpc'[w] = "append close" PROVE sock'[job'[w]] = "closed"
  <2>1. CASE wpc[w] = "append close" /\ job'[w] = job[w]
    <3>1. job[w] \in Conns /\ sock[job[w]] = "closed"
      BY <2>1 DEF Fresh, Referred
    <3>2. QED
      BY <2>1, <3>1
  <2>2. QED
    BY <1>9, <2>1
<1>10. QED
  BY <1>4, <1>5, <1>6, <1>7, <1>8, <1>9 DEF Fresh

\* Steps that are not about sockets, keys, ops or workers.
LEMMA QuietKeeps ==
  ASSUME WhoTypes, Referred, Fresh, Kept, Flow,
         UNCHANGED <<sock, keys, watched, ops, tracked, wpc, job>>,
         spc' = "down" <=> spc = "down"
  PROVE  Fresh' /\ Kept'
<1>1. Opened' = Opened /\ \A c \in Conns : fd'[c] = fd[c]
  BY DEF Opened, Flow, Accepted
<1>2. Fresh'
  BY FreshFrame DEF InMap
<1>3. \A c \in Conns : Watched(c)' = Watched(c)
  BY <1>1 DEF Watched, InMap
<1>4. \A c \in Conns : Queued(c)' = Queued(c)
  BY DEF Queued
<1>5. \A c \in Opened : c \in Conns
  BY DEF Opened
<1>6. Kept'
  <2>1. ASSUME NEW c \in Opened', tracked'[c], spc' # "down"
        PROVE  Reached(c)'
    BY <1>1, <1>3, <1>4, <1>5, <2>1 DEF Kept, Reached
  <2>2. ASSUME NEW c \in Opened', ~tracked'[c]
        PROVE  Handled(c)'
    BY <1>1, <2>2 DEF Kept, Handled
  <2>3. QED
    BY <2>1, <2>2 DEF Kept
<1>7. QED
  BY <1>2, <1>6

LEMMA AcceptKeeps ==
  ASSUME WhoTypes, Referred, Fresh, Kept, Flow, BatchAccept, Late
  PROVE  Fresh' /\ Kept'
<1>1. PICK a \in backlog, f \in FreeFds :
         /\ sock' = [sock EXCEPT ![a] = "open"]
         /\ fd' = [fd EXCEPT ![a] = f]
         /\ tracked' = [tracked EXCEPT ![a] = TRUE]
         /\ keys' = [keys EXCEPT ![f] =
                       [obj |-> IF InMap(f) THEN keys[f].obj ELSE a, data |-> a]]
         /\ watched' = IF InMap(f) THEN watched ELSE watched \cup {f}
  BY DEF BatchAccept
<1>2. a \in Conns /\ f \in Fds /\ sock[a] = "none" /\ sock'[a] = "open" /\ fd'[a] = f
  <2>1. a \in Conns /\ f \in Fds
    BY DEF FreeFds, WhoTypes
  <2>2. QED
    BY <1>1, <2>1 DEF Referred, WhoTypes
<1>3. /\ \A d \in Conns : fd[d] = f => ~Lingers(d)
      /\ ~In(OpClose(f), ops)
  BY <1>2 DEF Late
<1>4. ~InMap(f)
  <2>1. ASSUME InMap(f) PROVE FALSE
    <3>1. keys[f].data \in Conns /\ Lingers(keys[f].data)
      BY <1>2, <2>1, KeyTypes DEF Lingers
    <3>2. fd[keys[f].data] = f
      BY <1>2, <2>1 DEF Fresh
    <3>3. QED
      BY <1>3, <3>1, <3>2
  <2>2. QED
    BY <2>1
<1>5. /\ keys'[f] = [obj |-> a, data |-> a] /\ \A g \in Fds : g # f => keys'[g] = keys[g]
      /\ watched' = watched \cup {f}
  BY <1>1, <1>2, <1>4 DEF WhoTypes
<1>6. UNCHANGED <<ops, spc, wpc, job>>
  BY DEF BatchAccept, opVars, workVars
<1>7. /\ a \in Opened' /\ \A c \in Opened' : c = a \/ c \in Opened
      /\ \A c \in Conns : c # a => fd'[c] = fd[c] /\ sock'[c] = sock[c] /\ tracked'[c] = tracked[c]
      /\ tracked'[a] /\ a \notin Opened
      /\ \A c \in Opened : c \in Conns /\ c # a /\ fd[c] # f /\ fd[c] \in Fds
      /\ \A c \in Conns : Lingers(c)' => Lingers(c) \/ c = a
  <2>1. \A c \in Conns : c # a => fd'[c] = fd[c] /\ sock'[c] = sock[c] /\ tracked'[c] = tracked[c]
    BY <1>1, <1>2 DEF WhoTypes
  <2>2. a \in Opened' /\ a \notin Opened /\ \A c \in Opened' : c = a \/ c \in Opened
    BY <1>2, <2>1 DEF Opened
  <2>3. \A c \in Opened : c \in Conns /\ c # a /\ fd[c] # f /\ fd[c] \in Fds
    BY <1>2 DEF Opened, FreeFds, Referred
  <2>4. tracked'[a]
    BY <1>1, <1>2 DEF WhoTypes
  <2>5. \A c \in Conns : Lingers(c)' => Lingers(c) \/ c = a
    BY <2>1 DEF Flow, Accepted
  <2>6. QED
    BY <2>1, <2>2, <2>3, <2>4, <2>5
<1>8. (\A c, d \in Opened : fd[c] = fd[d] => c = d)'
  <2>1. ASSUME NEW c \in Opened', NEW d \in Opened', fd'[c] = fd'[d] PROVE c = d
    <3>1. CASE c = a \/ d = a
      BY <1>2, <1>7, <2>1, <3>1
    <3>2. CASE c # a /\ d # a
      <4>1. c \in Opened /\ d \in Opened /\ fd[c] = fd[d]
        BY <1>7, <2>1, <3>2
      <4>2. QED
        BY <4>1 DEF Fresh
    <3>3. QED
      BY <3>1, <3>2
  <2>2. QED
    BY <2>1
<1>9. (\A g \in Fds : InMap(g) => keys[g].obj = keys[g].data /\ fd[keys[g].data] = g)'
  <2>1. ASSUME NEW g \in Fds, InMap(g)', g # f
        PROVE  keys'[g].obj = keys'[g].data /\ fd'[keys'[g].data] = g
    <3>1. InMap(g) /\ keys'[g] = keys[g]
      BY <1>5, <2>1 DEF InMap
    <3>2. keys[g].obj = keys[g].data /\ fd[keys[g].data] = g
      BY <3>1 DEF Fresh
    <3>3. keys[g].data \in Conns /\ Lingers(keys[g].data)
      BY <3>1, KeyTypes DEF Lingers
    <3>4. keys[g].data # a
      BY <1>2, <3>3 DEF Referred
    <3>5. QED
      BY <1>7, <3>1, <3>2, <3>3, <3>4
  <2>2. keys'[f].obj = keys'[f].data /\ fd'[keys'[f].data] = f
    BY <1>2, <1>5
  <2>3. QED
    BY <2>1, <2>2
<1>10. (\A c \in Opened : InMap(fd[c]) => fd[c] \in watched)'
  <2>1. ASSUME NEW c \in Opened', InMap(fd[c])', c # a PROVE fd'[c] \in watched'
    <3>1. c \in Opened /\ c \in Conns /\ fd'[c] = fd[c] /\ fd[c] # f /\ fd[c] \in Fds
      BY <1>7, <2>1
    <3>2. InMap(fd[c])
      BY <1>5, <2>1, <3>1 DEF InMap
    <3>3. QED
      BY <1>5, <3>1, <3>2 DEF Fresh
  <2>2. fd'[a] \in watched'
    BY <1>2, <1>5
  <2>3. QED
    BY <2>1, <2>2
<1>11. ASSUME NEW c \in Opened', NEW d \in Conns, fd'[c] = fd'[d], sock'[d] = "closed"
       PROVE  ~Lingers(d)'
  <2>1. d # a /\ fd'[d] = fd[d] /\ sock[d] = "closed"
    BY <1>2, <1>7, <1>11
  <2>2. CASE c = a
    BY <1>2, <1>3, <1>7, <1>11, <2>1, <2>2
  <2>3. CASE c # a
    <3>1. c \in Opened /\ fd[c] = fd[d]
      BY <1>7, <1>11, <2>1, <2>3
    <3>2. ~Lingers(d)
      BY <2>1, <3>1 DEF Fresh
    <3>3. QED
      BY <1>7, <2>1, <3>2
  <2>4. QED
    BY <2>2, <2>3
<1>12. \A c \in Opened' : ~In(OpClose(fd'[c]), ops')
  BY <1>2, <1>3, <1>6, <1>7 DEF Fresh
<1>13. ASSUME NEW w \in Workers, wpc'[w] = "append close" PROVE sock'[job'[w]] = "closed"
  <2>1. job'[w] = job[w] /\ sock[job[w]] = "closed" /\ job[w] \in Conns
    BY <1>6, <1>13 DEF Fresh, Referred
  <2>2. QED
    BY <1>2, <1>7, <2>1
<1>14. Fresh'
  BY <1>8, <1>9, <1>10, <1>11, <1>12, <1>13 DEF Fresh
<1>15. \A c \in Opened : Watched(c) => Watched(c)'
  BY <1>5, <1>7 DEF Watched, InMap
<1>16. Watched(a)'
  BY <1>2, <1>5, SelectorAssumption DEF Watched, InMap, NoKey
<1>17. \A c \in Conns : Queued(c)' = Queued(c)
  BY <1>6 DEF Queued
<1>18. Kept'
  <2>1. ASSUME NEW c \in Opened', c # a
        PROVE  /\ c \in Opened /\ c \in Conns /\ tracked'[c] = tracked[c]
               /\ Watched(c) => Watched(c)'
               /\ Queued(c)' = Queued(c)
    BY <1>7, <1>15, <1>17, <2>1
  <2>2. ASSUME NEW c \in Opened', tracked'[c], spc' # "down"
        PROVE  Reached(c)'
    <3>1. CASE c = a
      BY <1>16, <3>1 DEF Reached
    <3>2. CASE c # a
      <4>1. Reached(c)
        BY <1>6, <2>1, <2>2, <3>2 DEF Kept
      <4>2. QED
        BY <1>6, <2>1, <3>2, <4>1 DEF Reached
    <3>3. QED
      BY <3>1, <3>2
  <2>3. ASSUME NEW c \in Opened', ~tracked'[c]
        PROVE  Handled(c)'
    <3>1. c # a
      BY <1>7, <2>3
    <3>2. c \in Opened /\ ~tracked[c]
      BY <2>1, <2>3, <3>1
    <3>3. Handled(c)
      BY <3>2 DEF Kept
    <3>4. QED
      BY <1>6, <3>3 DEF Handled
  <2>4. QED
    BY <2>2, <2>3 DEF Kept
<1>19. QED
  BY <1>14, <1>18

\* The selector's steps give no connection to a worker but in LoopDispatch.
LEMMA SelectorKept ==
  ASSUME Kept, Opened' \subseteq Opened, UNCHANGED <<wpc, job>>, spc' # "down" => spc # "down",
         \A c \in Opened' : /\ tracked'[c] = tracked[c]
                            /\ Watched(c) => Watched(c)'
                            /\ Queued(c) => Queued(c)' \/ Watched(c)'
  PROVE  Kept'
<1>1. ASSUME NEW c \in Opened', tracked'[c], spc' # "down" PROVE Reached(c)'
  <2>1. Reached(c)
    BY <1>1 DEF Kept
  <2>2. QED
    BY <2>1 DEF Reached
<1>2. ASSUME NEW c \in Opened', ~tracked'[c] PROVE Handled(c)'
  <2>1. c \in Opened /\ ~tracked[c]
    BY <1>2
  <2>2. Handled(c)
    BY <2>1 DEF Kept
  <2>3. QED
    BY <2>2 DEF Handled
<1>3. QED
  BY <1>1, <1>2 DEF Kept

LEMMA DrainKeeps ==
  ASSUME WhoTypes, Referred, Fresh, Kept, Flow, DrainOp
  PROVE  Fresh' /\ Kept'
<1>1. /\ ops' = Tail(ops) /\ Head(ops) \in Ops /\ In(Head(ops), ops)
      /\ \A o : In(o, ops') => In(o, ops)
      /\ \A o : In(o, ops) => o = Head(ops) \/ In(o, ops')
      /\ UNCHANGED <<fd, wpc, job, spc>>
  BY InTail DEF DrainOp, WhoTypes, workVars
<1>2. \A c \in Conns : Queued(c) => Queued(c)' \/ Head(ops) = OpTrack(c)
  BY <1>1 DEF Queued, In
<1>3. CASE Head(ops).op = "track" /\ ApplyTrack(Head(ops).conn)
  <2>1. PICK d \in Conns : d = Head(ops).conn /\ Head(ops) = OpTrack(d)
    BY <1>1, <1>3, OpKinds
  <2>2. \A c \in Conns : c # d => (Queued(c) => Queued(c)')
    BY <1>2, <2>1, OpsApart
  <2>3. Lingers(d) /\ sock[d] # "none" /\ fd[d] \in Fds
    BY <1>1, <2>1 DEF Lingers, Referred
  <2>4. CASE KeyFd(d) \in Fds /\ (sock[d] = "open" \/ InMap(fd[d]))
    <3>1. KeyFd(d) = fd[d] /\ (sock[d] # "open" => InMap(fd[d]) /\ keys[fd[d]].data = d)
      BY <2>4, KeyFdIsFd
    <3>2. /\ keys' = [keys EXCEPT ![fd[d]] =
                         [obj |-> IF InMap(fd[d]) THEN keys[fd[d]].obj ELSE d, data |-> d]]
          /\ watched' = IF InMap(fd[d]) THEN watched ELSE watched \cup {fd[d]}
          /\ UNCHANGED <<tracked, sock>>
      BY <1>3, <2>1, <2>4, <3>1 DEF ApplyTrack
    <3>3. Opened' = Opened
      BY <3>2 DEF Opened
    <3>4. CASE InMap(fd[d])
      <4>1. keys[fd[d]].data = d /\ keys[fd[d]].obj = d
        <5>1. CASE sock[d] = "open"
          <6>1. d \in Opened
            BY <5>1 DEF Opened
          <6>2. QED
            BY <3>4, <6>1, KeysLead
        <5>2. CASE sock[d] # "open"
          <6>1. keys[fd[d]].obj = keys[fd[d]].data
            BY <2>3, <3>4 DEF Fresh
          <6>2. QED
            BY <3>1, <5>2, <6>1
        <5>3. QED
          BY <5>1, <5>2
      <4>2. keys[fd[d]] = [obj |-> d, data |-> d]
        BY <2>3, <3>4, <4>1 DEF WhoTypes, InMap
      <4>3. keys' = keys /\ watched' = watched
        BY <2>3, <3>2, <3>4, <4>1, <4>2 DEF WhoTypes
      <4>4. d \in Opened => Watched(d)'
        BY <1>1, <2>3, <3>4, <4>1, <4>3 DEF Fresh, Watched, InMap
      <4>5. \A c \in Conns : Watched(c)' = Watched(c)
        BY <1>1, <4>3 DEF Watched, InMap
      <4>6. Fresh'
        BY <1>1, <3>2, <4>3, FreshFrame DEF InMap
      <4>7. Kept'
        <5>1. \A c \in Opened : c \in Conns
          BY DEF Opened
        <5>2. QED
          BY <1>1, <2>2, <3>2, <3>3, <4>4, <4>5, <5>1, SelectorKept
      <4>8. QED
        BY <4>6, <4>7
    <3>5. CASE ~InMap(fd[d])
      <4>1. d \in Opened
        BY <3>1, <3>5 DEF Opened
      <4>2. /\ keys'[fd[d]].obj = d /\ keys'[fd[d]].data = d /\ keys'[fd[d]] # NoKey
            /\ \A g \in Fds : g # fd[d] => keys'[g] = keys[g]
            /\ watched' = watched \cup {fd[d]}
        BY <2>3, <3>2, <3>5, SelectorAssumption DEF WhoTypes, NoKey
      <4>3. OwnKey(fd[d])'
        BY <1>1, <3>3, <4>1, <4>2 DEF OwnKey
      <4>4. Fresh'
        BY <1>1, <3>2, <4>2, <4>3, FreshFrame DEF InMap
      <4>5. Watched(d)'
        BY <1>1, <2>3, <4>2 DEF Watched, InMap
      <4>6. \A c \in Opened : c # d => c \in Conns /\ fd[c] # fd[d]
        BY <4>1 DEF Fresh, Opened
      <4>7. \A c \in Opened : c # d => (Watched(c) => Watched(c)')
        BY <1>1, <4>2, <4>6 DEF Watched, InMap
      <4>8. Kept'
        BY <1>1, <2>2, <3>2, <3>3, <4>5, <4>6, <4>7, SelectorKept
      <4>9. QED
        BY <4>4, <4>8
    <3>6. QED
      BY <3>4, <3>5
  <2>5. CASE ~(KeyFd(d) \in Fds /\ (sock[d] = "open" \/ InMap(fd[d])))
    <3>1. tracked' = [tracked EXCEPT ![d] = FALSE] /\ sock' = CloseSocks({d})
          /\ UNCHANGED <<keys, watched>>
      BY <1>3, <2>1, <2>5 DEF ApplyTrack
    <3>2. sock[d] # "open"
      BY <2>3, <2>5, KeyFdFinds
    <3>3. Opened' = Opened /\ d \notin Opened
      BY <3>1, <3>2 DEF Opened, CloseSocks
    <3>4. \A c \in Opened : c \in Conns /\ c # d /\ tracked'[c] = tracked[c]
      BY <3>1, <3>2 DEF Opened, WhoTypes
    <3>5. \A c \in Conns : sock'[c] = sock[c] \/ sock'[c] = "closed"
      BY <3>1 DEF CloseSocks
    <3>6. Fresh'
      BY <1>1, <3>1, <3>5, FreshFrame DEF InMap
    <3>7. \A c \in Conns : Watched(c)' = Watched(c)
      BY <1>1, <3>1 DEF Watched, InMap
    <3>8. Kept'
      BY <1>1, <2>2, <3>3, <3>4, <3>7, SelectorKept
    <3>9. QED
      BY <3>6, <3>8
  <2>6. QED
    BY <2>4, <2>5
<1>4. CASE Head(ops).op = "close" /\ Unregister(Head(ops).fd) /\ UNCHANGED <<tracked, sock>>
  <2>1. PICK f \in Fds : f = Head(ops).fd /\ Head(ops) = OpClose(f)
    BY <1>1, <1>4, OpKinds
  <2>2. \A c \in Opened : c \in Conns /\ fd[c] # f
    <3>1. \A c \in Opened : ~In(OpClose(fd[c]), ops)
      BY DEF Fresh
    <3>2. In(OpClose(f), ops)
      BY <1>1, <2>1
    <3>3. QED
      BY <3>1, <3>2 DEF Opened
  <2>3. /\ \A g \in Fds : keys'[g] = IF g = f THEN NoKey ELSE keys[g]
        /\ watched' = watched \ {f}
    BY <1>4, <2>1 DEF Unregister, Without
  <2>4. Opened' = Opened
    BY <1>4 DEF Opened
  <2>5. Fresh'
    BY <1>1, <1>4, <2>2, <2>3, FreshFrame DEF InMap
  <2>6. \A c \in Opened : Watched(c) => Watched(c)'
    BY <1>1, <2>2, <2>3 DEF Watched, InMap
  <2>7. \A c \in Opened : Queued(c) => Queued(c)'
    BY <1>2, <2>1, <2>2, OpsApart
  <2>8. Kept'
    BY <1>1, <1>4, <2>4, <2>6, <2>7, SelectorKept
  <2>9. QED
    BY <2>5, <2>8
<1>5. CASE Head(ops).op = "cleanup" /\ UNCHANGED <<tracked, sock, keyVars>>
  <2>1. Opened' = Opened /\ UNCHANGED <<keys, watched, tracked>>
    BY <1>5 DEF Opened, keyVars
  <2>2. Fresh'
    BY <1>1, <1>5, <2>1, FreshFrame DEF InMap
  <2>3. \A c \in Conns : Watched(c)' = Watched(c)
    BY <1>1, <2>1 DEF Watched, InMap
  <2>4. \A c \in Opened : c \in Conns /\ (Queued(c) => Queued(c)')
    BY <1>1, <1>2, <1>5, OpKinds DEF Opened
  <2>5. Kept'
    BY <1>1, <2>1, <2>3, <2>4, SelectorKept
  <2>6. QED
    BY <2>2, <2>5
<1>6. QED
  BY <1>3, <1>4, <1>5 DEF DrainOp

\* A step of the selector that closes connections and drops their keys leaves
\* the other open connections where they were.
LEMMA CloseKeeps ==
  ASSUME WhoTypes, Referred, Fresh, Kept, Flow, NEW cs,
         sock' = CloseSocks(cs), UNCHANGED <<wpc, job>>, spc' # "down" => spc # "down",
         \A f \in Fds : keys'[f] = keys[f] \/ keys'[f] = NoKey,
         \A o : In(o, ops') => In(o, ops),
         \A c \in Opened : c \notin cs =>
             /\ tracked'[c] = tracked[c]
             /\ keys'[fd[c]] = keys[fd[c]]
             /\ fd[c] \in watched => fd[c] \in watched'
             /\ In(OpTrack(c), ops) => In(OpTrack(c), ops')
  PROVE  Fresh' /\ Kept'
<1>1. \A c \in Conns : sock'[c] = IF c \in cs THEN "closed" ELSE sock[c]
  BY DEF CloseSocks
<1>2. \A c \in Opened' : c \in Opened /\ c \in Conns /\ c \notin cs
  BY <1>1 DEF Opened
<1>3. \A c \in Opened' : fd'[c] = fd[c] /\ fd[c] \in Fds
  <2>1. \A c \in Conns : ~Accepted(c)
    BY <1>1 DEF Accepted
  <2>2. \A c \in Opened : sock[c] # "none"
    BY DEF Opened
  <2>3. QED
    BY <1>2, <2>1, <2>2 DEF Flow, Referred
<1>4. Fresh'
  <2>1. \A c \in Conns : sock'[c] = sock[c] \/ sock'[c] = "closed"
    BY <1>1
  <2>2. \A f \in Fds : InMap(f)' => InMap(f) /\ keys'[f] = keys[f]
    BY DEF InMap
  <2>3. \A c \in Opened : c \in Opened' /\ fd[c] \in watched => fd[c] \in watched'
    BY <1>2
  <2>4. QED
    BY <2>1, <2>2, <2>3, FreshFrame
<1>5. \A c \in Opened' : Watched(c) => Watched(c)'
  BY <1>2, <1>3 DEF Watched, InMap
<1>6. \A c \in Opened' : Queued(c) => Queued(c)'
  BY <1>2 DEF Queued, In
<1>7. \A c \in Opened' : tracked'[c] = tracked[c]
  BY <1>2
<1>8. Opened' \subseteq Opened
  BY <1>2
<1>9. Kept'
  BY <1>5, <1>6, <1>7, <1>8, SelectorKept
<1>10. QED
  BY <1>4, <1>9

LEMMA SweepKeeps ==
  ASSUME WhoTypes, Referred, Fresh, Kept, Flow, CleanupStale
  PROVE  Fresh' /\ Kept'
<1> DEFINE gone == {KeyFd(c) : c \in Stale}
<1>1. /\ \A f \in Fds : keys'[f] = IF f \in gone THEN NoKey ELSE keys[f]
      /\ watched' = watched \ (gone \cup FreedFds(Stale))
      /\ tracked' = [c \in Conns |-> tracked[c] /\ c \notin Stale]
      /\ sock' = CloseSocks(Stale)
      /\ UNCHANGED <<ops, wpc, job>>
  BY DEF CleanupStale, opVars, workVars
<1>2. spc' # "down"
  BY DEF CleanupStale, AfterDrain
<1>3. spc # "down"
  BY DEF CleanupStale
<1>4. ASSUME NEW c \in Opened, c \notin Stale
      PROVE  c \in Conns /\ fd[c] \in Fds /\ fd[c] \notin gone /\ fd[c] \notin FreedFds(Stale)
  <2>1. c \in Conns /\ fd[c] \in Fds
    BY DEF Opened, Referred
  <2>2. ASSUME NEW d \in Stale PROVE KeyFd(d) # fd[c]
    <3>1. d \in Conns /\ d # c
      BY <1>4, <2>2, KeyTypes DEF Stale
    <3>2. CASE sock[d] = "open"
      <4>1. KeyFd(d) = fd[d] /\ d \in Opened
        BY <3>1, <3>2, KeyFdFinds DEF Opened
      <4>2. QED
        BY <3>1, <4>1 DEF Fresh
    <3>3. CASE sock[d] # "open"
      <4>1. ASSUME KeyFd(d) = fd[c] PROVE FALSE
        <5>1. InMap(fd[d]) /\ keys[fd[d]].data = d /\ fd[d] = fd[c]
          BY <2>1, <3>1, <3>3, <4>1, KeyFdIsFd
        <5>2. InMap(fd[c]) /\ keys[fd[c]].data = d
          BY <5>1
        <5>3. QED
          BY <3>1, <5>2, KeysLead
      <4>2. QED
        BY <4>1
    <3>4. QED
      BY <3>2, <3>3
  <2>3. fd[c] \notin FreedFds(Stale)
    <3>1. ASSUME NEW d \in Stale, sock[d] = "open" PROVE fd[d] # fd[c]
      <4>1. d \in Conns /\ d # c
        BY <1>4, <3>1, KeyTypes DEF Stale
      <4>2. QED
        BY <3>1, <4>1 DEF Fresh, Opened
    <3>2. QED
      BY <3>1 DEF FreedFds
  <2>4. QED
    BY <2>1, <2>2, <2>3
<1> HIDE DEF gone
<1>5. ASSUME NEW c \in Opened, c \notin Stale
      PROVE  /\ tracked'[c] = tracked[c]
             /\ keys'[fd[c]] = keys[fd[c]]
             /\ fd[c] \in watched => fd[c] \in watched'
             /\ In(OpTrack(c), ops) => In(OpTrack(c), ops')
  BY <1>1, <1>4, <1>5 DEF WhoTypes
<1>6. QED
  BY <1>1, <1>2, <1>3, <1>5, CloseKeeps

LEMMA LoopCloseKeeps ==
  ASSUME WhoTypes, Referred, Fresh, Kept, Flow, NEW d \in Conns, LoopClose(d)
  PROVE  Fresh' /\ Kept'
<1>1. /\ \A f \in Fds : keys'[f] = IF f = fd[d] THEN NoKey ELSE keys[f]
      /\ watched' = watched \ {fd[d]} /\ tracked' = [tracked EXCEPT ![d] = FALSE]
      /\ sock' = CloseSocks({d}) /\ spc # "down" /\ UNCHANGED <<ops, wpc, job>>
      /\ Lingers(d)
  BY DEF LoopClose, CloseInline, Unregister, Without, EndCallback, InLoop, opVars, workVars, Lingers
<1>2. ASSUME NEW c \in Opened, c \notin {d}
      PROVE  c \in Conns /\ fd[c] \in Fds /\ fd[c] # fd[d]
  <2>1. c \in Conns /\ fd[c] \in Fds /\ sock[d] # "none"
    BY <1>1 DEF Opened, Referred
  <2>2. ASSUME fd[c] = fd[d], sock[d] = "open" PROVE FALSE
    <3>1. d \in Opened /\ c # d
      BY <1>2, <2>2 DEF Opened
    <3>2. QED
      BY <2>2, <3>1 DEF Fresh
  <2>3. ASSUME fd[c] = fd[d], sock[d] = "closed" PROVE FALSE
    BY <1>1, <2>3 DEF Fresh
  <2>4. QED
    BY <2>1, <2>2, <2>3 DEF WhoTypes
<1>3. \A c \in Opened : c \notin {d} => tracked'[c] = tracked[c]
  BY <1>1, <1>2 DEF WhoTypes
<1>4. QED
  BY <1>1, <1>2, <1>3, CloseKeeps

LEMMA ShutdownKeeps ==
  ASSUME WhoTypes, Referred, Fresh, Kept, Flow, ShutdownOp \/ ShutdownEnds
  PROVE  Fresh' /\ Kept'
<1>1. CASE ShutdownOp
  <2>1. /\ ops' = Tail(ops) /\ Head(ops) \in Ops
        /\ \A o : In(o, ops') => In(o, ops)
        /\ \A o : In(o, ops) => o = Head(ops) \/ In(o, ops')
        /\ spc # "down" /\ UNCHANGED <<keys, wpc, job>>
    BY <1>1, InTail DEF ShutdownOp, WhoTypes, workVars
  <2>2. CASE Head(ops).op = "track"
    <3>1. PICK d \in Conns : d = Head(ops).conn /\ Head(ops) = OpTrack(d)
      BY <2>1, <2>2, OpKinds
    <3>2. /\ sock' = CloseSocks({d}) /\ watched' = watched \ FreedFds({d})
          /\ tracked' = [tracked EXCEPT ![d] = FALSE]
      BY <1>1, <2>2, <3>1 DEF ShutdownOp
    <3>3. ASSUME NEW c \in Opened, c \notin {d}
          PROVE  /\ tracked'[c] = tracked[c]
                 /\ fd[c] \in watched => fd[c] \in watched'
                 /\ In(OpTrack(c), ops) => In(OpTrack(c), ops')
      <4>1. c \in Conns /\ tracked'[c] = tracked[c]
        BY <3>2, <3>3 DEF Opened, WhoTypes
      <4>2. sock[d] = "open" => fd[c] # fd[d]
        BY <3>3 DEF Fresh, Opened
      <4>3. fd[c] \notin FreedFds({d})
        BY <4>2 DEF FreedFds
      <4>4. OpTrack(c) # Head(ops)
        BY <3>1, <3>3, OpsApart
      <4>5. QED
        BY <2>1, <3>2, <4>1, <4>3, <4>4
    <3>4. QED
      BY <2>1, <3>2, <3>3, CloseKeeps
  <2>3. CASE Head(ops).op # "track"
    <3>1. UNCHANGED <<sock, watched, tracked>>
      BY <1>1, <2>3 DEF ShutdownOp
    <3>2. \A c : OpTrack(c) # Head(ops)
      BY <2>1, <2>3, OpKinds
    <3>3. sock' = CloseSocks({})
      BY <3>1 DEF CloseSocks, WhoTypes
    <3>4. QED
      BY <2>1, <3>1, <3>2, <3>3, CloseKeeps
  <2>4. QED
    BY <2>2, <2>3
<1>2. CASE ShutdownEnds
  <2>1. /\ sock' = CloseSocks(Registered)
        /\ tracked' = [c \in Conns |-> tracked[c] /\ c \notin Registered]
        /\ \A f \in Fds : keys'[f] = NoKey
        /\ spc' = "down" /\ UNCHANGED <<ops, wpc, job>>
    BY <1>2 DEF ShutdownEnds, workVars
  <2>2. \A c \in Conns : sock'[c] = IF c \in Registered THEN "closed" ELSE sock[c]
    BY <2>1 DEF CloseSocks
  <2>3. Fresh'
    BY <2>1, <2>2, FreshFrame DEF InMap
  <2>4. ASSUME NEW c \in Opened', ~tracked'[c] PROVE Handled(c)'
    <3>1. c \in Opened /\ ~tracked[c]
      BY <2>1, <2>2, <2>4 DEF Opened
    <3>2. Handled(c)
      BY <3>1 DEF Kept
    <3>3. QED
      BY <2>1, <3>2 DEF Handled
  <2>5. QED
    BY <2>1, <2>3, <2>4 DEF Kept
<1>3. QED
  BY <1>1, <1>2

LEMMA DispatchKeeps ==
  ASSUME WhoTypes, Referred, Fresh, Kept, Flow, NEW d \in Conns, LoopDispatch(d)
  PROVE  Fresh' /\ Kept'
<1>1. /\ \A f \in Fds : keys'[f] = IF f = KeyFd(d) THEN NoKey ELSE keys[f]
      /\ watched' = watched \ {KeyFd(d)} /\ tracked' = [tracked EXCEPT ![d] = FALSE]
      /\ spc # "down" /\ UNCHANGED <<sock, fd, ops>>
  BY DEF LoopDispatch, StopTracking, Unregister, Without, InLoop, kernelVars, opVars
<1>2. PICK u \in Workers : /\ wpc[u] = "idle" /\ wpc'[u] = "run" /\ job'[u] = d
                           /\ \A w \in Workers : w # u => wpc'[w] = wpc[w] /\ job'[w] = job[w]
  BY DEF LoopDispatch, FreeWorkers, WhoTypes
<1>3. Opened' = Opened
  BY <1>1 DEF Opened
<1>4. Fresh'
  <2>1. \A c \in Conns : sock'[c] = sock[c]
    BY <1>1
  <2>2. \A f \in Fds : InMap(f)' => InMap(f) /\ keys'[f] = keys[f] /\ f # KeyFd(d)
    BY <1>1 DEF InMap
  <2>3. \A c \in Opened : InMap(fd[c])' /\ fd[c] \in watched => fd[c] \in watched'
    BY <1>1 DEF InMap
  <2>4. \A w \in Workers : wpc'[w] = "append close" => wpc[w] = "append close" /\ job'[w] = job[w]
    BY <1>2
  <2>5. QED
    BY <1>1, <2>1, <2>2, <2>3, <2>4, FreshFrame
<1>5. ASSUME NEW c \in Opened, c # d, Watched(c) PROVE Watched(c)'
  <2>1. c \in Conns /\ fd[c] \in Fds
    BY DEF Opened, Referred
  <2>2. InMap(fd[c]) /\ keys[fd[c]].data = c
    BY <1>5 DEF Watched
  <2>3. ASSUME KeyFd(d) = fd[c] PROVE FALSE
    <3>1. fd[d] = fd[c] /\ (sock[d] # "open" => keys[fd[d]].data = d)
      BY <2>1, <2>3, KeyFdIsFd
    <3>2. sock[d] = "open"
      BY <1>5, <2>2, <3>1
    <3>3. d \in Opened
      BY <3>2 DEF Opened
    <3>4. QED
      BY <1>5, <3>1, <3>3 DEF Fresh
  <2>4. QED
    BY <1>1, <1>5, <2>1, <2>3 DEF Watched, InMap
<1>6. ASSUME NEW c \in Opened, tracked'[c], spc' # "down" PROVE Reached(c)'
  <2>1. c # d /\ tracked[c]
    BY <1>1, <1>6 DEF Opened, WhoTypes
  <2>2. Reached(c)
    BY <1>1, <2>1 DEF Kept
  <2>3. Queued(c)' = Queued(c)
    BY <1>1 DEF Queued
  <2>4. \A w \in Workers : wpc[w] = "append" => wpc'[w] = "append" /\ job'[w] = job[w]
    BY <1>2
  <2>5. QED
    BY <1>5, <2>1, <2>2, <2>3, <2>4 DEF Reached
<1>7. ASSUME NEW c \in Opened, ~tracked'[c] PROVE Handled(c)'
  <2>1. CASE c = d
    BY <1>2, <2>1 DEF Handled
  <2>2. CASE c # d
    <3>1. ~tracked[c]
      BY <1>1, <1>7, <2>2 DEF Opened, WhoTypes
    <3>2. Handled(c)
      BY <3>1 DEF Kept
    <3>3. \A w \in Workers : wpc[w] # "idle" => wpc'[w] = wpc[w] /\ job'[w] = job[w]
      BY <1>2
    <3>4. QED
      BY <3>2, <3>3 DEF Handled
  <2>3. QED
    BY <2>1, <2>2
<1>8. QED
  BY <1>3, <1>4, <1>6, <1>7 DEF Kept

\* A worker's step is about the connection d it has.
LEMMA WorkerKept ==
  ASSUME Kept, NEW w \in Workers, NEW d \in Conns, job[w] = d,
         Opened' \subseteq Opened, UNCHANGED spc,
         \A v \in Workers : v # w => wpc'[v] = wpc[v] /\ job'[v] = job[v],
         \A c \in Opened' : c # d => /\ tracked'[c] = tracked[c]
                                     /\ Watched(c) => Watched(c)'
                                     /\ Queued(c) => Queued(c)',
         d \in Opened' /\ tracked'[d] /\ spc # "down" => Reached(d)',
         d \in Opened' /\ ~tracked'[d] => Handled(d)'
  PROVE  Kept'
<1>1. ASSUME NEW c \in Opened', c # d, tracked'[c], spc' # "down" PROVE Reached(c)'
  <2>1. c \in Opened /\ tracked[c] /\ spc # "down"
    BY <1>1
  <2>2. Reached(c)
    BY <2>1 DEF Kept
  <2>3. CASE \E v \in Workers : job[v] = c /\ wpc[v] = "append"
    <3>1. PICK v \in Workers : job[v] = c /\ wpc[v] = "append"
      BY <2>3
    <3>2. v # w
      BY <1>1, <3>1
    <3>3. job'[v] = c /\ wpc'[v] = "append"
      BY <3>1, <3>2
    <3>4. QED
      BY <3>3 DEF Reached
  <2>4. CASE Watched(c) \/ Queued(c)
    BY <1>1, <2>4 DEF Reached
  <2>5. QED
    BY <2>2, <2>3, <2>4 DEF Reached
<1>2. ASSUME NEW c \in Opened', c # d, ~tracked'[c] PROVE Handled(c)'
  <2>1. c \in Opened /\ ~tracked[c]
    BY <1>2
  <2>2. Handled(c)
    BY <2>1 DEF Kept
  <2>3. PICK v \in Workers : job[v] = c /\ wpc[v] \in {"run", "give back", "close"}
    BY <2>2 DEF Handled
  <2>4. v # w
    BY <1>2, <2>3
  <2>5. job'[v] = c /\ wpc'[v] = wpc[v]
    BY <2>3, <2>4
  <2>6. QED
    BY <2>3, <2>5 DEF Handled
<1>3. QED
  BY <1>1, <1>2 DEF Kept

\* Closing d is nothing to the other open connections.
LEMMA OthersWatched ==
  ASSUME WhoTypes, Referred, Fresh, NEW d \in Conns, sock' = CloseSocks({d}),
         watched' = watched \ FreedFds({d}), UNCHANGED <<fd, keys>>
  PROVE  /\ Opened' \subseteq Opened /\ d \notin Opened'
         /\ \A c \in Conns : sock'[c] = sock[c] \/ sock'[c] = "closed"
         /\ \A c \in Opened' : fd[c] \in watched => fd[c] \in watched'
         /\ \A c \in Opened' : Watched(c) => Watched(c)'
<1>1. \A c \in Conns : sock'[c] = IF c = d THEN "closed" ELSE sock[c]
  BY DEF CloseSocks
<1>2. Opened' \subseteq Opened /\ d \notin Opened'
  BY <1>1 DEF Opened
<1>3. ASSUME NEW c \in Opened' PROVE fd[c] \in watched => fd[c] \in watched'
  <2>1. ASSUME sock[d] = "open", fd[d] = fd[c] PROVE FALSE
    <3>1. d \in Opened
      BY <2>1 DEF Opened
    <3>2. c = d
      BY <1>2, <2>1, <3>1 DEF Fresh
    <3>3. QED
      BY <1>2, <3>2
  <2>2. fd[c] \notin FreedFds({d})
    BY <2>1 DEF FreedFds
  <2>3. QED
    BY <2>2
<1>4. \A c \in Opened' : Watched(c) => Watched(c)'
  BY <1>3 DEF Watched, InMap
<1>5. QED
  BY <1>1, <1>2, <1>3, <1>4

LEMMA WorkerKeeps ==
  ASSUME WhoTypes, Referred, Fresh, Kept, Flow, NEW w \in Workers, WorkerStep(w)
  PROVE  Fresh' /\ Kept'
<1> USE DEF kernelVars, keyVars, opVars, loopVars, connVars, workVars
<1>1. PICK d \in Conns : d = job[w]
  <2>1. wpc[w] # "idle"
    BY DEF WorkerStep, Respond, Abort, GiveBack, AppendTrack, Wake, ReturnAfter, RaiseAfter,
           CloseByWorker, AppendClose
  <2>2. QED
    BY <2>1 DEF Referred
<1>2. Lingers(d) /\ UNCHANGED spc
  BY <1>1 DEF Lingers, WorkerStep, Respond, Abort, GiveBack, AppendTrack, Wake, ReturnAfter,
     RaiseAfter, CloseByWorker, AppendClose
<1>3. UNCHANGED fd /\ \A v \in Workers : v # w => wpc'[v] = wpc[v] /\ job'[v] = job[v]
  BY OwnWorker DEF WorkerStep, Respond, Abort, GiveBack, AppendTrack, Wake, ReturnAfter,
     RaiseAfter, CloseByWorker, AppendClose
<1>4. ASSUME UNCHANGED <<sock, keys, watched, ops, tracked>>
      PROVE  /\ Opened' = Opened /\ \A c \in Conns : sock'[c] = sock[c]
             /\ \A c \in Conns : Watched(c)' = Watched(c) /\ Queued(c)' = Queued(c)
             /\ \A f \in Fds : InMap(f)' => InMap(f) /\ keys'[f] = keys[f]
             /\ \A c \in Opened : c \in Conns
  BY <1>3, <1>4 DEF Opened, Watched, Queued, InMap
<1>5. CASE Respond(w) \/ Abort(w) \/ RaiseAfter(w)
  <2>1. /\ UNCHANGED <<sock, keys, watched, ops, tracked, job>>
        /\ wpc[w] \in {"run", "after"} /\ wpc'[w] \in {"give back", "close"}
    BY <1>5 DEF Respond, Abort, RaiseAfter, Goto, WhoTypes
  <2>2. \A v \in Workers : wpc'[v] = "append close" => wpc[v] = "append close" /\ job'[v] = job[v]
    BY <1>3, <2>1
  <2>3. Fresh'
    BY <1>4, <2>1, <2>2, FreshFrame
  <2>4. d \in Opened /\ tracked[d] /\ spc # "down" => Reached(d)'
    <3>1. ASSUME d \in Opened, tracked[d], spc # "down" PROVE Reached(d)'
      <4>1. Reached(d)
        BY <3>1 DEF Kept
      <4>2. \A v \in Workers : wpc[v] = "append" => wpc'[v] = "append" /\ job'[v] = job[v]
        BY <1>3, <2>1
      <4>3. QED
        BY <1>4, <2>1, <4>1, <4>2 DEF Reached
    <3>2. QED
      BY <3>1
  <2>5. Handled(d)'
    BY <1>1, <2>1 DEF Handled
  <2>6. Kept'
    BY <1>1, <1>2, <1>3, <1>4, <2>1, <2>4, <2>5, WorkerKept
  <2>7. QED
    BY <2>3, <2>6
<1>6. CASE ReturnAfter(w) \/ Wake(w)
  <2>1. /\ UNCHANGED <<sock, keys, watched, ops, tracked>>
        /\ wpc[w] \in {"after", "wake", "wake and end"} /\ wpc'[w] \in {"after", "idle"}
    BY <1>6 DEF ReturnAfter, Wake, Goto, Finish, WhoTypes
  <2>2. \A v \in Workers : wpc'[v] = "append close" => wpc[v] = "append close" /\ job'[v] = job[v]
    BY <1>3, <2>1
  <2>3. Fresh'
    BY <1>4, <2>1, <2>2, FreshFrame
  <2>4. \A v \in Workers : wpc[v] \in {"append", "run", "give back", "close"}
                               => wpc'[v] = wpc[v] /\ job'[v] = job[v]
    BY <1>3, <2>1
  <2>5. d \in Opened /\ tracked[d] /\ spc # "down" => Reached(d)'
    <3>1. ASSUME d \in Opened, tracked[d], spc # "down" PROVE Reached(d)'
      <4>1. Reached(d)
        BY <3>1 DEF Kept
      <4>2. QED
        BY <1>4, <2>1, <2>4, <4>1 DEF Reached
    <3>2. QED
      BY <3>1
  <2>6. d \in Opened /\ ~tracked[d] => Handled(d)'
    <3>1. ASSUME d \in Opened, ~tracked[d] PROVE Handled(d)'
      <4>1. Handled(d)
        BY <3>1 DEF Kept
      <4>2. QED
        BY <2>4, <4>1 DEF Handled
    <3>2. QED
      BY <3>1
  <2>7. Kept'
    BY <1>1, <1>2, <1>3, <1>4, <2>1, <2>5, <2>6, WorkerKept
  <2>8. QED
    BY <2>3, <2>7
<1>7. CASE CloseByWorker(w)
  <2>1. /\ sock' = CloseSocks({d}) /\ watched' = watched \ FreedFds({d})
        /\ tracked' = [tracked EXCEPT ![d] = FALSE] /\ UNCHANGED <<keys, ops>>
    BY <1>1, <1>7 DEF CloseByWorker
  <2>2. /\ Opened' \subseteq Opened /\ d \notin Opened'
        /\ \A c \in Conns : sock'[c] = sock[c] \/ sock'[c] = "closed"
        /\ \A c \in Opened' : fd[c] \in watched => fd[c] \in watched'
        /\ \A c \in Opened' : Watched(c) => Watched(c)'
    BY <1>3, <2>1, OthersWatched
  <2>3. ASSUME NEW v \in Workers, wpc'[v] = "append close"
        PROVE  (wpc[v] = "append close" /\ job'[v] = job[v]) \/ sock'[job'[v]] = "closed"
    <3>1. CASE v # w
      BY <1>3, <2>3, <3>1
    <3>2. CASE v = w
      <4>1. job'[w] = d
        BY <1>1, <1>7, <2>3, <3>2 DEF CloseByWorker, Goto, Finish, WhoTypes
      <4>2. sock'[d] = "closed"
        BY <2>1 DEF CloseSocks
      <4>3. QED
        BY <3>2, <4>1, <4>2
    <3>3. QED
      BY <3>1, <3>2
  <2>4. Fresh'
    BY <1>3, <2>1, <2>2, <2>3, FreshFrame DEF InMap
  <2>5. \A c \in Opened' : c # d => tracked'[c] = tracked[c] /\ (Queued(c) => Queued(c)')
    BY <2>1, <2>2 DEF Opened, Queued, WhoTypes
  <2>6. Kept'
    BY <1>1, <1>2, <1>3, <2>2, <2>5, WorkerKept
  <2>7. QED
    BY <2>4, <2>6
<1>8. CASE GiveBack(w)
  <2>1. /\ UNCHANGED <<keys, ops, job>> /\ wpc[w] = "give back"
        /\ wpc'[w] \in {"append", "after"}
    BY <1>8 DEF GiveBack, Goto, WhoTypes
  <2>2. \A v \in Workers : wpc'[v] = "append close" => wpc[v] = "append close" /\ job'[v] = job[v]
    BY <1>3, <2>1
  <2>3. \A c \in Conns : Queued(c)' = Queued(c)
    BY <2>1 DEF Queued
  <2>4. CASE sock' = CloseSocks({d}) /\ watched' = watched \ FreedFds({d}) /\ UNCHANGED tracked
    <3>1. /\ Opened' \subseteq Opened /\ d \notin Opened'
          /\ \A c \in Conns : sock'[c] = sock[c] \/ sock'[c] = "closed"
          /\ \A c \in Opened' : fd[c] \in watched => fd[c] \in watched'
          /\ \A c \in Opened' : Watched(c) => Watched(c)'
      BY <1>3, <2>1, <2>4, OthersWatched
    <3>2. Fresh'
      BY <1>3, <2>1, <2>2, <3>1, FreshFrame DEF InMap
    <3>3. \A c \in Opened' : c \in Conns
      BY <3>1 DEF Opened
    <3>4. Kept'
      BY <1>1, <1>2, <1>3, <2>3, <2>4, <3>1, <3>3, WorkerKept
    <3>5. QED
      BY <3>2, <3>4
  <2>5. CASE ~tracked[d] /\ tracked' = [tracked EXCEPT ![d] = TRUE] /\ wpc'[w] = "append"
             /\ UNCHANGED <<sock, watched>>
    <3>1. /\ Opened' = Opened /\ \A c \in Conns : sock'[c] = sock[c]
          /\ \A c \in Conns : Watched(c)' = Watched(c)
          /\ \A c \in Opened : c \in Conns
      BY <1>3, <2>1, <2>5 DEF Opened, Watched, InMap
    <3>2. Fresh'
      BY <2>1, <2>2, <2>5, <3>1, FreshFrame DEF InMap
    <3>3. Reached(d)' /\ tracked'[d]
      BY <1>1, <2>1, <2>5 DEF Reached, WhoTypes
    <3>4. \A c \in Opened' : c # d => tracked'[c] = tracked[c]
      BY <2>5, <3>1 DEF WhoTypes
    <3>5. Kept'
      BY <1>1, <1>2, <1>3, <2>3, <3>1, <3>3, <3>4, WorkerKept
    <3>6. QED
      BY <3>2, <3>5
  <2>6. CASE tracked[d] /\ UNCHANGED <<sock, watched, tracked>>
    <3>1. /\ Opened' = Opened /\ \A c \in Conns : sock'[c] = sock[c]
          /\ \A c \in Conns : Watched(c)' = Watched(c)
          /\ \A c \in Opened : c \in Conns
      BY <1>3, <2>1, <2>6 DEF Opened, Watched, InMap
    <3>2. Fresh'
      BY <2>1, <2>2, <2>6, <3>1, FreshFrame DEF InMap
    <3>3. d \in Opened /\ spc # "down" => Reached(d)'
      <4>1. ASSUME d \in Opened, spc # "down" PROVE Reached(d)'
        <5>1. Reached(d)
          BY <2>6, <4>1 DEF Kept
        <5>2. \A v \in Workers : wpc[v] = "append" => wpc'[v] = "append" /\ job'[v] = job[v]
          BY <1>3, <2>1
        <5>3. QED
          BY <2>3, <3>1, <5>1, <5>2 DEF Reached
      <4>2. QED
        BY <4>1
    <3>4. Kept'
      BY <1>1, <1>2, <1>3, <2>3, <2>6, <3>1, <3>3, WorkerKept
    <3>5. QED
      BY <3>2, <3>4
  <2>7. QED
    BY <1>1, <1>8, <2>4, <2>5, <2>6 DEF GiveBack, Goto, WhoTypes
<1>9. CASE AppendTrack(w) \/ AppendClose(w)
  <2>1. /\ UNCHANGED <<sock, keys, watched, tracked, job>>
        /\ wpc[w] \in {"append", "append close"} /\ wpc'[w] \in {"wake", "wake and end"}
    BY <1>9 DEF AppendTrack, AppendClose, Goto, WhoTypes
  <2>2. PICK o \in Ops : /\ ops' = Append(ops, o)
                         /\ \/ o = OpTrack(d) /\ wpc[w] = "append"
                            \/ o = OpClose(fd[d]) /\ wpc[w] = "append close"
    <3>1. OpTrack(d) \in Ops /\ OpClose(fd[d]) \in Ops
      BY <1>2 DEF Ops, Referred
    <3>2. QED
      BY <1>1, <1>9, <3>1 DEF AppendTrack, AppendClose
  <2>3. \A x : In(x, ops') <=> In(x, ops) \/ x = o
    BY <2>2, InAppend DEF WhoTypes
  <2>4. /\ Opened' = Opened /\ \A c \in Conns : sock'[c] = sock[c]
        /\ \A c \in Conns : Watched(c)' = Watched(c)
        /\ \A c \in Opened : c \in Conns
    BY <1>3, <2>1 DEF Opened, Watched, InMap
  <2>5. ASSUME NEW c \in Opened, In(OpClose(fd[c]), ops') PROVE In(OpClose(fd[c]), ops)
    <3>1. CASE o = OpClose(fd[d]) /\ wpc[w] = "append close"
      <4>1. sock[d] = "closed"
        BY <1>1, <3>1 DEF Fresh
      <4>2. fd[c] # fd[d]
        BY <1>2, <4>1 DEF Fresh
      <4>3. OpClose(fd[c]) # o
        BY <3>1, <4>2, OpsApart
      <4>4. QED
        BY <2>3, <2>5, <4>3
    <3>2. CASE o = OpTrack(d)
      BY <2>3, <2>5, <3>2, OpsApart
    <3>3. QED
      BY <2>2, <3>1, <3>2
  <2>6. \A v \in Workers : wpc'[v] = "append close" => wpc[v] = "append close" /\ job'[v] = job[v]
    BY <1>3, <2>1
  <2>7. Fresh'
    BY <2>1, <2>4, <2>5, <2>6, FreshFrame DEF InMap
  <2>8. \A c \in Conns : Queued(c) => Queued(c)'
    BY <2>3 DEF Queued, In
  <2>9. d \in Opened /\ tracked[d] /\ spc # "down" => Reached(d)'
    <3>1. ASSUME d \in Opened, tracked[d], spc # "down" PROVE Reached(d)'
      <4>1. Reached(d)
        BY <3>1 DEF Kept
      <4>2. CASE wpc[w] = "append"
        <5>1. In(OpTrack(d), ops')
          BY <2>2, <2>3, <4>2
        <5>2. QED
          BY <5>1 DEF Reached, Queued, In
      <4>3. CASE wpc[w] # "append"
        <5>1. \A v \in Workers : wpc[v] = "append" => wpc'[v] = "append" /\ job'[v] = job[v]
          BY <1>3, <4>3
        <5>2. QED
          BY <2>4, <2>8, <4>1, <5>1 DEF Reached
      <4>4. QED
        BY <4>2, <4>3
    <3>2. QED
      BY <3>1
  <2>10. d \in Opened /\ ~tracked[d] => Handled(d)'
    <3>1. ASSUME d \in Opened, ~tracked[d] PROVE Handled(d)'
      <4>1. Handled(d)
        BY <3>1 DEF Kept
      <4>2. \A v \in Workers : wpc[v] \in {"run", "give back", "close"}
                                   => wpc'[v] = wpc[v] /\ job'[v] = job[v]
        BY <1>3, <2>1
      <4>3. QED
        BY <4>1, <4>2 DEF Handled
    <3>2. QED
      BY <3>1
  <2>11. Kept'
    BY <1>1, <1>2, <1>3, <2>1, <2>4, <2>8, <2>9, <2>10, WorkerKept
  <2>12. QED
    BY <2>7, <2>11
<1>10. QED
  BY <1>5, <1>6, <1>7, <1>8, <1>9 DEF WorkerStep

LEMMA KeepsNext ==
  ASSUME WhoTypes, Referred, Fresh, Kept, [Next]_vars, [Late]_vars
  PROVE  Fresh' /\ Kept'
<1> USE DEF vars, kernelVars, keyVars, opVars, loopVars, selVars, connVars, workVars
<1>1. Flow
  BY FlowNext
<1>2. CASE BatchAccept
  <2>1. sock' # sock
    BY <1>2 DEF BatchAccept, Referred, WhoTypes
  <2>2. QED
    BY <1>1, <1>2, <2>1, AcceptKeeps
<1>3. CASE DrainOp
  BY <1>1, <1>3, DrainKeeps
<1>4. CASE CleanupStale
  BY <1>1, <1>4, SweepKeeps
<1>5. ASSUME NEW c \in Conns, LoopStep(c) PROVE Fresh' /\ Kept'
  <2>1. CASE LoopClose(c)
    BY <1>1, <2>1, LoopCloseKeeps
  <2>2. CASE LoopDispatch(c)
    BY <1>1, <2>2, DispatchKeeps
  <2>3. CASE LoopUntracked(c) \/ LoopReceive(c) \/ LoopBlock(c) \/ LoopAnswer(c)
    <3>1. /\ UNCHANGED <<sock, keys, watched, ops, tracked, wpc, job>>
          /\ spc' = "down" <=> spc = "down"
      BY <2>3 DEF LoopUntracked, LoopReceive, LoopBlock, LoopAnswer, EndCallback, StayInLoop, InLoop
    <3>2. QED
      BY <1>1, <3>1, QuietKeeps
  <2>4. QED
    BY <1>5, <2>1, <2>2, <2>3 DEF LoopStep
<1>6. CASE DrainDone \/ Select \/ BatchWakeup \/ BatchAcceptFails \/ BatchConn \/ BatchDone
           \/ CheckBorrowed \/ ShutdownBegins \/ UNCHANGED vars \/ \E c \in Conns : ClientStep(c)
  <2>1. /\ UNCHANGED <<sock, keys, watched, ops, tracked, wpc, job>>
        /\ spc' = "down" <=> spc = "down"
    BY <1>6 DEF DrainDone, AfterDrain, Select, BatchWakeup, BatchAcceptFails, BatchConn, BatchDone,
       CheckBorrowed, EndCallback, ShutdownBegins,
       ClientStep, ClientConnects, ClientSends, ClientCloses, TimePasses
  <2>2. QED
    BY <1>1, <2>1, QuietKeeps
<1>7. CASE PostCleanup
  <2>1. /\ UNCHANGED <<sock, fd, keys, watched, tracked, spc, wpc, job>>
        /\ ops' = Append(ops, OpCleanup) /\ OpCleanup \in Ops
    BY <1>7 DEF PostCleanup, Ops
  <2>2. \A x : In(x, ops') <=> In(x, ops) \/ x = OpCleanup
    BY <2>1, InAppend DEF WhoTypes
  <2>3. \A c \in Opened : In(OpClose(fd[c]), ops') => In(OpClose(fd[c]), ops)
    BY <2>2, OpsApart
  <2>4. /\ Opened' = Opened
        /\ \A c \in Conns : Watched(c)' = Watched(c) /\ (Queued(c) => Queued(c)')
        /\ \A c \in Opened : c \in Conns
    BY <2>1, <2>2 DEF Opened, Watched, InMap, Queued, In
  <2>5. Fresh'
    BY <1>1, <2>1, <2>3, FreshFrame DEF InMap
  <2>6. Kept'
    BY <2>1, <2>4, SelectorKept
  <2>7. QED
    BY <2>5, <2>6
<1>8. ASSUME NEW w \in Workers, WorkerStep(w) PROVE Fresh' /\ Kept'
  BY <1>1, <1>8, WorkerKeeps
<1>9. CASE ShutdownOp \/ ShutdownEnds
  BY <1>1, <1>9, ShutdownKeeps
<1>10. QED
  BY <1>2, <1>3, <1>4, <1>5, <1>6, <1>7, <1>8, <1>9 DEF Next, SelectorStep, ShutdownStep

LEMMA KeepsInit == Init => Fresh /\ Kept
<1> SUFFICES ASSUME Init PROVE Fresh /\ Kept
  OBVIOUS
<1>1. Opened = {} /\ \A f \in Fds : ~InMap(f)
  BY DEF Init, Opened, InMap
<1>2. \A w \in Workers : wpc[w] = "idle"
  BY DEF Init
<1>3. QED
  BY <1>1, <1>2 DEF Fresh, Kept

LEMMA NothingForgotten ==
  ASSUME OwnerInv, Fresh, Kept
  PROVE  NoOrphan
<1> SUFFICES ASSUME NEW c \in Conns, sock[c] = "open", spc # "down"
             PROVE  Watched(c) \/ Queued(c) \/ HasWorker(c)
  BY DEF NoOrphan
<1>1. c \in Opened
  BY DEF Opened
<1>2. CASE tracked[c]
  <2>1. Reached(c)
    BY <1>1, <1>2 DEF Kept
  <2>2. QED
    BY <2>1 DEF Reached, HasWorker
<1>3. CASE ~tracked[c]
  <2>1. Handled(c)
    BY <1>1, <1>3 DEF Kept
  <2>2. QED
    BY <2>1 DEF Handled, HasWorker
<1>4. QED
  BY <1>2, <1>3

\* No connection is forgotten by everybody, in any order of track, stop_tracking,
\* give-back, close, sweep and shutdown, provided that accept is not handed a
\* descriptor that something stale still names: ops and keys carry descriptors,
\* so the code leans on that.
THEOREM ConnectionsStaySafe == Spec /\ ReuseIsLate => []ConnectionsSafe
<1>1. Init => Fresh /\ Kept
  BY KeepsInit
<1>2. OwnerInv /\ (Fresh /\ Kept) /\ [Next]_vars /\ [Late]_vars => (Fresh /\ Kept)'
  BY KeepsNext DEF OwnerInv
<1>3. OwnerInv /\ Counts /\ (Fresh /\ Kept) => ConnectionsSafe
  BY TypesFollow, OwnersFollow, NothingForgotten DEF ConnectionsSafe
<1>4. QED
  BY CountsInvariant, <1>1, <1>2, <1>3, PTL DEF Spec, ReuseIsLate

-----------------------------------------------------------------------------
(***************************************************************************)
(* Handlers on the selector thread.                                        *)
(***************************************************************************)

LEMMA InlineInit == Init => InlineInv
<1> SUFFICES ASSUME Init PROVE InlineInv
  OBVIOUS
<1>1. InlineQueue
  BY NothingIn DEF Init, InlineQueue
<1>2. Opened = {} /\ \A f \in Fds : ~InMap(f)
  BY DEF Init, Opened, InMap
<1>3. InlineKeys
  BY <1>2 DEF Init, InlineKeys
<1>4. InlineCycle
  BY <1>2 DEF Init, InlineCycle
<1>5. QED
  BY <1>1, <1>3, <1>4 DEF InlineInv

\* No worker ever has a step, and the selector applies no op but a sweep.
LEMMA NoWorker ==
  ASSUME InlineQueue
  PROVE  /\ \A w \in Workers : ~WorkerStep(w)
         /\ ~CheckBorrowed
  BY DEF InlineQueue, CheckBorrowed, WorkerStep, Respond, Abort, GiveBack, AppendTrack, Wake,
         ReturnAfter, RaiseAfter, CloseByWorker, AppendClose

LEMMA HeadIsCleanup ==
  ASSUME WhoTypes, InlineQueue, ops # <<>>
  PROVE  Head(ops).op = "cleanup" /\ Tail(ops) \in Seq(Ops)
         /\ \A o \in Ops : In(o, Tail(ops)) => In(o, ops)
<1>1. ops \in Seq(Ops)
  BY DEF WhoTypes
<1>2. Head(ops) \in Ops /\ In(Head(ops), ops)
  BY <1>1, InTail
<1>3. QED
  BY <1>1, <1>2, InTail DEF InlineQueue

LEMMA InlineQueueNext ==
  ASSUME WhoTypes, InlineQueue, ~Pooled, [Next]_vars
  PROVE  InlineQueue'
<1> USE DEF vars, opVars, loopVars, workVars
<1>1. CASE DrainOp \/ ShutdownOp
  <2>1. ops' = Tail(ops) /\ ops # <<>> /\ UNCHANGED <<wpc, spc>>
    BY <1>1 DEF DrainOp, ShutdownOp
  <2>2. QED
    BY <2>1, HeadIsCleanup DEF InlineQueue
<1>2. CASE PostCleanup
  <2>1. ops' = Append(ops, OpCleanup) /\ OpCleanup \in Ops /\ UNCHANGED <<wpc, spc>>
    BY <1>2 DEF PostCleanup, Ops
  <2>2. \A o : In(o, ops') <=> In(o, ops) \/ o = OpCleanup
    BY <2>1, InAppend DEF WhoTypes
  <2>3. QED
    BY <2>1, <2>2 DEF InlineQueue, OpCleanup
<1>3. ASSUME NEW c \in Conns, LoopStep(c) PROVE UNCHANGED <<wpc, ops>> /\ spc' # "dispatched"
  BY <1>3 DEF LoopStep, LoopUntracked, LoopClose, CloseInline, LoopReceive, LoopBlock,
     LoopDispatch, LoopAnswer, EndCallback, StayInLoop, InLoop
<1>4. CASE SelectorStep /\ ~DrainOp
  <2>1. UNCHANGED <<wpc, ops>> /\ spc' # "dispatched"
    BY <1>3, <1>4, NoWorker DEF SelectorStep, DrainDone, AfterDrain, CleanupStale, Select,
       BatchWakeup, BatchAccept, BatchAcceptFails, BatchConn, BatchDone, InlineQueue
  <2>2. QED
    BY <2>1 DEF InlineQueue
<1>5. CASE ShutdownBegins \/ ShutdownEnds \/ UNCHANGED vars \/ \E c \in Conns : ClientStep(c)
  <2>1. UNCHANGED <<wpc, ops>> /\ spc' # "dispatched"
    BY <1>5 DEF ShutdownBegins, ShutdownEnds, InlineQueue,
       ClientStep, ClientConnects, ClientSends, ClientCloses, TimePasses
  <2>2. QED
    BY <2>1 DEF InlineQueue
<1>6. QED
  BY <1>1, <1>2, <1>4, <1>5, NoWorker DEF Next, ShutdownStep

\* Closing some of the open connections with their keys.
LEMMA InlineClose ==
  ASSUME WhoTypes, Referred, InlineKeys, NEW cs, UNCHANGED fd,
         sock' = CloseSocks(cs),
         \A c \in Conns : tracked'[c] <=> tracked[c] /\ c \notin cs,
         \A f \in Fds : keys'[f] = IF \E c \in cs : c \in Opened /\ fd[c] = f THEN NoKey ELSE keys[f],
         \A f \in watched : f \in watched' \/ \E c \in cs : c \in Opened /\ fd[c] = f,
         spc' = "down" => \A c \in Opened : c \in cs
  PROVE  InlineKeys'
<1>1. \A c \in Conns : sock'[c] = IF c \in cs THEN "closed" ELSE sock[c]
  BY DEF CloseSocks
<1>2. \A c \in Conns : c \in Opened' <=> c \in Opened /\ c \notin cs
  BY <1>1 DEF Opened
<1>3. \A c \in Opened' : c \in Conns /\ c \in Opened /\ c \notin cs
  <2>1. \A c \in Opened' : c \in Conns
    BY DEF Opened
  <2>2. QED
    BY <1>2, <2>1
<1>4. \A c \in Conns : tracked'[c] <=> c \in Opened'
  BY <1>2 DEF InlineKeys
<1>5. ASSUME NEW c \in Opened' PROVE Watched(c)'
  <2>1. Watched(c)
    BY <1>3 DEF InlineKeys
  <2>2. fd[c] \in watched /\ fd[c] \in Fds /\ keys[fd[c]] # NoKey /\ keys[fd[c]].data = c
    BY <2>1 DEF Watched, InMap
  <2>3. ASSUME NEW d \in cs, d \in Opened, fd[d] = fd[c] PROVE FALSE
    <3>1. Watched(d)
      BY <2>3 DEF InlineKeys
    <3>2. d = c
      BY <2>2, <2>3, <3>1 DEF Watched
    <3>3. QED
      BY <1>3, <2>3, <3>2
  <2>4. keys'[fd[c]] = keys[fd[c]] /\ fd[c] \in watched'
    BY <2>2, <2>3
  <2>5. QED
    BY <2>2, <2>4 DEF Watched, InMap
<1>6. ASSUME NEW f \in Fds, InMap(f)' PROVE keys'[f].data \in Opened' /\ fd'[keys'[f].data] = f
  <2>1. keys'[f] = keys[f] /\ InMap(f) /\ ~\E c \in cs : c \in Opened /\ fd[c] = f
    BY <1>6 DEF InMap
  <2>2. keys[f].data \in Opened /\ fd[keys[f].data] = f
    BY <2>1 DEF InlineKeys
  <2>3. keys[f].data \in Conns
    BY <2>2 DEF Opened
  <2>4. keys[f].data \in Opened'
    BY <1>2, <2>1, <2>2, <2>3
  <2>5. QED
    BY <2>1, <2>2, <2>4
<1>7. spc' = "down" => Opened' = {}
  BY <1>3
<1>8. QED
  BY <1>4, <1>5, <1>6, <1>7 DEF InlineKeys

\* A step that leaves sockets and keys alone.
LEMMA InlineKeysFrame ==
  ASSUME InlineKeys, UNCHANGED <<sock, fd, keys, watched, tracked>>, spc' = "down" => spc = "down"
  PROVE  InlineKeys'
<1>1. Opened' = Opened
  BY DEF Opened
<1>2. \A c \in Opened : c \in Conns /\ Watched(c)' = Watched(c)
  BY DEF Opened, Watched, InMap
<1>3. \A f \in Fds : InMap(f)' = InMap(f)
  BY DEF InMap
<1>4. QED
  BY <1>1, <1>2, <1>3 DEF InlineKeys

LEMMA InlineSweep ==
  ASSUME WhoTypes, Referred, InlineKeys, CleanupStale
  PROVE  InlineKeys'
<1>1. \A c \in Stale : c \in Opened /\ c \in Conns /\ KeyFd(c) = fd[c] /\ sock[c] = "open"
  <2>1. \A c \in Stale : c \in Opened
    BY DEF Stale, InlineKeys
  <2>2. \A c \in Opened : c \in Conns /\ sock[c] = "open"
    BY DEF Opened
  <2>3. QED
    BY <2>1, <2>2, KeyFdFinds
<1>2. \A f : f \in {KeyFd(c) : c \in Stale} <=> \E c \in Stale : c \in Opened /\ fd[c] = f
  BY <1>1
<1>3. \A f : f \in FreedFds(Stale) <=> \E c \in Stale : c \in Opened /\ fd[c] = f
  BY <1>1 DEF FreedFds
<1>4. \A f \in Fds : keys'[f] = IF \E c \in Stale : c \in Opened /\ fd[c] = f
                                  THEN NoKey ELSE keys[f]
  <2>1. \A f \in Fds : keys'[f] = IF f \in {KeyFd(c) : c \in Stale} THEN NoKey ELSE keys[f]
    BY DEF CleanupStale
  <2>2. QED
    BY <1>2, <2>1
<1>5. watched' = watched \ ({KeyFd(c) : c \in Stale} \cup FreedFds(Stale))
  BY DEF CleanupStale
<1>6. \A f \in watched : f \in watched' \/ \E c \in Stale : c \in Opened /\ fd[c] = f
  BY <1>2, <1>3, <1>5
<1>7. /\ sock' = CloseSocks(Stale) /\ UNCHANGED fd /\ spc' # "down"
      /\ \A c \in Conns : tracked'[c] <=> tracked[c] /\ c \notin Stale
  BY DEF CleanupStale, AfterDrain
<1>8. QED
  BY <1>4, <1>6, <1>7, InlineClose

LEMMA InlineLoopClose ==
  ASSUME WhoTypes, Referred, InlineKeys, NEW d \in Conns, LoopClose(d)
  PROVE  InlineKeys'
<1>1. /\ d \in Opened /\ sock' = CloseSocks({d}) /\ UNCHANGED fd /\ spc' # "down"
      /\ keys' = Without(fd[d]) /\ watched' = watched \ {fd[d]}
      /\ tracked' = [tracked EXCEPT ![d] = FALSE]
  BY DEF LoopClose, CloseInline, Unregister, EndCallback, InlineKeys
<1>2. \A f \in Fds : keys'[f] = IF \E c \in {d} : c \in Opened /\ fd[c] = f THEN NoKey ELSE keys[f]
  BY <1>1 DEF Without
<1>3. \A f \in watched : f \in watched' \/ \E c \in {d} : c \in Opened /\ fd[c] = f
  BY <1>1
<1>4. \A c \in Conns : tracked'[c] <=> tracked[c] /\ c \notin {d}
  BY <1>1 DEF WhoTypes
<1>5. QED
  BY <1>1, <1>2, <1>3, <1>4, InlineClose

LEMMA InlineShutdownEnds ==
  ASSUME WhoTypes, Referred, InlineKeys, ShutdownEnds
  PROVE  InlineKeys'
<1>1. \A c \in Opened : c \in Registered /\ c \in Conns
  BY DEF InlineKeys, Watched, InMap, Registered, Opened
<1>2. Registered \subseteq Opened
  BY DEF InlineKeys, Registered
<1>3. Opened' = {}
  BY <1>1 DEF ShutdownEnds, CloseSocks, Opened
<1>4. \A c \in Conns : ~tracked'[c]
  BY <1>1 DEF ShutdownEnds, InlineKeys
<1>5. \A f \in Fds : ~InMap(f)'
  BY DEF ShutdownEnds, InMap
<1>6. QED
  BY <1>3, <1>4, <1>5 DEF InlineKeys

LEMMA InlineAccept ==
  ASSUME WhoTypes, Referred, InlineKeys, BatchAccept
  PROVE  InlineKeys'
<1>1. PICK a \in backlog, f \in FreeFds :
         /\ sock' = [sock EXCEPT ![a] = "open"]
         /\ fd' = [fd EXCEPT ![a] = f]
         /\ tracked' = [tracked EXCEPT ![a] = TRUE]
         /\ keys' = [keys EXCEPT ![f] =
                       [obj |-> IF InMap(f) THEN keys[f].obj ELSE a, data |-> a]]
         /\ watched' = IF InMap(f) THEN watched ELSE watched \cup {f}
  BY DEF BatchAccept
<1>2. a \in Conns /\ f \in Fds /\ sock[a] = "none" /\ spc' # "down"
  BY DEF FreeFds, BatchAccept, WhoTypes, Referred, loopVars
<1>3. \A c \in Opened : c \in Conns /\ fd[c] # f /\ c # a
  BY <1>2 DEF FreeFds, Opened
<1>4. ~InMap(f)
  BY <1>2, <1>3 DEF InlineKeys
<1>5. \A c \in Conns : c \in Opened' <=> c \in Opened \/ c = a
  BY <1>1, <1>2 DEF Opened, WhoTypes
<1>6. \A c \in Opened' : c \in Conns
  BY DEF Opened
<1>7. \A c \in Conns : tracked'[c] <=> c \in Opened'
  BY <1>1, <1>2, <1>5 DEF InlineKeys, WhoTypes
<1>8. /\ keys'[f] = [obj |-> a, data |-> a] /\ f \in watched' /\ fd'[a] = f
      /\ \A g \in Fds : g # f => keys'[g] = keys[g]
      /\ \A g \in watched : g \in watched'
      /\ \A c \in Conns : c # a => fd'[c] = fd[c]
  BY <1>1, <1>2, <1>4 DEF WhoTypes
<1>9. keys'[f] # NoKey /\ keys'[f].data = a
  BY <1>2, <1>8, SelectorAssumption DEF NoKey
<1>10. ASSUME NEW c \in Opened' PROVE Watched(c)'
  <2>1. CASE c = a
    BY <1>2, <1>8, <1>9, <2>1 DEF Watched, InMap
  <2>2. CASE c # a
    <3>1. c \in Opened /\ fd'[c] = fd[c] /\ fd[c] # f
      BY <1>3, <1>5, <1>6, <1>8, <2>2
    <3>2. fd[c] \in watched /\ fd[c] \in Fds /\ keys[fd[c]] # NoKey /\ keys[fd[c]].data = c
      BY <3>1 DEF InlineKeys, Watched, InMap
    <3>3. QED
      BY <1>8, <3>1, <3>2 DEF Watched, InMap
  <2>3. QED
    BY <2>1, <2>2
<1>11. ASSUME NEW g \in Fds, InMap(g)' PROVE keys'[g].data \in Opened' /\ fd'[keys'[g].data] = g
  <2>1. CASE g = f
    BY <1>2, <1>5, <1>8, <1>9, <2>1
  <2>2. CASE g # f
    <3>1. InMap(g) /\ keys'[g] = keys[g]
      BY <1>8, <1>11, <2>2 DEF InMap
    <3>2. keys[g].data \in Opened /\ fd[keys[g].data] = g
      BY <3>1 DEF InlineKeys
    <3>3. keys[g].data \in Conns /\ keys[g].data # a
      BY <1>3, <3>2
    <3>4. QED
      BY <1>5, <1>8, <3>1, <3>2, <3>3
  <2>3. QED
    BY <2>1, <2>2
<1>12. QED
  BY <1>2, <1>7, <1>10, <1>11 DEF InlineKeys

LEMMA InlineKeysNext ==
  ASSUME WhoTypes, Referred, InlineQueue, InlineKeys, ~Pooled, [Next]_vars
  PROVE  InlineKeys'
<1> USE DEF vars, kernelVars, keyVars, loopVars, connVars
<1>1. CASE DrainOp
  <2>1. Head(ops).op = "cleanup" /\ UNCHANGED <<fd, spc>>
    BY <1>1, HeadIsCleanup DEF DrainOp
  <2>2. UNCHANGED <<tracked, sock, keys, watched>>
    BY <1>1, <2>1 DEF DrainOp
  <2>3. QED
    BY <2>1, <2>2, InlineKeysFrame
<1>2. CASE ShutdownOp
  <2>1. Head(ops).op = "cleanup" /\ UNCHANGED <<fd, keys, spc>>
    BY <1>2, HeadIsCleanup DEF ShutdownOp
  <2>2. UNCHANGED <<tracked, sock, watched>>
    BY <1>2, <2>1 DEF ShutdownOp
  <2>3. QED
    BY <2>1, <2>2, InlineKeysFrame
<1>3. ASSUME NEW c \in Conns, LoopStep(c) PROVE InlineKeys'
  <2>1. CASE LoopClose(c)
    BY <2>1, InlineLoopClose
  <2>2. CASE ~LoopClose(c)
    <3>1. UNCHANGED <<sock, fd, keys, watched, tracked>> /\ spc' # "down"
      BY <1>3, <2>2 DEF LoopStep, LoopUntracked, LoopReceive, LoopBlock, LoopDispatch, LoopAnswer,
         EndCallback, StayInLoop, InLoop
    <3>2. QED
      BY <3>1, InlineKeysFrame
  <2>3. QED
    BY <2>1, <2>2
<1>4. CASE DrainDone \/ Select \/ BatchWakeup \/ BatchAcceptFails \/ BatchConn \/ BatchDone
           \/ ShutdownBegins \/ PostCleanup \/ UNCHANGED vars \/ \E c \in Conns : ClientStep(c)
  <2>1. UNCHANGED <<sock, fd, keys, watched, tracked>> /\ (spc' = "down" => spc = "down")
    BY <1>4 DEF DrainDone, AfterDrain, Select, BatchWakeup, BatchAcceptFails, BatchConn, BatchDone,
       ShutdownBegins, PostCleanup, ClientStep, ClientConnects, ClientSends, ClientCloses, TimePasses
  <2>2. QED
    BY <2>1, InlineKeysFrame
<1>5. QED
  BY <1>1, <1>2, <1>3, <1>4, NoWorker, InlineSweep, InlineAccept, InlineShutdownEnds
     DEF Next, SelectorStep, ShutdownStep

\* A step that leaves requests and deadlines alone.
LEMMA InlineCycleFrame ==
  ASSUME InlineCycle, UNCHANGED <<parser, answered, buf, close_at>>,
         \A c \in Conns : sock[c] # "none" => sock'[c] # "none",
         \A c \in Conns : sock'[c] = "open" /\ parser[c] # "idle" =>
                             cur' = c \/ (sock[c] = "open" /\ cur # c)
  PROVE  InlineCycle'
<1>1. \A c \in Conns : /\ parser'[c] # "request" /\ (sock'[c] = "none" => parser'[c] = "idle")
                       /\ answered'[c] > 0 /\ buf'[c] = 0 /\ parser'[c] = "idle"
                              => close_at'[c] = "keep_alive"
  BY DEF InlineCycle
<1>2. ASSUME NEW c \in Opened', parser'[c] # "idle" PROVE cur' = c
  <2>1. c \in Conns /\ sock'[c] = "open"
    BY DEF Opened
  <2>2. cur' = c \/ (c \in Opened /\ cur # c)
    BY <1>2, <2>1 DEF Opened
  <2>3. QED
    BY <1>2, <2>2 DEF InlineCycle
<1>3. QED
  BY <1>1, <1>2 DEF InlineCycle

\* One turn of the loop that reads, answers or waits.
LEMMA InlineTurn ==
  ASSUME WhoTypes, Counts, InlineKeys, InlineCycle, NEW c \in Conns,
         LoopReceive(c) \/ LoopBlock(c) \/ LoopAnswer(c)
  PROVE  InlineCycle'
<1>1. /\ c \in Opened /\ sock[c] = "open" /\ UNCHANGED sock /\ cur = c
      /\ parser[c] \in {"idle", "done"} /\ buf[c] \in Nat /\ wire[c] \in Nat
  BY DEF LoopReceive, LoopBlock, LoopAnswer, InLoop, Between, InlineKeys, Opened, Counts, kernelVars
<1>2. ASSUME NEW d \in Conns, d # c
      PROVE  /\ parser'[d] = parser[d] /\ answered'[d] = answered[d]
             /\ buf'[d] = buf[d] /\ close_at'[d] = close_at[d]
  BY <1>2 DEF LoopReceive, ReadWire, LoopBlock, LoopAnswer, TakeRequest, StartNextCycle, Counts,
     history
<1>3. /\ parser'[c] # "request"
      /\ parser'[c] # "idle" => cur' = c
      /\ answered'[c] > 0 /\ buf'[c] = 0 /\ parser'[c] = "idle" => close_at'[c] = "keep_alive"
  <2>1. CASE LoopReceive(c)
    <3>1. parser'[c] = "idle" /\ buf'[c] = buf[c] + wire[c] /\ wire[c] > 0
      BY <2>1 DEF LoopReceive, ReadWire, Counts
    <3>2. QED
      BY <1>1, <3>1
  <2>2. CASE LoopBlock(c)
    <3>1. parser'[c] = "idle" /\ buf'[c] = buf[c] /\ answered'[c] = answered[c]
      BY <2>2 DEF LoopBlock, Counts, history
    <3>2. CASE parser[c] = "done"
      BY <2>2, <3>1, <3>2 DEF LoopBlock, StartNextCycle, Counts
    <3>3. CASE parser[c] = "idle"
      BY <2>2, <3>1, <3>3 DEF LoopBlock, StartNextCycle, InlineCycle
    <3>4. QED
      BY <1>1, <3>2, <3>3
  <2>3. CASE LoopAnswer(c)
    BY <1>1, <2>3 DEF LoopAnswer, StayInLoop, loopVars, Counts
  <2>4. QED
    BY <2>1, <2>2, <2>3
<1>4. ASSUME NEW d \in Opened', parser'[d] # "idle" PROVE cur' = d
  <2>1. d \in Conns /\ d \in Opened
    BY <1>1 DEF Opened
  <2>2. QED
    BY <1>1, <1>2, <1>3, <1>4, <2>1 DEF InlineCycle
<1>5. \A d \in Conns : parser'[d] # "request" /\ (sock'[d] = "none" => parser'[d] = "idle")
  BY <1>1, <1>2, <1>3 DEF InlineCycle
<1>6. \A d \in Conns : answered'[d] > 0 /\ buf'[d] = 0 /\ parser'[d] = "idle" =>
         close_at'[d] = "keep_alive"
  BY <1>2, <1>3 DEF InlineCycle
<1>7. QED
  BY <1>4, <1>5, <1>6 DEF InlineCycle

LEMMA InlineCycleNext ==
  ASSUME WhoTypes, Referred, Counts, InlineInv, ~Pooled, [Next]_vars
  PROVE  InlineCycle'
<1> USE DEF vars, kernelVars, keyVars, loopVars, connVars, history
<1>1. InlineQueue /\ InlineKeys /\ InlineCycle
  BY DEF InlineInv
<1>2. CASE BatchAccept
  <2>1. PICK a \in backlog : sock' = [sock EXCEPT ![a] = "open"]
    BY <1>2 DEF BatchAccept
  <2>2. a \in Conns /\ sock[a] = "none" /\ parser[a] = "idle"
    BY <1>1, <2>1 DEF WhoTypes, Referred, InlineCycle
  <2>3. UNCHANGED <<parser, answered, buf, close_at, cur>>
    BY <1>2 DEF BatchAccept
  <2>4. \A c \in Conns : c # a => sock'[c] = sock[c]
    BY <2>1 DEF WhoTypes
  <2>5. \A c \in Conns : sock[c] # "none" => sock'[c] # "none"
    BY <2>2, <2>4
  <2>6. \A c \in Conns : sock'[c] = "open" /\ parser[c] # "idle" =>
                            cur' = c \/ (sock[c] = "open" /\ cur # c)
    BY <2>2, <2>3, <2>4
  <2>7. QED
    BY <1>1, <2>3, <2>5, <2>6, InlineCycleFrame
<1>3. ASSUME ~BatchAccept PROVE \A c \in Conns : sock'[c] = sock[c] \/ sock'[c] = "closed"
  BY <1>3, OnlyAcceptOpens
<1>4. ASSUME ~BatchAccept, UNCHANGED <<parser, answered, buf, close_at>>,
             \A c \in Conns : cur = c /\ sock'[c] = "open" => cur' = c
      PROVE  InlineCycle'
  <2>1. \A c \in Conns : sock[c] # "none" => sock'[c] # "none"
    BY <1>3, <1>4
  <2>2. \A c \in Conns : sock'[c] = "open" /\ parser[c] # "idle" =>
                            cur' = c \/ (sock[c] = "open" /\ cur # c)
    BY <1>3, <1>4
  <2>3. QED
    BY <1>1, <1>4, <2>1, <2>2, InlineCycleFrame
<1>5. ASSUME NEW c \in Conns, LoopStep(c) PROVE InlineCycle'
  <2>1. CASE LoopReceive(c) \/ LoopBlock(c) \/ LoopAnswer(c)
    BY <1>1, <2>1, InlineTurn
  <2>2. CASE LoopUntracked(c) \/ LoopClose(c)
    <3>1. ~BatchAccept /\ UNCHANGED <<parser, answered, buf, close_at>> /\ cur = c
      BY <2>2 DEF LoopUntracked, LoopClose, CloseInline, BatchAccept, InLoop
    <3>2. sock'[c] # "open"
      <4>1. CASE LoopUntracked(c)
        BY <1>1, <4>1 DEF LoopUntracked, InlineKeys, Opened
      <4>2. CASE LoopClose(c)
        BY <4>2 DEF LoopClose, CloseInline, CloseSocks
      <4>3. QED
        BY <2>2, <4>1, <4>2
    <3>3. QED
      BY <1>4, <3>1, <3>2
  <2>3. QED
    BY <1>5, <2>1, <2>2 DEF LoopStep, LoopDispatch
<1>6. CASE SelectorStep /\ ~BatchAccept /\ ~\E c \in Conns : LoopStep(c)
  <2>1. /\ UNCHANGED <<parser, answered, buf, close_at>>
        /\ UNCHANGED cur \/ spc = "batch"
    BY <1>1, <1>6, NoWorker DEF SelectorStep, DrainOp, DrainDone, CleanupStale, Select,
       BatchWakeup, BatchAcceptFails, BatchConn, BatchDone
  <2>2. spc = "batch" => \A c \in Conns : cur # c
    BY SelectorAssumption DEF Referred
  <2>3. QED
    BY <1>4, <1>6, <2>1, <2>2
<1>7. CASE PostCleanup \/ ShutdownStep \/ UNCHANGED vars \/ \E c \in Conns : ClientStep(c)
  <2>1. UNCHANGED <<parser, answered, buf, close_at, cur>>
    BY <1>7 DEF PostCleanup, ShutdownStep, ShutdownBegins, ShutdownOp, ShutdownEnds,
       ClientStep, ClientConnects, ClientSends, ClientCloses, TimePasses
  <2>2. QED
    BY <1>2, <1>4, <2>1
<1>8. QED
  BY <1>1, <1>2, <1>5, <1>6, <1>7, NoWorker DEF Next

LEMMA InlineInvariant == ~Pooled => (Spec => [](OwnerInv /\ Counts /\ InlineInv))
<1> SUFFICES ASSUME ~Pooled PROVE Spec => [](OwnerInv /\ Counts /\ InlineInv)
  OBVIOUS
<1>1. OwnerInv /\ Counts /\ InlineInv /\ [Next]_vars => InlineInv'
  BY InlineQueueNext, InlineKeysNext, InlineCycleNext DEF OwnerInv, InlineInv
<1>2. QED
  BY CountsInvariant, InlineInit, <1>1, PTL DEF Spec

LEMMA InlineFollows ==
  ASSUME OwnerInv, Counts, InlineInv
  PROVE  ConnectionsSafe /\ CycleInStep /\ ShutdownClosesAll
<1>1. InlineKeys /\ InlineCycle
  BY DEF InlineInv
<1>2. NoOrphan
  BY <1>1 DEF NoOrphan, InlineKeys, Opened
<1>3. ConnectionsSafe
  BY <1>2, TypesFollow, OwnersFollow DEF ConnectionsSafe
<1>4. ASSUME NEW c \in Conns, Watched(c), cur # c, answered[c] > 0, buf[c] = 0
      PROVE  close_at[c] = "keep_alive"
  <2>1. c \in Opened
    BY <1>1, <1>4 DEF Watched, InMap, InlineKeys
  <2>2. parser[c] = "idle"
    BY <1>1, <1>4, <2>1 DEF InlineCycle
  <2>3. QED
    BY <1>1, <1>4, <2>2 DEF InlineCycle
<1>5. CycleInStep
  BY <1>4, CountsBound DEF CycleInStep
<1>6. ShutdownClosesAll
  BY <1>1 DEF ShutdownClosesAll, InlineKeys, Opened
<1>7. QED
  BY <1>3, <1>5, <1>6

\* With handlers on the selector thread nothing is asked of the descriptors: the
\* selector's map is exactly the open connections, several requests of one
\* callback leave the connection in step, and shutdown closes every one
\* (_loop, start_next_cycle, Selector.shutdown).
THEOREM InlineHandlersInStep ==
  ~Pooled => (Spec => [](ConnectionsSafe /\ CycleInStep /\ ShutdownClosesAll))
<1>1. OwnerInv /\ Counts /\ InlineInv => ConnectionsSafe /\ CycleInStep /\ ShutdownClosesAll
  BY InlineFollows
<1>2. QED
  BY InlineInvariant, <1>1, PTL

\* And so shutdown leaves none behind: when the selector is down and no worker
\* runs, every connection it accepted is closed (Selector.shutdown).
THEOREM InlineShutdownCloses ==
  ~Pooled => (Spec => []ShutdownClosesAll)
<1>1. OwnerInv /\ Counts /\ InlineInv => ShutdownClosesAll
  BY InlineFollows
<1>2. QED
  BY InlineInvariant, <1>1, PTL
=============================================================================
