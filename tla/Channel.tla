------------------------------- MODULE Channel -------------------------------
(***************************************************************************)
(* The thread-to-thread channel of localpost/threadtools/_channel.py.      *)
(*                                                                         *)
(* Every "with state:" block of the code holds one lock from its first to  *)
(* its last statement, so it is one action here; Condition.wait releases   *)
(* the lock, so it ends an action, and the wake-up is another.  After a    *)
(* wait the code leaves the block and enters it again, which is why Wake   *)
(* (leave) and the next check are two actions.                             *)
(*                                                                         *)
(* A thread uses one handle for its whole life (Via); several threads may  *)
(* share one.  Items are numbered in the order their puts begin.           *)
(***************************************************************************)
EXTENDS Integers, Sequences, FiniteSets, Functions

CONSTANTS
    Senders,        \* threads that call put and put_nowait
    Receivers,      \* threads that call get and get_nowait
    SendHandles,    \* _SendChannel objects, the first one and its clones
    RecvHandles,    \* _ReceiveChannel objects
    Via,            \* the handle each thread uses
    Timed,          \* the threads that give their calls a timeout
    FirstSend, FirstRecv,   \* the two handles Channel.create returns
    Capacity,       \* 0: rendezvous, n > 0: bounded, Unbounded: None
    Unbounded,
    MaxItems        \* bound: how many items are ever put

Threads == Senders \cup Receivers
Handles == SendHandles \cup RecvHandles

ASSUME ChannelAssumption ==
    /\ IsFiniteSet(Senders) /\ IsFiniteSet(Receivers)
    /\ IsFiniteSet(SendHandles) /\ IsFiniteSet(RecvHandles)
    /\ Senders \cap Receivers = {}
    /\ SendHandles \cap RecvHandles = {}
    /\ FirstSend \in SendHandles /\ FirstRecv \in RecvHandles
    /\ Via \in [Threads -> Handles]
    /\ \A s \in Senders : Via[s] \in SendHandles
    /\ \A r \in Receivers : Via[r] \in RecvHandles
    /\ Timed \subseteq Threads
    /\ Unbounded \notin Nat
    /\ Capacity \in Nat \cup {Unbounded}
    /\ MaxItems \in Nat

VARIABLES
    buffer,
    open_send_channels, open_receive_channels,
    waiting_receivers,  \* threads between the two ends of get's wait
    pending_handoffs, items_consumed,       \* rendezvous bookkeeping
    not_empty, not_full,    \* the waiters asleep on each condition
    handle,     \* "unused" until cloned, "open", "closed" (_closed)
    pc, item, my_target, deadline, ret,     \* each thread's call
    puts,       \* items numbered so far
    sent, delivered     \* history: items appended, items taken, in order

stateVars == <<buffer, pending_handoffs, items_consumed>>
openVars  == <<open_send_channels, open_receive_channels, handle>>
condVars  == <<not_empty, not_full>>
history   == <<sent, delivered>>
callVars  == <<pc, item, my_target, deadline, ret, puts>>
vars == <<stateVars, openVars, waiting_receivers, condVars, callVars, history>>

-----------------------------------------------------------------------------
\* Condition.notify: one sleeper, if there is one, leaves the wait set.
\* CPython wakes the oldest; its documentation promises no order.
Notified(waiters) ==
    IF waiters = {} THEN {{}} ELSE {waiters \ {w} : w \in waiters}

\* Leaving a "with state" block (__exit__): when either side has no open
\* handle left, everybody is woken.
Exit(ne, nf) ==
    IF open_send_channels' = 0 \/ open_receive_channels' = 0
      THEN not_empty' = {} /\ not_full' = {}
      ELSE not_empty' = ne /\ not_full' = nf

\* close() wakes everybody, whatever the counts.
BroadcastReceivers == not_empty' = {} /\ UNCHANGED not_full    \* mutant

Broadcast == not_empty' = {} /\ not_full' = {}

\* ChannelState.can_put and can_put_nowait, once a receiver is known to exist.
UnclaimedReceiver == waiting_receivers > pending_handoffs

HasRoom == Capacity # Unbounded => Len(buffer) < Capacity

CanPut ==
    IF Capacity = 0 THEN UnclaimedReceiver \/ buffer = <<>> ELSE HasRoom

CanPutNowait == IF Capacity = 0 THEN UnclaimedReceiver ELSE HasRoom

Closed(t) == handle[Via[t]] = "closed"

\* The call of thread t ends with outcome r.
Return(t, r) ==
    /\ pc' = [pc EXCEPT ![t] = "idle"]
    /\ ret' = [ret EXCEPT ![t] = r]
    /\ my_target' = [my_target EXCEPT ![t] = 0]
    /\ deadline' = [deadline EXCEPT ![t] = "none"]

\* The call goes on at l.
Goto(t, l) ==
    /\ pc' = [pc EXCEPT ![t] = l]
    /\ UNCHANGED <<ret, my_target, deadline>>

\* A call that raises: the block is left, nothing else changes.
Raise(t, r) ==
    /\ UNCHANGED <<stateVars, openVars, waiting_receivers, item, puts, history>>
    /\ Return(t, r)
    /\ Exit(not_empty, not_full)

\* An item enters the buffer, and one sleeping receiver is notified.
EnqueueLeft(x) ==       \* mutant: appendleft
    /\ buffer' = <<x>> \o buffer
    /\ sent' = Append(sent, x)
    /\ \E ne \in Notified(not_empty) : Exit(ne, not_full)

EnqueueSilently(x) ==   \* mutant: no notify
    /\ buffer' = Append(buffer, x)
    /\ sent' = Append(sent, x)
    /\ Exit(not_empty, not_full)

EnqueueWakesSender(x) ==    \* mutant: the other condition is notified
    /\ buffer' = Append(buffer, x)
    /\ sent' = Append(sent, x)
    /\ \E nf \in Notified(not_full) : Exit(not_empty, nf)

Enqueue(x) ==
    /\ buffer' = Append(buffer, x)
    /\ sent' = Append(sent, x)
    /\ \E ne \in Notified(not_empty) : Exit(ne, not_full)

\* The oldest item leaves the buffer, and one sleeping sender is notified.
Dequeue ==
    /\ buffer # <<>>
    /\ buffer' = Tail(buffer)
    /\ delivered' = Append(delivered, Head(buffer))
    /\ \E nf \in Notified(not_full) : Exit(not_empty, nf)

\* Rendezvous: the count at which the item just appended has been consumed,
\* and the claim on a receiver that a consumed item gives up.
TargetNext == items_consumed + 1    \* mutant

HandoffTarget == items_consumed + Len(buffer')

ReleaseAlways == pending_handoffs' = pending_handoffs - 1   \* mutant

ReleaseClaim ==
    pending_handoffs' = pending_handoffs - (IF pending_handoffs > 0 THEN 1 ELSE 0)

-----------------------------------------------------------------------------
Init ==
    /\ buffer = <<>>
    /\ open_send_channels = 1 /\ open_receive_channels = 1
    /\ waiting_receivers = 0 /\ pending_handoffs = 0 /\ items_consumed = 0
    /\ not_empty = {} /\ not_full = {}
    /\ handle = [h \in Handles |->
                    IF h \in {FirstSend, FirstRecv} THEN "open" ELSE "unused"]
    /\ pc = [t \in Threads |-> "idle"]
    /\ item = [s \in Senders |-> 0]
    /\ my_target = [t \in Threads |-> 0]
    /\ deadline = [t \in Threads |-> "none"]
    /\ ret = [t \in Threads |-> "none"]
    /\ puts = 0
    /\ sent = <<>> /\ delivered = <<>>

\* put or get is called, with or without a timeout.
Call(t, l) ==
    /\ pc[t] = "idle" /\ handle[Via[t]] # "unused"
    /\ pc' = [pc EXCEPT ![t] = l]
    /\ ret' = [ret EXCEPT ![t] = "none"]
    /\ deadline' = [deadline EXCEPT
                      ![t] = IF t \in Timed THEN "pending" ELSE "none"]
    /\ UNCHANGED <<stateVars, openVars, waiting_receivers, condVars, my_target,
                   history>>

CallPut(s) ==
    /\ puts < MaxItems
    /\ Call(s, "phase1")
    /\ puts' = puts + 1
    /\ item' = [item EXCEPT ![s] = puts + 1]

CallGet(r) == Call(r, "get") /\ UNCHANGED <<item, puts>>

\* Time passes: the deadline of a running call is reached.
Expire(t) ==
    /\ deadline[t] = "pending"
    /\ deadline' = [deadline EXCEPT ![t] = "passed"]
    /\ UNCHANGED <<stateVars, openVars, waiting_receivers, condVars, pc, item,
                   my_target, ret, puts, history>>

\* Where a waiting thread continues, and the condition it sleeps on.
After(l) ==
    IF l = "wait1" THEN "phase1" ELSE IF l = "wait2" THEN "phase2" ELSE "get"

Waiting(t) == pc[t] \in {"wait1", "wait2", "waitget"}
Asleep(t) == t \in not_empty \cup not_full

\* Condition.wait gives up at the deadline and leaves the wait set.
WaitTimesOut(t) ==
    /\ Asleep(t) /\ deadline[t] = "passed"
    /\ not_empty' = not_empty \ {t} /\ not_full' = not_full \ {t}
    /\ UNCHANGED <<stateVars, openVars, waiting_receivers, callVars, history>>

\* get's finally clause: a receiver that leaves the wait is not counted on.
StopWaiting(t) ==
    waiting_receivers' =
        waiting_receivers - (IF pc[t] = "waitget" THEN 1 ELSE 0)

\* Condition.wait returns with the lock held again; get's finally clause runs,
\* and the block is left.
Wake(t) ==
    /\ Waiting(t) /\ ~Asleep(t)
    /\ Goto(t, After(pc[t]))
    /\ StopWaiting(t)
    /\ UNCHANGED <<stateVars, openVars, item, puts, history>>
    /\ Exit(not_empty, not_full)

-----------------------------------------------------------------------------
\* _SendChannel.put, phase 1: wait for room.
PutClosed(s) ==
    /\ pc[s] = "phase1"
    /\ Closed(s) \/ open_receive_channels = 0
    /\ Raise(s, "closed")

PutAppend(s) ==
    /\ pc[s] = "phase1" /\ ~Closed(s) /\ open_receive_channels # 0
    /\ CanPut
    /\ UNCHANGED <<items_consumed, openVars, waiting_receivers, item, puts,
                   delivered>>
    /\ Enqueue(item[s])
    /\ IF Capacity = 0
         THEN /\ pending_handoffs' =
                    pending_handoffs + (IF UnclaimedReceiver THEN 1 ELSE 0)
              /\ my_target' = [my_target EXCEPT ![s] = HandoffTarget]
              /\ pc' = [pc EXCEPT ![s] = "phase2"]
              /\ UNCHANGED <<ret, deadline>>
         ELSE /\ Return(s, "ok")
              /\ UNCHANGED pending_handoffs

PutTimeout(s) ==
    /\ pc[s] = "phase1" /\ ~Closed(s) /\ open_receive_channels # 0
    /\ ~CanPut /\ deadline[s] = "passed"
    /\ Raise(s, "timeout")

PutWait(s) ==
    /\ pc[s] = "phase1" /\ ~Closed(s) /\ open_receive_channels # 0
    /\ ~CanPut /\ deadline[s] # "passed"
    /\ Goto(s, "wait1")
    /\ not_full' = not_full \cup {s}
    /\ UNCHANGED <<stateVars, openVars, waiting_receivers, not_empty, item,
                   puts, history>>

\* _SendChannel.put, phase 2 (rendezvous only): wait for the handoff.
Consumed(s) == items_consumed >= my_target[s]

HandoffClosed(s) ==
    /\ pc[s] = "phase2" /\ Closed(s)
    /\ Raise(s, "closed")

HandoffReturn(s) ==
    /\ pc[s] = "phase2" /\ ~Closed(s)
    /\ Consumed(s) \/ open_receive_channels = 0
    /\ Raise(s, "ok")

HandoffTimeout(s) ==
    /\ pc[s] = "phase2" /\ ~Closed(s)
    /\ ~Consumed(s) /\ open_receive_channels # 0 /\ deadline[s] = "passed"
    /\ Raise(s, "timeout")

HandoffWait(s) ==
    /\ pc[s] = "phase2" /\ ~Closed(s)
    /\ ~Consumed(s) /\ open_receive_channels # 0 /\ deadline[s] # "passed"
    /\ Goto(s, "wait2")
    /\ not_full' = not_full \cup {s}
    /\ UNCHANGED <<stateVars, openVars, waiting_receivers, not_empty, item,
                   puts, history>>

\* _SendChannel.put_nowait when it succeeds.  When it raises it changes nothing.
PutNowait(s) ==
    /\ pc[s] = "idle" /\ handle[Via[s]] = "open" /\ open_receive_channels # 0
    /\ puts < MaxItems
    /\ CanPutNowait
    /\ UNCHANGED <<items_consumed, openVars, waiting_receivers, delivered>>
    /\ puts' = puts + 1
    /\ item' = [item EXCEPT ![s] = puts + 1]
    /\ Enqueue(puts + 1)
    /\ pending_handoffs' = pending_handoffs + (IF Capacity = 0 THEN 1 ELSE 0)
    /\ Return(s, "accepted")

-----------------------------------------------------------------------------
\* _ReceiveChannel._take, with the outcome of the call that took the item.
Take(r) ==
    /\ UNCHANGED <<openVars, waiting_receivers, item, puts, sent>>
    /\ Dequeue
    /\ IF Capacity = 0
         THEN items_consumed' = items_consumed + 1 /\ ReleaseClaim
         ELSE UNCHANGED <<items_consumed, pending_handoffs>>
    /\ Return(r, "ok")

GetClosed(r) == pc[r] = "get" /\ Closed(r) /\ Raise(r, "closed")

GetTake(r) == pc[r] = "get" /\ ~Closed(r) /\ Take(r)

GetEnd(r) ==
    /\ pc[r] = "get" /\ ~Closed(r) /\ buffer = <<>> /\ open_send_channels = 0
    /\ Raise(r, "eos")

GetTimeout(r) ==
    /\ pc[r] = "get" /\ ~Closed(r) /\ buffer = <<>> /\ open_send_channels # 0
    /\ deadline[r] = "passed"
    /\ Raise(r, "timeout")

GetWait(r) ==
    /\ pc[r] = "get" /\ ~Closed(r) /\ buffer = <<>> /\ open_send_channels # 0
    /\ deadline[r] # "passed"
    /\ Goto(r, "waitget")
    /\ waiting_receivers' = waiting_receivers + 1
    /\ not_empty' = not_empty \cup {r}
    /\ UNCHANGED <<stateVars, openVars, not_full, item, puts, history>>

\* _ReceiveChannel.get_nowait: an item, or the end of the stream.
GetNowait(r) ==
    /\ pc[r] = "idle" /\ handle[Via[r]] = "open"
    /\ \/ Take(r)
       \/ buffer = <<>> /\ open_send_channels = 0 /\ Raise(r, "eos")

-----------------------------------------------------------------------------
\* clone() and close() of either kind of handle, by any thread.
CloneSendClosed(g, h) ==    \* mutant: a closed handle can be cloned
    /\ handle[g] # "unused" /\ handle[h] = "unused"
    /\ handle' = [handle EXCEPT ![h] = "open"]
    /\ open_send_channels' = open_send_channels + 1
    /\ UNCHANGED <<stateVars, open_receive_channels, waiting_receivers,
                   callVars, history>>
    /\ Exit(not_empty, not_full)

CloneSend(g, h) ==
    /\ handle[g] = "open" /\ handle[h] = "unused"
    /\ handle' = [handle EXCEPT ![h] = "open"]
    /\ open_send_channels' = open_send_channels + 1
    /\ UNCHANGED <<stateVars, open_receive_channels, waiting_receivers,
                   callVars, history>>
    /\ Exit(not_empty, not_full)

CloneRecv(g, h) ==
    /\ handle[g] = "open" /\ handle[h] = "unused"
    /\ handle' = [handle EXCEPT ![h] = "open"]
    /\ open_receive_channels' = open_receive_channels + 1
    /\ UNCHANGED <<stateVars, open_send_channels, waiting_receivers,
                   callVars, history>>
    /\ Exit(not_empty, not_full)

CloseSend(h) ==
    /\ handle[h] = "open"
    /\ handle' = [handle EXCEPT ![h] = "closed"]
    /\ open_send_channels' = open_send_channels - 1
    /\ UNCHANGED <<stateVars, open_receive_channels, waiting_receivers,
                   callVars, history>>
    /\ Broadcast

CloseRecv(h) ==
    /\ handle[h] = "open"
    /\ handle' = [handle EXCEPT ![h] = "closed"]
    /\ open_receive_channels' = open_receive_channels - 1
    /\ UNCHANGED <<stateVars, open_send_channels, waiting_receivers,
                   callVars, history>>
    /\ Broadcast

-----------------------------------------------------------------------------
PutStep(s) ==
    \/ PutClosed(s) \/ PutAppend(s) \/ PutTimeout(s) \/ PutWait(s)
    \/ HandoffClosed(s) \/ HandoffReturn(s) \/ HandoffTimeout(s)
    \/ HandoffWait(s)

GetStep(r) ==
    GetClosed(r) \/ GetTake(r) \/ GetEnd(r) \/ GetTimeout(r) \/ GetWait(r)

WaitStep(t) == Wake(t) \/ WaitTimesOut(t)

Next ==
    \/ \E s \in Senders : CallPut(s) \/ PutStep(s) \/ PutNowait(s)
    \/ \E r \in Receivers : CallGet(r) \/ GetStep(r) \/ GetNowait(r)
    \/ \E t \in Threads : Expire(t) \/ WaitStep(t)
    \/ \E g, h \in SendHandles : CloneSend(g, h)
    \/ \E g, h \in RecvHandles : CloneRecv(g, h)
    \/ \E h \in SendHandles : CloseSend(h)
    \/ \E h \in RecvHandles : CloseRecv(h)

Spec == Init /\ [][Next]_vars

\* A thread that is not asleep runs: it gets the lock and the processor in
\* the end.  Nobody is obliged to call, to close or to let time pass.
Fairness ==
    /\ \A s \in Senders : WF_vars(PutStep(s))
    /\ \A r \in Receivers : WF_vars(GetStep(r))
    /\ \A t \in Threads : WF_vars(WaitStep(t))

FairSpec == Spec /\ Fairness

-----------------------------------------------------------------------------
\* The type invariant: in particular pending_handoffs, a claim that _take may
\* release more than once, never goes below zero.
TypeOK ==
    /\ buffer \in Seq(1..MaxItems)
    /\ open_send_channels \in Int /\ open_receive_channels \in Int
    /\ waiting_receivers \in Int
    /\ pending_handoffs \in Nat /\ items_consumed \in Nat
    /\ not_empty \in SUBSET Receivers /\ not_full \in SUBSET Senders
    /\ handle \in [Handles -> {"unused", "open", "closed"}]
    /\ pc \in [Threads -> {"idle", "phase1", "wait1", "phase2", "wait2",
                           "get", "waitget"}]
    /\ item \in [Senders -> 0..MaxItems]
    /\ my_target \in [Threads -> Nat]
    /\ deadline \in [Threads -> {"none", "pending", "passed"}]
    /\ ret \in [Threads -> {"none", "ok", "accepted", "closed", "timeout", "eos"}]
    /\ puts \in 0..MaxItems
    /\ sent \in Seq(1..MaxItems) /\ delivered \in Seq(1..MaxItems)

\* Every accepted item is taken at most once, in the order of acceptance, and
\* is never lost: what was sent is what was delivered followed by the buffer.
ExactlyOnceInOrder == sent = delivered \o buffer /\ IsInjective(sent)

\* The counters agree with the handles and threads they count: clone, close
\* (idempotent) and the finally clause of get.
CountersExact ==
    /\ open_send_channels =
          Cardinality({h \in SendHandles : handle[h] = "open"})
    /\ open_receive_channels =
          Cardinality({h \in RecvHandles : handle[h] = "open"})
    /\ waiting_receivers =
          Cardinality({r \in Receivers : pc[r] = "waitget"})

\* EndOfStream is final: from then on nothing is buffered or accepted.
EndOfStreamIsFinal ==
    (\E r \in Receivers : ret[r] = "eos")
        => buffer = <<>> /\ open_send_channels = 0

\* A put in phase 2 finds out about exactly its own item: items_consumed has
\* reached my_target if and only if a receiver has taken that item.
TargetIsOwnItem ==
    \A s \in Senders : pc[s] \in {"phase2", "wait2"} =>
        (Consumed(s) <=> item[s] \in Range(delivered))

\* A rendezvous put that returns has handed its item over, unless the last
\* receiver went away while it waited.
PutHandsOver ==
    Capacity = 0 => \A s \in Senders : ret[s] = "ok" /\ pc[s] = "idle" =>
        item[s] \in Range(delivered) \/ open_receive_channels = 0

\* No wake-up of a receiver is lost: when receivers sleep, there are at least
\* as many awake in get, on an open handle, as there are items to take.
NoLostItem ==
    not_empty # {} =>
        Cardinality({r \in Receivers : /\ pc[r] # "idle" /\ ~Asleep(r)
                                       /\ ~Closed(r)}) >= Len(buffer)

\* No wake-up of a sender is lost (bounded): when senders sleep, there are at
\* least as many awake in put, on an open handle, as there are free places.
NoLostRoom ==
    Capacity \in Nat \ {0} /\ not_full # {} =>
        Cardinality({s \in Senders : /\ pc[s] # "idle" /\ ~Asleep(s)
                                     /\ ~Closed(s)}) >= Capacity - Len(buffer)

\* A receiver is not told the end of a stream that goes on, and while somebody sleeps
\* for an item, or for a place of a bounded channel, no item and no place is without
\* a thread awake for it (put, _take, close and the timeouts).  A rendezvous put may
\* sleep for a place that is there, and a sender for its taken handoff, with the
\* wake-up gone to another one (RendezvousPairsUp).
WaitersLearn == EndOfStreamIsFinal /\ NoLostItem /\ NoLostRoom

\* What a sender believes about its handoff is so.
HandoffExact == CountersExact /\ TargetIsOwnItem /\ PutHandsOver

\* What the comment on capacity 0 says of rendezvous senders ("with N waiting
\* receivers, up to N puts can be in flight"): no put sleeps for room while a
\* receiver sleeps for an item and every running call is asleep.
RendezvousPairsUp ==
    ~ /\ \E s \in Senders : pc[s] = "wait1"
      /\ not_empty # {}
      /\ \A t \in Threads : pc[t] # "idle" => Asleep(t)

\* close() of a thread's own handle, the end of the whole other side and the
\* caller's deadline each end a blocked call, in either phase of put and in get.
BlockedCallsEnd ==
    \A t \in Threads :
        (\/ Closed(t) \/ deadline[t] = "passed"
         \/ t \in Receivers /\ open_send_channels = 0
         \/ t \in Senders /\ open_receive_channels = 0) ~> pc[t] = "idle"

\* A receiver in get does not stay there while the buffer stays non-empty,
\* nor a sender in put while there is room (bounded and unbounded channels).
NobodyStarvesWhenReady ==
    /\ \A r \in Receivers :
          (pc[r] # "idle" /\ buffer # <<>>) ~> (pc[r] = "idle" \/ buffer = <<>>)
    /\ \A s \in Senders :
          (pc[s] # "idle" /\ HasRoom) ~> (pc[s] = "idle" \/ ~HasRoom)
-----------------------------------------------------------------------------
\* A channel is a queue between the set of its senders and the set of its
\* receivers; a rendezvous channel holds what is being handed over.
Abs == INSTANCE Fifo WITH
    Items <- 1 .. MaxItems, NoLimit <- Unbounded,
    Limit <- IF Capacity = 0 THEN Unbounded ELSE Capacity,
    queue <- buffer, accepted <- sent, taken <- delivered,
    sending <- open_send_channels # 0, receiving <- open_receive_channels # 0

\* The channel implements Fifo: handles that are cloned, closed and closed again
\* never bring an end back or end it early, and no put goes past the limit, past
\* the end of either side, or to another place than the tail.
ImplementsFifo == Abs!FifoSpec
=============================================================================
