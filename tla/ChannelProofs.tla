---------------------------- MODULE ChannelProofs ----------------------------
(***************************************************************************)
(* Proofs about Channel, for every number of threads, handles and items and*)
(* every capacity: its types, the order of its items, the counters of open *)
(* handles, that it implements Fifo, and what a sender of a rendezvous     *)
(* channel and a thread that sleeps on a condition may rely on.            *)
(***************************************************************************)
EXTENDS Channel, TLAPS, FiniteSetTheorems, SequenceTheorems

\* Which labels a thread of each kind can be at, and what is known there.
CallsOK ==
    /\ \A s \in Senders : pc[s] \in {"idle", "phase1", "wait1", "phase2", "wait2"}
    /\ \A r \in Receivers : pc[r] \in {"idle", "get", "waitget"}
    /\ \A s \in Senders : pc[s] # "idle" => item[s] \in 1..puts

\* Type correctness, with the facts about calls it depends on.
TInv == TypeOK /\ CallsOK

\* A fresh channel (Channel.create) is well typed.
LEMMA InitTInv == Init => TInv
  BY ChannelAssumption DEF Init, TInv, TypeOK, CallsOK, Threads, Handles

\* Every operation, on either side, keeps the state well typed.
LEMMA NextTInv == TInv /\ [Next]_vars => TInv'
<1> SUFFICES ASSUME TInv, [Next]_vars PROVE TInv'
  OBVIOUS
<1> USE ChannelAssumption DEF TInv, TypeOK, CallsOK, Threads, Handles, stateVars,
      openVars, condVars, callVars, history, Return, Goto, Exit, Raise, Notified,
      Enqueue, Dequeue, HandoffTarget, ReleaseClaim, StopWaiting
<1>1. ASSUME NEW s \in Senders, CallPut(s) PROVE TInv'
  BY <1>1 DEF CallPut, Call
<1>2. ASSUME NEW s \in Senders, PutClosed(s) PROVE TInv'
  BY <1>2 DEF PutClosed
<1>3. ASSUME NEW s \in Senders, PutAppend(s) PROVE TInv'
  <2>1. buffer' \in Seq(1..MaxItems) /\ sent' \in Seq(1..MaxItems)
    BY <1>3 DEF PutAppend
  <2>2. not_empty' \in SUBSET Receivers /\ not_full' \in SUBSET Senders
    BY <1>3 DEF PutAppend
  <2>3. UNCHANGED <<items_consumed, open_send_channels, open_receive_channels,
                    handle, waiting_receivers, item, puts, delivered>>
    BY <1>3 DEF PutAppend
  <2>4. pc[s] = "phase1"
    BY <1>3 DEF PutAppend
  <2>5. CASE Capacity = 0
    <3>1. /\ pc' = [pc EXCEPT ![s] = "phase2"]
          /\ UNCHANGED <<ret, deadline>>
          /\ my_target' = [my_target EXCEPT ![s] = items_consumed + Len(buffer')]
          /\ pending_handoffs' \in Nat
      BY <1>3, <2>5 DEF PutAppend
    <3>2. items_consumed + Len(buffer') \in Nat
      BY <2>1
    <3>3. QED
      BY <2>1, <2>2, <2>3, <2>4, <3>1, <3>2
  <2>6. CASE Capacity # 0
    <3>1. Return(s, "ok") /\ UNCHANGED pending_handoffs
      BY <1>3, <2>6 DEF PutAppend
    <3>2. QED
      BY <2>1, <2>2, <2>3, <2>4, <3>1
  <2>7. QED
    BY <2>5, <2>6
<1>4. ASSUME NEW s \in Senders, PutTimeout(s) PROVE TInv'
  BY <1>4 DEF PutTimeout
<1>5. ASSUME NEW s \in Senders, PutWait(s) PROVE TInv'
  BY <1>5, SMTT(30) DEF PutWait
<1>6. ASSUME NEW s \in Senders, HandoffClosed(s) PROVE TInv'
  BY <1>6 DEF HandoffClosed
<1>7. ASSUME NEW s \in Senders, HandoffReturn(s) PROVE TInv'
  BY <1>7 DEF HandoffReturn
<1>8. ASSUME NEW s \in Senders, HandoffTimeout(s) PROVE TInv'
  BY <1>8 DEF HandoffTimeout
<1>9. ASSUME NEW s \in Senders, HandoffWait(s) PROVE TInv'
  BY <1>9 DEF HandoffWait
<1>10. ASSUME NEW s \in Senders, PutNowait(s) PROVE TInv'
  BY <1>10 DEF PutNowait
<1>11. ASSUME NEW r \in Receivers, CallGet(r) PROVE TInv'
  BY <1>11 DEF CallGet, Call
<1>12. ASSUME NEW r \in Receivers, Take(r) PROVE TInv'
  <2>1. buffer' \in Seq(1..MaxItems) /\ delivered' \in Seq(1..MaxItems)
    BY <1>12, HeadTailProperties DEF Take
  <2>2. items_consumed' \in Nat /\ pending_handoffs' \in Nat
    <3>1. CASE Capacity = 0
      <4>1. items_consumed' = items_consumed + 1 /\ ReleaseClaim
        BY <1>12, <3>1 DEF Take
      <4>2. QED
        BY <4>1
    <3>2. CASE Capacity # 0
      BY <1>12, <3>2 DEF Take
    <3>3. QED
      BY <3>1, <3>2
  <2>3. not_empty' \in SUBSET Receivers /\ not_full' \in SUBSET Senders
    BY <1>12 DEF Take
  <2>4. QED
    BY <1>12, <2>1, <2>2, <2>3 DEF Take
<1>13. ASSUME NEW r \in Receivers, NEW o \in {"closed", "eos", "timeout"},
              Raise(r, o)
       PROVE  TInv'
  BY <1>13
<1>14. ASSUME NEW r \in Receivers, GetWait(r) PROVE TInv'
  BY <1>14 DEF GetWait
<1>15. ASSUME NEW t \in Threads, Expire(t) PROVE TInv'
  BY <1>15 DEF Expire
<1>16. ASSUME NEW t \in Threads, Wake(t) PROVE TInv'
  BY <1>16 DEF Wake, Waiting, After
<1>17. ASSUME NEW t \in Threads, WaitTimesOut(t) PROVE TInv'
  BY <1>17 DEF WaitTimesOut
<1>18. ASSUME NEW g \in SendHandles, NEW h \in SendHandles, CloneSend(g, h)
       PROVE  TInv'
  BY <1>18 DEF CloneSend
<1>19. ASSUME NEW g \in RecvHandles, NEW h \in RecvHandles, CloneRecv(g, h)
       PROVE  TInv'
  BY <1>19 DEF CloneRecv
<1>20. ASSUME NEW h \in SendHandles, CloseSend(h) PROVE TInv'
  BY <1>20 DEF CloseSend, Broadcast
<1>21. ASSUME NEW h \in RecvHandles, CloseRecv(h) PROVE TInv'
  BY <1>21 DEF CloseRecv, Broadcast
<1>22. CASE UNCHANGED vars
  BY <1>22 DEF vars
<1>23. QED
  BY <1>1, <1>2, <1>3, <1>4, <1>5, <1>6, <1>7, <1>8, <1>9, <1>10, <1>11, <1>12,
     <1>13, <1>14, <1>15, <1>16, <1>17, <1>18, <1>19, <1>20, <1>21, <1>22
  DEF Next, PutStep, GetStep, WaitStep, GetClosed, GetTake, GetEnd, GetTimeout,
      GetNowait

\* Type correctness of every reachable state of the channel.
THEOREM ChannelTypeOK == Spec => []TypeOK
<1>1. TInv => TypeOK
  BY DEF TInv
<1>2. QED
  BY InitTInv, NextTInv, <1>1, PTL DEF Spec

-----------------------------------------------------------------------------
\* Taking the head of b and appending it to d leaves their concatenation.
LEMMA TakeKeepsConcat ==
  ASSUME NEW S, NEW d \in Seq(S), NEW b \in Seq(S), b # <<>>
  PROVE  Append(d, Head(b)) \o Tail(b) = d \o b
<1>1. Head(b) = b[1] /\ b[1] \in S /\ Tail(b) \in Seq(S) /\ <<b[1]>> \in Seq(S)
  BY HeadTailProperties, EmptySeq, ElementOfSeq
<1>2. Len(b) \in Nat \ {0}
  BY EmptySeq
<1>3. 1 \in 1..Len(b) /\ Len(b) \in 1..Len(b)
  BY <1>2
<1>4. SubSeq(b, 1, Len(b)) = <<b[1]>> \o SubSeq(b, 1 + 1, Len(b))
  BY <1>3, SubSeqRecursiveFirst
<1>5. b = <<b[1]>> \o Tail(b)
  BY <1>4, SubSeqFull, TailIsSubSeq
<1>6. Append(d, b[1]) = d \o <<b[1]>>
  BY <1>1, AppendIsConcat
<1>7. (d \o <<b[1]>>) \o Tail(b) = d \o (<<b[1]>> \o Tail(b))
  BY <1>1, ConcatAssociative
<1>8. QED
  BY <1>1, <1>5, <1>6, <1>7

\* Appending to b is appending to d \o b.
LEMMA AppendToConcat ==
  ASSUME NEW S, NEW d \in Seq(S), NEW b \in Seq(S), NEW x \in S
  PROVE  d \o Append(b, x) = Append(d \o b, x)
  BY AppendIsConcat, ConcatAssociative, ConcatProperties, <<x>> \in Seq(S)

-----------------------------------------------------------------------------
\* The steps that leave the queue, its history and the items alone, and what
\* they may do to the calls of put.
Quiet ==
    /\ UNCHANGED <<stateVars, history, item, puts>>
    /\ \A s \in Senders :
          /\ pc'[s] \in {"phase1", "wait1"} => pc[s] \in {"phase1", "wait1"}
          /\ pc'[s] \in {"phase2", "wait2"} =>
                pc[s] \in {"phase2", "wait2"} /\ my_target'[s] = my_target[s]

\* Every step is quiet, begins a put, or moves an item.
LEMMA StepCases ==
  ASSUME TInv, [Next]_vars
  PROVE  \/ Quiet
         \/ \E s \in Senders : CallPut(s) \/ PutAppend(s) \/ PutNowait(s)
         \/ \E r \in Receivers : Take(r)
<1> USE ChannelAssumption DEF TInv, TypeOK, CallsOK, Threads, stateVars, openVars,
      callVars, history, Return, Goto, Raise, Quiet
<1>1. ASSUME NEW s \in Senders, PutStep(s), ~PutAppend(s) PROVE Quiet
  BY <1>1, SMTT(30) DEF PutStep, PutClosed, PutTimeout, PutWait, HandoffClosed,
     HandoffReturn, HandoffTimeout, HandoffWait
<1>2. ASSUME NEW r \in Receivers, CallGet(r) \/ GetStep(r) \/ GetNowait(r), ~Take(r)
      PROVE  Quiet
  BY <1>2, SMTT(30) DEF CallGet, Call, GetStep, GetClosed, GetTake, GetEnd, GetTimeout,
     GetWait, GetNowait
<1>3. ASSUME NEW t \in Threads, Expire(t) \/ WaitStep(t) PROVE Quiet
  BY <1>3 DEF Expire, WaitStep, Wake, WaitTimesOut, Waiting, After
<1>4. ASSUME NEW g, NEW h,
             CloneSend(g, h) \/ CloneRecv(g, h) \/ CloseSend(h) \/ CloseRecv(h)
      PROVE  Quiet
  BY <1>4 DEF CloneSend, CloneRecv, CloseSend, CloseRecv
<1>5. CASE UNCHANGED vars
  BY <1>5 DEF vars
<1>6. QED
  BY <1>1, <1>2, <1>3, <1>4, <1>5 DEF Next

-----------------------------------------------------------------------------
\* An item that is still to be appended is new: it is in no other hands and
\* not in the history.
Unsent(s) == pc[s] \in {"phase1", "wait1"}

Fresh ==
    /\ \A i \in 1..Len(sent) : sent[i] <= puts
    /\ \A s \in Senders : Unsent(s) => \A i \in 1..Len(sent) : sent[i] # item[s]
    /\ \A s1, s2 \in Senders :
          Unsent(s1) /\ Unsent(s2) /\ item[s1] = item[s2] => s1 = s2

Distinct == \A i, j \in 1..Len(sent) : sent[i] = sent[j] => i = j

\* What makes ExactlyOnceInOrder inductive.
OInv == sent = delivered \o buffer /\ Fresh /\ Distinct

\* A fresh channel has sent, delivered and buffered nothing.
LEMMA InitOInv == Init => OInv
<1>1. <<>> \in Seq(Int) /\ Len(<<>>) = 0
  BY EmptySeq
<1>2. <<>> \o <<>> = <<>>
  BY <1>1, ConcatEmptySeq
<1>3. SUFFICES ASSUME Init PROVE OInv
  OBVIOUS
<1>4. sent = delivered \o buffer
  BY <1>2, <1>3 DEF Init
<1>5. \A i \in 1..Len(sent) : FALSE
  BY <1>1, <1>3 DEF Init
<1>6. \A s \in Senders : ~Unsent(s)
  BY <1>3 DEF Init, Unsent, Threads
<1>7. QED
  BY <1>4, <1>5, <1>6 DEF OInv, Fresh, Distinct

\* Appending an item that no sender has still to send and that is new.
LEMMA AppendFresh ==
  ASSUME TInv, OInv, TInv', NEW s \in Senders, NEW x \in 1..MaxItems,
         sent' = Append(sent, x), x <= puts', puts <= puts',
         \A i \in 1..Len(sent) : sent[i] # x,
         \A t \in Senders : Unsent(t)' =>
              Unsent(t) /\ item'[t] = item[t] /\ item[t] # x
  PROVE  Fresh' /\ Distinct'
<1>0. sent \in Seq(1..MaxItems)
  BY DEF TInv, TypeOK
<1>1. /\ Len(sent) \in Nat
      /\ Len(sent') = Len(sent) + 1
      /\ \A i \in 1..Len(sent) : sent'[i] = sent[i] /\ sent[i] \in 1..MaxItems
      /\ sent'[Len(sent) + 1] = x
  <2>1. Len(sent) \in Nat /\ \A i \in 1..Len(sent) : sent[i] \in 1..MaxItems
    BY <1>0, LenProperties, ElementOfSeq
  <2>2. /\ Len(Append(sent, x)) = Len(sent) + 1
        /\ \A i \in 1..Len(sent) : Append(sent, x)[i] = sent[i]
        /\ Append(sent, x)[Len(sent) + 1] = x
    BY <1>0, AppendProperties
  <2>3. QED
    BY <2>1, <2>2
<1>2. puts \in Nat /\ puts' \in Nat
  BY DEF TInv, TypeOK
<1>3. \A i \in 1..Len(sent') : i \in 1..Len(sent) \/ i = Len(sent) + 1
  BY <1>1
<1>4. \A i \in 1..Len(sent') : sent'[i] <= puts'
  BY <1>1, <1>2, <1>3 DEF OInv, Fresh
<1>5. \A t \in Senders : Unsent(t)' => \A i \in 1..Len(sent') : sent'[i] # item'[t]
  BY <1>1, <1>3 DEF OInv, Fresh
<1>6. \A t1, t2 \in Senders :
         Unsent(t1)' /\ Unsent(t2)' /\ item'[t1] = item'[t2] => t1 = t2
  BY DEF OInv, Fresh
<1>7. Distinct'
  BY <1>1, <1>3 DEF OInv, Distinct
<1>8. QED
  BY <1>4, <1>5, <1>6, <1>7 DEF Fresh

\* put, put_nowait and _take keep the order and the freshness of items; no other
\* step moves an item.
LEMMA NextOInv == TInv /\ OInv /\ TInv' /\ [Next]_vars => OInv'
<1> SUFFICES ASSUME TInv, OInv, TInv', [Next]_vars PROVE OInv'
  OBVIOUS
<1> USE ChannelAssumption
<1>0. /\ buffer \in Seq(1..MaxItems) /\ delivered \in Seq(1..MaxItems)
      /\ sent \in Seq(1..MaxItems) /\ puts \in 0..MaxItems
      /\ pc \in [Threads -> {"idle", "phase1", "wait1", "phase2", "wait2",
                             "get", "waitget"}]
      /\ item \in [Senders -> 0..MaxItems]
      /\ Senders \subseteq Threads
  BY DEF TInv, TypeOK, Threads
<1>a. \A x \in 1..MaxItems :
         delivered \o Append(buffer, x) = Append(delivered \o buffer, x)
  <2>1. delivered \in Seq(1..MaxItems) /\ buffer \in Seq(1..MaxItems)
    BY <1>0
  <2>2. QED
    BY <2>1, AppendToConcat
<1>1. CASE Quiet
  BY <1>1, SMTT(30) DEF Quiet, OInv, Fresh, Distinct, Unsent, stateVars, history
<1>2. ASSUME NEW s \in Senders, CallPut(s) PROVE OInv'
  <2>1. /\ UNCHANGED <<buffer, sent, delivered>>
        /\ puts' = puts + 1
        /\ item' = [item EXCEPT ![s] = puts + 1]
        /\ pc' = [pc EXCEPT ![s] = "phase1"]
    BY <1>2 DEF CallPut, Call, stateVars, history
  <2>2. \A t \in Senders : Unsent(t) => item[t] \in 1..puts
    BY DEF TInv, CallsOK, Unsent
  <2>3. \A i \in 1..Len(sent) : sent[i] \in 1..puts
    BY <1>0, ElementOfSeq DEF OInv, Fresh
  <2>4. /\ item'[s] = puts + 1
        /\ \A t \in Senders \ {s} : item'[t] = item[t] /\ pc'[t] = pc[t]
    BY <1>0, <2>1
  <2>5. \A i \in 1..Len(sent') : sent'[i] <= puts'
    BY <1>0, <2>1, <2>3
  <2>6. ASSUME NEW t \in Senders, Unsent(t)', NEW i \in 1..Len(sent')
        PROVE  sent'[i] # item'[t]
    BY <1>0, <2>1, <2>3, <2>4, <2>6, SMTT(30) DEF OInv, Fresh, Unsent
  <2>7. ASSUME NEW t1 \in Senders, NEW t2 \in Senders,
               Unsent(t1)', Unsent(t2)', item'[t1] = item'[t2]
        PROVE  t1 = t2
    <3>1. \A t \in Senders \ {s} : Unsent(t)' => item'[t] \in 1..puts
      BY <2>2, <2>4 DEF Unsent
    <3>2. puts + 1 \notin 1..puts
      BY <1>0
    <3>3. CASE t1 # s /\ t2 # s
      BY <2>4, <2>7, <3>3 DEF OInv, Fresh, Unsent
    <3>4. QED
      BY <2>4, <2>7, <3>1, <3>2, <3>3
  <2>8. QED
    BY <2>1, <2>5, <2>6, <2>7 DEF OInv, Fresh, Distinct
<1>3. ASSUME NEW s \in Senders, PutAppend(s) PROVE OInv'
  <2>1. /\ buffer' = Append(buffer, item[s])
        /\ sent' = Append(sent, item[s])
        /\ UNCHANGED <<delivered, item, puts>>
        /\ pc[s] = "phase1"
    BY <1>3 DEF PutAppend, Enqueue
  <2>2. pc' = [pc EXCEPT ![s] = "phase2"] \/ pc' = [pc EXCEPT ![s] = "idle"]
    BY <1>3 DEF PutAppend, Return
  <2>3. item[s] \in 1..MaxItems /\ item[s] <= puts
    BY <1>0, <2>1 DEF TInv, CallsOK
  <2>4. \A t \in Senders : Unsent(t)' =>
           Unsent(t) /\ item'[t] = item[t] /\ item[t] # item[s]
    BY <1>0, <2>1, <2>2 DEF Unsent, OInv, Fresh
  <2>5. \A i \in 1..Len(sent) : sent[i] # item[s]
    BY <2>1 DEF OInv, Fresh, Unsent
  <2>6. Fresh' /\ Distinct'
    <3>1. item[s] <= puts' /\ puts <= puts'
      BY <1>0, <2>1, <2>3
    <3>2. QED
      BY <2>1, <2>3, <2>4, <2>5, <3>1, AppendFresh
  <2>7. sent' = delivered' \o buffer'
    <3>1. delivered \o Append(buffer, item[s]) = Append(delivered \o buffer, item[s])
      BY <2>3, <1>a
    <3>2. QED
      BY <2>1, <3>1 DEF OInv
  <2>8. QED
    BY <2>6, <2>7 DEF OInv
<1>4. ASSUME NEW s \in Senders, PutNowait(s) PROVE OInv'
  <2>1. /\ buffer' = Append(buffer, puts + 1)
        /\ sent' = Append(sent, puts + 1)
        /\ puts' = puts + 1
        /\ item' = [item EXCEPT ![s] = puts + 1]
        /\ pc' = [pc EXCEPT ![s] = "idle"]
        /\ UNCHANGED delivered
        /\ puts < MaxItems
    BY <1>4 DEF PutNowait, Return, Enqueue
  <2>2. \A t \in Senders : Unsent(t)' =>
           Unsent(t) /\ item'[t] = item[t] /\ item[t] # puts + 1
    <3>1. \A t \in Senders : Unsent(t)' => Unsent(t) /\ t # s
      BY <1>0, <2>1 DEF Unsent
    <3>2. \A t \in Senders : Unsent(t) => item[t] \in 1..puts
      BY DEF TInv, CallsOK, Unsent
    <3>3. QED
      BY <1>0, <2>1, <3>1, <3>2
  <2>3. \A i \in 1..Len(sent) : sent[i] # puts + 1
    BY <1>0, ElementOfSeq DEF OInv, Fresh
  <2>4. puts + 1 \in 1..MaxItems /\ puts <= puts' /\ puts + 1 <= puts'
    BY <1>0, <2>1
  <2>5. Fresh' /\ Distinct'
    BY <2>1, <2>2, <2>3, <2>4, AppendFresh
  <2>6. sent' = delivered' \o buffer'
    <3>1. delivered \o Append(buffer, puts + 1) = Append(delivered \o buffer, puts + 1)
      BY <2>4, <1>a
    <3>2. QED
      BY <2>1, <3>1 DEF OInv
  <2>7. QED
    BY <2>5, <2>6 DEF OInv
<1>5. ASSUME NEW r \in Receivers, Take(r) PROVE OInv'
  <2>1. /\ buffer # <<>> /\ buffer' = Tail(buffer)
        /\ delivered' = Append(delivered, Head(buffer))
        /\ UNCHANGED <<item, puts, sent>>
        /\ pc' = [pc EXCEPT ![r] = "idle"]
    BY <1>5 DEF Take, Return, Dequeue
  <2>2. sent' = delivered' \o buffer'
    BY <1>0, <2>1, TakeKeepsConcat DEF OInv
  <2>3. \A t \in Senders : pc'[t] = pc[t]
    BY <1>0, <2>1
  <2>4. QED
    BY <2>1, <2>2, <2>3, SMTT(30) DEF OInv, Fresh, Distinct, Unsent
<1>6. QED
  BY <1>1, <1>2, <1>3, <1>4, <1>5, StepCases

\* Every accepted item is taken at most once and in order, and none is lost
\* (put, put_nowait and _take), for any number of threads and any capacity.
THEOREM ChannelExactlyOnce == Spec => []ExactlyOnceInOrder
<1>1. TInv /\ OInv => ExactlyOnceInOrder
  BY LenProperties DEF TInv, TypeOK, OInv, Distinct, ExactlyOnceInOrder, IsInjective
<1>2. QED
  BY InitTInv, NextTInv, InitOInv, NextOInv, <1>1, PTL DEF Spec

-----------------------------------------------------------------------------
(***************************************************************************)
(* Channel implements Fifo: the counters of open handles are exact, so that*)
(* a side of the channel is there exactly as long as one of its handles is.*)
(***************************************************************************)

OpenSends == {h \in SendHandles : handle[h] = "open"}
OpenRecvs == {h \in RecvHandles : handle[h] = "open"}
InWait == {r \in Receivers : pc[r] = "waitget"}

\* A call runs on a handle that exists.
CallsHaveHandles == \A t \in Threads : pc[t] # "idle" => handle[Via[t]] # "unused"

\* CountersExact and CallsHaveHandles are inductive together with TInv.
CInv == CountersExact /\ CallsHaveHandles

\* The open handles of either side and the waiting receivers are finite sets.
LEMMA CountedAreFinite ==
  IsFiniteSet(OpenSends) /\ IsFiniteSet(OpenRecvs) /\ IsFiniteSet(InWait)
<1>1. OpenSends \subseteq SendHandles /\ OpenRecvs \subseteq RecvHandles
      /\ InWait \subseteq Receivers
  BY DEF OpenSends, OpenRecvs, InWait
<1>2. QED
  BY <1>1, FS_Subset, ChannelAssumption

\* Channel.create opens one handle of either kind, and nobody waits.
LEMMA InitCInv == Init => CInv
<1> SUFFICES ASSUME Init PROVE CInv
  OBVIOUS
<1> USE ChannelAssumption
<1>1. OpenSends = {FirstSend} /\ OpenRecvs = {FirstRecv} /\ InWait = {}
  BY DEF Init, OpenSends, OpenRecvs, InWait, Handles, Threads
<1>2. /\ Cardinality({FirstSend}) = 1 /\ Cardinality({FirstRecv}) = 1
      /\ Cardinality({}) = 0
  BY FS_Singleton, FS_EmptySet
<1>3. CountersExact
  BY <1>1, <1>2 DEF Init, CountersExact, OpenSends, OpenRecvs, InWait
<1>4. QED
  BY <1>3 DEF Init, CInv, CallsHaveHandles, Threads

-----------------------------------------------------------------------------
\* Only clone and close touch the handles and their counters.
LEMMA HandleCases ==
  ASSUME [Next]_vars
  PROVE  \/ UNCHANGED openVars
         \/ \E g, h \in SendHandles : CloneSend(g, h)
         \/ \E g, h \in RecvHandles : CloneRecv(g, h)
         \/ \E h \in SendHandles : CloseSend(h)
         \/ \E h \in RecvHandles : CloseRecv(h)
<1> USE DEF openVars
<1>1. ASSUME NEW s \in Senders, CallPut(s) \/ PutStep(s) \/ PutNowait(s)
      PROVE  UNCHANGED openVars
  BY <1>1 DEF CallPut, Call, PutStep, PutClosed, PutAppend, PutTimeout, PutWait,
     HandoffClosed, HandoffReturn, HandoffTimeout, HandoffWait, PutNowait, Raise
<1>2. ASSUME NEW r \in Receivers, CallGet(r) \/ GetStep(r) \/ GetNowait(r)
      PROVE  UNCHANGED openVars
  BY <1>2 DEF CallGet, Call, GetStep, GetClosed, GetTake, GetEnd, GetTimeout,
     GetWait, GetNowait, Take, Raise
<1>3. ASSUME NEW t \in Threads, Expire(t) \/ WaitStep(t) PROVE UNCHANGED openVars
  BY <1>3 DEF Expire, WaitStep, Wake, WaitTimesOut
<1>4. CASE UNCHANGED vars
  BY <1>4 DEF vars
<1>5. QED
  BY <1>1, <1>2, <1>3, <1>4 DEF Next

\* Only the two ends of get's wait touch the count of waiting receivers.
LEMMA WaitCases ==
  ASSUME TInv, [Next]_vars
  PROVE  \/ UNCHANGED waiting_receivers /\ InWait' = InWait
         \/ \E r \in Receivers : GetWait(r)
         \/ \E t \in Threads : Wake(t)
<1> USE ChannelAssumption DEF TInv, TypeOK, CallsOK, Threads, callVars, InWait,
      Return, Goto, Raise
<1>1. ASSUME NEW s \in Senders, CallPut(s) \/ PutStep(s) \/ PutNowait(s)
      PROVE  UNCHANGED waiting_receivers /\ InWait' = InWait
  BY <1>1 DEF CallPut, Call, PutStep, PutClosed, PutAppend, PutTimeout, PutWait,
     HandoffClosed, HandoffReturn, HandoffTimeout, HandoffWait, PutNowait
<1>2. ASSUME NEW r \in Receivers, CallGet(r) \/ GetStep(r) \/ GetNowait(r),
             ~GetWait(r)
      PROVE  UNCHANGED waiting_receivers /\ InWait' = InWait
  BY <1>2 DEF CallGet, Call, GetStep, GetClosed, GetTake, GetEnd, GetTimeout,
     GetNowait, Take
<1>3. ASSUME NEW t \in Threads, Expire(t) \/ WaitTimesOut(t)
      PROVE  UNCHANGED waiting_receivers /\ InWait' = InWait
  BY <1>3 DEF Expire, WaitTimesOut
<1>4. ASSUME NEW g, NEW h,
             CloneSend(g, h) \/ CloneRecv(g, h) \/ CloseSend(h) \/ CloseRecv(h)
      PROVE  UNCHANGED waiting_receivers /\ InWait' = InWait
  BY <1>4 DEF CloneSend, CloneRecv, CloseSend, CloseRecv
<1>5. CASE UNCHANGED vars
  BY <1>5 DEF vars
<1>6. QED
  BY <1>1, <1>2, <1>3, <1>4, <1>5 DEF Next, WaitStep

-----------------------------------------------------------------------------
\* clone and close keep the two counters of open handles exact.
LEMMA HandlesCounted ==
  ASSUME TInv, CountersExact, [Next]_vars
  PROVE  /\ open_send_channels' = Cardinality(OpenSends')
         /\ open_receive_channels' = Cardinality(OpenRecvs')
<1> USE ChannelAssumption
<1>0. /\ handle \in [Handles -> {"unused", "open", "closed"}]
      /\ open_send_channels = Cardinality(OpenSends)
      /\ open_receive_channels = Cardinality(OpenRecvs)
      /\ IsFiniteSet(OpenSends) /\ IsFiniteSet(OpenRecvs)
  BY CountedAreFinite DEF TInv, TypeOK, CountersExact, OpenSends, OpenRecvs
<1>1. CASE UNCHANGED openVars
  BY <1>0, <1>1 DEF openVars, OpenSends, OpenRecvs
<1>2. ASSUME NEW g \in SendHandles, NEW h \in SendHandles, CloneSend(g, h)
      PROVE  /\ open_send_channels' = Cardinality(OpenSends')
             /\ open_receive_channels' = Cardinality(OpenRecvs')
  <2>1. /\ OpenSends' = OpenSends \cup {h} /\ h \notin OpenSends
        /\ OpenRecvs' = OpenRecvs
    BY <1>0, <1>2 DEF CloneSend, OpenSends, OpenRecvs, Handles
  <2>2. Cardinality(OpenSends \cup {h}) = Cardinality(OpenSends) + 1
    BY <1>0, <2>1, FS_AddElement
  <2>3. QED
    BY <1>0, <1>2, <2>1, <2>2 DEF CloneSend
<1>3. ASSUME NEW g \in RecvHandles, NEW h \in RecvHandles, CloneRecv(g, h)
      PROVE  /\ open_send_channels' = Cardinality(OpenSends')
             /\ open_receive_channels' = Cardinality(OpenRecvs')
  <2>1. /\ OpenRecvs' = OpenRecvs \cup {h} /\ h \notin OpenRecvs
        /\ OpenSends' = OpenSends
    BY <1>0, <1>3 DEF CloneRecv, OpenSends, OpenRecvs, Handles
  <2>2. Cardinality(OpenRecvs \cup {h}) = Cardinality(OpenRecvs) + 1
    BY <1>0, <2>1, FS_AddElement
  <2>3. QED
    BY <1>0, <1>3, <2>1, <2>2 DEF CloneRecv
<1>4. ASSUME NEW h \in SendHandles, CloseSend(h)
      PROVE  /\ open_send_channels' = Cardinality(OpenSends')
             /\ open_receive_channels' = Cardinality(OpenRecvs')
  <2>1. /\ OpenSends' = OpenSends \ {h} /\ h \in OpenSends
        /\ OpenRecvs' = OpenRecvs
    BY <1>0, <1>4 DEF CloseSend, OpenSends, OpenRecvs, Handles
  <2>2. Cardinality(OpenSends \ {h}) = Cardinality(OpenSends) - 1
    BY <1>0, <2>1, FS_RemoveElement
  <2>3. QED
    BY <1>0, <1>4, <2>1, <2>2 DEF CloseSend
<1>5. ASSUME NEW h \in RecvHandles, CloseRecv(h)
      PROVE  /\ open_send_channels' = Cardinality(OpenSends')
             /\ open_receive_channels' = Cardinality(OpenRecvs')
  <2>1. /\ OpenRecvs' = OpenRecvs \ {h} /\ h \in OpenRecvs
        /\ OpenSends' = OpenSends
    BY <1>0, <1>5 DEF CloseRecv, OpenSends, OpenRecvs, Handles
  <2>2. Cardinality(OpenRecvs \ {h}) = Cardinality(OpenRecvs) - 1
    BY <1>0, <2>1, FS_RemoveElement
  <2>3. QED
    BY <1>0, <1>5, <2>1, <2>2 DEF CloseRecv
<1>6. QED
  BY <1>1, <1>2, <1>3, <1>4, <1>5, HandleCases

\* get counts itself in before it waits and out, however the wait ends.
LEMMA WaitersCounted ==
  ASSUME TInv, CountersExact, [Next]_vars
  PROVE  waiting_receivers' = Cardinality(InWait')
<1> USE ChannelAssumption
<1>0. /\ pc \in [Threads -> {"idle", "phase1", "wait1", "phase2", "wait2",
                             "get", "waitget"}]
      /\ waiting_receivers = Cardinality(InWait) /\ IsFiniteSet(InWait)
  BY CountedAreFinite DEF TInv, TypeOK, CountersExact, InWait
<1>1. CASE UNCHANGED waiting_receivers /\ InWait' = InWait
  BY <1>0, <1>1
<1>2. ASSUME NEW r \in Receivers, GetWait(r)
      PROVE  waiting_receivers' = Cardinality(InWait')
  <2>1. InWait' = InWait \cup {r} /\ r \notin InWait
    BY <1>0, <1>2 DEF GetWait, Goto, InWait, Threads
  <2>2. Cardinality(InWait \cup {r}) = Cardinality(InWait) + 1
    BY <1>0, <2>1, FS_AddElement
  <2>3. QED
    BY <1>0, <1>2, <2>1, <2>2 DEF GetWait
<1>3. ASSUME NEW t \in Threads, Wake(t)
      PROVE  waiting_receivers' = Cardinality(InWait')
  <2>1. CASE pc[t] = "waitget"
    <3>1. t \in Receivers
      BY <2>1 DEF TInv, CallsOK, Threads
    <3>2. InWait' = InWait \ {t} /\ t \in InWait
      BY <1>0, <1>3, <2>1, <3>1 DEF Wake, Goto, After, InWait, Threads
    <3>3. Cardinality(InWait \ {t}) = Cardinality(InWait) - 1
      BY <1>0, <3>2, FS_RemoveElement
    <3>4. QED
      BY <1>0, <1>3, <2>1, <3>2, <3>3 DEF Wake, StopWaiting
  <2>2. CASE pc[t] # "waitget"
    <3>1. InWait' = InWait
      BY <1>0, <1>3, <2>2 DEF Wake, Waiting, Goto, After, InWait, Threads
    <3>2. waiting_receivers' = waiting_receivers - 0
      BY <1>3, <2>2 DEF Wake, StopWaiting
    <3>3. waiting_receivers \in Int
      BY DEF TInv, TypeOK
    <3>4. QED
      BY <1>0, <3>1, <3>2, <3>3
  <2>3. QED
    BY <2>1, <2>2
<1>4. QED
  BY <1>1, <1>2, <1>3, WaitCases

\* A call begins on a handle that exists, and a handle never stops existing.
LEMMA NextCallsHaveHandles ==
  TInv /\ CallsHaveHandles /\ [Next]_vars => CallsHaveHandles'
<1> SUFFICES ASSUME TInv, CallsHaveHandles, [Next]_vars PROVE CallsHaveHandles'
  OBVIOUS
<1> USE ChannelAssumption DEF TInv, TypeOK, Threads, Handles
<1>1. \A h \in Handles : handle[h] # "unused" => handle'[h] # "unused"
  BY HandleCases DEF openVars, CloneSend, CloneRecv, CloseSend, CloseRecv
<1>2. \A t \in Threads :
         pc'[t] # "idle" => pc[t] # "idle" \/ handle[Via[t]] # "unused"
  <2> USE DEF callVars, Return, Goto, Raise
  <2>0. CASE UNCHANGED vars
    BY <2>0 DEF vars
  <2>1. ASSUME NEW s \in Senders, CallPut(s) \/ PutStep(s) \/ PutNowait(s),
               NEW t \in Threads, pc'[t] # "idle"
        PROVE  pc[t] # "idle" \/ handle[Via[t]] # "unused"
    BY <2>1 DEF CallPut, Call, PutStep, PutClosed, PutAppend, PutTimeout, PutWait,
       HandoffClosed, HandoffReturn, HandoffTimeout, HandoffWait, PutNowait
  <2>2. ASSUME NEW r \in Receivers, CallGet(r) \/ GetStep(r) \/ GetNowait(r),
               NEW t \in Threads, pc'[t] # "idle"
        PROVE  pc[t] # "idle" \/ handle[Via[t]] # "unused"
    BY <2>2 DEF CallGet, Call, GetStep, GetClosed, GetTake, GetEnd, GetTimeout,
       GetWait, GetNowait, Take
  <2>3. ASSUME NEW u \in Threads, Expire(u) \/ WaitStep(u),
               NEW t \in Threads, pc'[t] # "idle"
        PROVE  pc[t] # "idle"
    BY <2>3 DEF Expire, WaitStep, Wake, WaitTimesOut, Waiting, After
  <2>4. ASSUME NEW g, NEW h,
               CloneSend(g, h) \/ CloneRecv(g, h) \/ CloseSend(h) \/ CloseRecv(h)
        PROVE  UNCHANGED pc
    BY <2>4 DEF CloneSend, CloneRecv, CloseSend, CloseRecv
  <2>5. QED
    BY <2>0, <2>1, <2>2, <2>3, <2>4 DEF Next
<1>3. \A t \in Threads : Via[t] \in Handles
  OBVIOUS
<1>4. QED
  BY <1>1, <1>2, <1>3 DEF CallsHaveHandles

\* Every operation keeps the counters and the handles of calls right.
LEMMA NextCInv == TInv /\ CInv /\ [Next]_vars => CInv'
  BY HandlesCounted, WaitersCounted, NextCallsHaveHandles
  DEF CInv, CountersExact, OpenSends, OpenRecvs, InWait

\* clone, close (idempotent) and the finally clause of get keep the counters the
\* guards of put and get rest on exact, whatever the order of the calls.
THEOREM ChannelCounters == Spec => []CountersExact
<1>1. CInv => CountersExact
  BY DEF CInv
<1>2. QED
  BY InitTInv, NextTInv, InitCInv, NextCInv, <1>1, PTL DEF Spec

-----------------------------------------------------------------------------
\* A side is there if a handle of it is open.
LEMMA OpenMeansThere ==
  ASSUME CountersExact
  PROVE  /\ \A h \in SendHandles : handle[h] = "open" => open_send_channels # 0
         /\ \A h \in RecvHandles : handle[h] = "open" => open_receive_channels # 0
<1>1. \A h \in SendHandles : handle[h] = "open" => OpenSends # {}
  BY DEF OpenSends
<1>2. \A h \in RecvHandles : handle[h] = "open" => OpenRecvs # {}
  BY DEF OpenRecvs
<1>3. /\ OpenSends # {} => Cardinality(OpenSends) # 0
      /\ OpenRecvs # {} => Cardinality(OpenRecvs) # 0
  BY CountedAreFinite, FS_EmptySet
<1>4. QED
  BY <1>1, <1>2, <1>3 DEF CountersExact, OpenSends, OpenRecvs

\* put and put_nowait are Put of the abstract queue.
LEMMA PutRefines ==
  ASSUME TInv, OInv, CInv, NEW s \in Senders, PutAppend(s) \/ PutNowait(s)
  PROVE  \E x \in 1..MaxItems : Abs!Put(x)
<1> DEFINE x == IF PutAppend(s) THEN item[s] ELSE puts + 1
<1> USE ChannelAssumption
<1>1. UNCHANGED <<delivered, open_send_channels, open_receive_channels>>
  BY DEF PutAppend, PutNowait, openVars
<1>2. x \in 1..MaxItems /\ buffer' = Append(buffer, x) /\ sent' = Append(sent, x)
  BY SMTT(30) DEF PutAppend, PutNowait, Enqueue, TInv, TypeOK, CallsOK
<1>3. handle[Via[s]] = "open" /\ open_receive_channels # 0
  <2>1. CASE PutNowait(s)
    BY <2>1 DEF PutNowait
  <2>2. CASE PutAppend(s)
    BY <2>2 DEF PutAppend, Closed, CInv, CallsHaveHandles, TInv, TypeOK, Threads
  <2>3. QED
    BY <2>1, <2>2
<1>4. open_send_channels # 0
  BY <1>3, OpenMeansThere DEF CInv
<1>5. Abs!Room
  BY DEF PutAppend, PutNowait, CanPut, CanPutNowait, HasRoom, Abs!Room
<1>6. \A i \in 1..Len(sent) : sent[i] # x
  <2>1. CASE PutAppend(s)
    BY <2>1 DEF PutAppend, OInv, Fresh, Unsent
  <2>2. CASE ~PutAppend(s)
    <3>1. \A i \in 1..Len(sent) : sent[i] \in 1..MaxItems /\ sent[i] <= puts
      BY ElementOfSeq DEF OInv, Fresh, TInv, TypeOK
    <3>2. QED
      BY <2>2, <3>1 DEF TInv, TypeOK
  <2>3. QED
    BY <2>1, <2>2
<1>7. QED
  BY <1>1, <1>2, <1>3, <1>4, <1>5, <1>6 DEF Abs!Put

\* get and get_nowait that return an item are Take of the abstract queue.
LEMMA TakeRefines ==
  ASSUME TInv, CInv, NEW r \in Receivers, GetTake(r) \/ GetNowait(r), Take(r)
  PROVE  Abs!Take
<1> USE ChannelAssumption
<1>1. handle[Via[r]] = "open"
  BY DEF GetTake, GetNowait, Closed, CInv, CallsHaveHandles, TInv, TypeOK, Threads
<1>2. open_receive_channels # 0
  BY <1>1, OpenMeansThere DEF CInv
<1>3. QED
  BY <1>2 DEF Take, Dequeue, openVars, Abs!Take

\* clone never brings a side back, because the handle it copies is open; close
\* may end one.
LEMMA HandlesRefine ==
  ASSUME TInv, CInv,
         \/ \E g, h \in SendHandles : CloneSend(g, h)
         \/ \E g, h \in RecvHandles : CloneRecv(g, h)
         \/ \E h \in SendHandles : CloseSend(h)
         \/ \E h \in RecvHandles : CloseRecv(h)
  PROVE  \/ Abs!SendersLeave
         \/ Abs!ReceiversLeave
         \/ UNCHANGED Abs!fifoVars
<1>0. open_send_channels \in Nat /\ open_receive_channels \in Nat
  BY CountedAreFinite, FS_CardinalityType DEF CInv, CountersExact, OpenSends, OpenRecvs
<1> USE DEF stateVars, history
<1>1. ASSUME NEW g \in SendHandles, NEW h \in SendHandles, CloneSend(g, h)
      PROVE  UNCHANGED Abs!fifoVars
  <2>1. open_send_channels # 0
    BY <1>1, OpenMeansThere DEF CInv, CloneSend
  <2>2. open_send_channels' # 0
    BY <1>0, <1>1 DEF CloneSend
  <2>3. QED
    BY <1>1, <2>1, <2>2 DEF CloneSend, Abs!fifoVars
<1>2. ASSUME NEW g \in RecvHandles, NEW h \in RecvHandles, CloneRecv(g, h)
      PROVE  UNCHANGED Abs!fifoVars
  <2>1. open_receive_channels # 0
    BY <1>2, OpenMeansThere DEF CInv, CloneRecv
  <2>2. open_receive_channels' # 0
    BY <1>0, <1>2 DEF CloneRecv
  <2>3. QED
    BY <1>2, <2>1, <2>2 DEF CloneRecv, Abs!fifoVars
<1>3. ASSUME NEW h \in SendHandles, CloseSend(h)
      PROVE  Abs!SendersLeave \/ UNCHANGED Abs!fifoVars
  <2>1. open_send_channels # 0
    BY <1>3, OpenMeansThere DEF CInv, CloseSend
  <2>2. QED
    BY <1>3, <2>1 DEF CloseSend, Abs!fifoVars, Abs!SendersLeave
<1>4. ASSUME NEW h \in RecvHandles, CloseRecv(h)
      PROVE  Abs!ReceiversLeave \/ UNCHANGED Abs!fifoVars
  <2>1. open_receive_channels # 0
    BY <1>4, OpenMeansThere DEF CInv, CloseRecv
  <2>2. QED
    BY <1>4, <2>1 DEF CloseRecv, Abs!fifoVars, Abs!ReceiversLeave
<1>5. QED
  BY <1>1, <1>2, <1>3, <1>4

\* Items move only where put appends one and where get takes one.
LEMMA ItemCases ==
  ASSUME [Next]_vars
  PROVE  \/ UNCHANGED <<buffer, sent, delivered>>
         \/ \E s \in Senders : PutAppend(s) \/ PutNowait(s)
         \/ \E r \in Receivers : Take(r) /\ (GetTake(r) \/ GetNowait(r))
<1> USE DEF stateVars, history, Raise
<1>1. ASSUME NEW s \in Senders, CallPut(s) \/ PutStep(s), ~PutAppend(s)
      PROVE  UNCHANGED <<buffer, sent, delivered>>
  BY <1>1 DEF CallPut, Call, PutStep, PutClosed, PutTimeout, PutWait,
     HandoffClosed, HandoffReturn, HandoffTimeout, HandoffWait
<1>2. ASSUME NEW r \in Receivers, CallGet(r) \/ GetStep(r) \/ GetNowait(r)
      PROVE  \/ UNCHANGED <<buffer, sent, delivered>>
             \/ Take(r) /\ (GetTake(r) \/ GetNowait(r))
  <2>1. CASE GetTake(r)
    BY <2>1 DEF GetTake
  <2>2. CASE GetNowait(r)
    BY <2>2 DEF GetNowait
  <2>3. CASE ~GetTake(r) /\ ~GetNowait(r)
    BY <1>2, <2>3 DEF CallGet, Call, GetStep, GetClosed, GetEnd, GetTimeout, GetWait
  <2>4. QED
    BY <2>1, <2>2, <2>3
<1>3. ASSUME NEW t \in Threads, Expire(t) \/ WaitStep(t)
      PROVE  UNCHANGED <<buffer, sent, delivered>>
  BY <1>3 DEF Expire, WaitStep, Wake, WaitTimesOut
<1>4. ASSUME NEW g, NEW h,
             CloneSend(g, h) \/ CloneRecv(g, h) \/ CloseSend(h) \/ CloseRecv(h)
      PROVE  UNCHANGED <<buffer, sent, delivered>>
  BY <1>4 DEF CloneSend, CloneRecv, CloseSend, CloseRecv
<1>5. CASE UNCHANGED vars
  BY <1>5 DEF vars
<1>6. QED
  BY <1>1, <1>2, <1>3, <1>4, <1>5 DEF Next

\* Every step is one of the abstract queue, or a stutter of it.
LEMMA StepRefines ==
  TInv /\ OInv /\ CInv /\ [Next]_vars => [Abs!FifoNext]_(Abs!fifoVars)
<1> SUFFICES ASSUME TInv, OInv, CInv, [Next]_vars
             PROVE  Abs!FifoNext \/ UNCHANGED Abs!fifoVars
  OBVIOUS
<1>1. ASSUME NEW s \in Senders, PutAppend(s) \/ PutNowait(s)
      PROVE  Abs!FifoNext
  BY <1>1, PutRefines DEF Abs!FifoNext
<1>2. ASSUME NEW r \in Receivers, Take(r) /\ (GetTake(r) \/ GetNowait(r))
      PROVE  Abs!FifoNext
  BY <1>2, TakeRefines DEF Abs!FifoNext
<1>3. CASE ~UNCHANGED openVars
  BY <1>3, HandleCases, HandlesRefine DEF Abs!FifoNext
<1>4. CASE UNCHANGED <<buffer, sent, delivered>> /\ UNCHANGED openVars
  BY <1>4 DEF openVars, Abs!fifoVars
<1>5. QED
  BY <1>1, <1>2, <1>3, <1>4, ItemCases

\* A fresh channel is a fresh queue.
LEMMA InitRefines == Init => Abs!FifoInit
  BY DEF Init, Abs!FifoInit

\* The channel is a FIFO queue between its sides: items enter at the tail, within
\* the limit and only while both sides are there, leave at the head, each once,
\* and no sequence of clone and close calls brings an end back.
THEOREM ChannelImplementsFifo == Spec => ImplementsFifo
<1>1. Init /\ [][Next]_vars => [](TInv /\ OInv /\ CInv)
  BY InitTInv, NextTInv, InitOInv, NextOInv, InitCInv, NextCInv, PTL
<1>2. QED
  BY InitRefines, StepRefines, <1>1, PTL DEF Spec, ImplementsFifo, Abs!FifoSpec

-----------------------------------------------------------------------------
(***************************************************************************)
(* A rendezvous put, and the wake-ups of the sleepers.                     *)
(***************************************************************************)

\* The item of a put that waits for its handoff is the one its target counts to.
TargetsCount ==
    /\ Capacity = 0 => items_consumed = Len(delivered)
    /\ \A s \in Senders : pc[s] \in {"phase2", "wait2"} =>
          /\ Capacity = 0
          /\ my_target[s] \in 1..Len(sent)
          /\ sent[my_target[s]] = item[s]

\* A fresh channel has consumed nothing and nobody waits for a handoff.
LEMMA InitTargetsCount == Init => TargetsCount
<1>1. Len(<<>>) = 0
  BY EmptySeq
<1>2. QED
  BY <1>1 DEF Init, TargetsCount, Threads

\* The lengths of what was sent, taken and buffered add up.
LEMMA Lengths ==
  ASSUME TInv, OInv
  PROVE  /\ Len(sent) \in Nat /\ Len(delivered) \in Nat /\ Len(buffer) \in Nat
         /\ Len(sent) = Len(delivered) + Len(buffer)
         /\ \A i \in 1..Len(delivered) : sent[i] = delivered[i]
  BY ConcatProperties, LenProperties DEF TInv, TypeOK, OInv

\* The target is set to the place of the item, and only _take counts on.
LEMMA NextTargetsCount ==
  TInv /\ OInv /\ TargetsCount /\ [Next]_vars => TargetsCount'
<1> SUFFICES ASSUME TInv, OInv, TargetsCount, [Next]_vars PROVE TargetsCount'
  OBVIOUS
<1> USE ChannelAssumption
<1>0. /\ buffer \in Seq(1..MaxItems) /\ delivered \in Seq(1..MaxItems)
      /\ sent \in Seq(1..MaxItems)
      /\ my_target \in [Threads -> Nat] /\ item \in [Senders -> 0..MaxItems]
      /\ pc \in [Threads -> {"idle", "phase1", "wait1", "phase2", "wait2",
                             "get", "waitget"}]
      /\ Senders \subseteq Threads
  BY DEF TInv, TypeOK, Threads
<1>1. CASE Quiet
  BY <1>1 DEF Quiet, TargetsCount, stateVars, history
<1>2. ASSUME NEW s \in Senders, CallPut(s) PROVE TargetsCount'
  <2>1. UNCHANGED <<sent, delivered, items_consumed, my_target>>
    BY <1>2 DEF CallPut, Call, stateVars, history
  <2>2. \A t \in Senders : pc'[t] \in {"phase2", "wait2"} =>
           pc[t] = pc'[t] /\ item'[t] = item[t]
    BY <1>0, <1>2 DEF CallPut, Call
  <2>3. QED
    BY <2>1, <2>2 DEF TargetsCount
<1>3. ASSUME NEW s \in Senders, PutAppend(s) \/ PutNowait(s) PROVE TargetsCount'
  <2>1. PICK x \in 1..MaxItems :
           buffer' = Append(buffer, x) /\ sent' = Append(sent, x)
           /\ (PutAppend(s) => x = item[s])
    <3>1. puts \in 0..MaxItems /\ (pc[s] = "phase1" => item[s] \in 1..MaxItems)
      BY <1>0 DEF TInv, TypeOK, CallsOK
    <3>2. CASE PutAppend(s)
      BY <3>1, <3>2 DEF PutAppend, Enqueue
    <3>3. CASE ~PutAppend(s)
      <4>1. puts + 1 \in 1..MaxItems
        BY <1>3, <3>1, <3>3 DEF PutNowait
      <4>2. QED
        BY <1>3, <3>3, <4>1 DEF PutNowait, Enqueue
    <3>4. QED
      BY <3>2, <3>3
  <2>2. /\ Len(sent') = Len(sent) + 1 /\ Len(buffer') = Len(buffer) + 1
        /\ \A i \in 1..Len(sent) : sent'[i] = sent[i]
        /\ sent'[Len(sent) + 1] = x
    BY <1>0, <2>1, AppendProperties
  <2>3. UNCHANGED <<delivered, items_consumed>>
    BY <1>3 DEF PutAppend, PutNowait
  <2>4. ASSUME NEW t \in Senders, pc'[t] \in {"phase2", "wait2"}, t # s
        PROVE  pc[t] = pc'[t] /\ my_target'[t] = my_target[t] /\ item'[t] = item[t]
    BY <1>0, <1>3, <2>4 DEF PutAppend, PutNowait, Return
  <2>5. ASSUME pc'[s] \in {"phase2", "wait2"}
        PROVE  /\ Capacity = 0 /\ item'[s] = x
               /\ my_target'[s] = items_consumed + Len(buffer')
    BY <1>0, <1>3, <2>1, <2>5 DEF PutAppend, PutNowait, Return, HandoffTarget
  <2>6. ASSUME pc'[s] \in {"phase2", "wait2"}
        PROVE  my_target'[s] = Len(sent')
    BY <2>2, <2>5, <2>6, Lengths DEF TargetsCount
  <2>7. \A t \in Senders : pc'[t] \in {"phase2", "wait2"} =>
           /\ Capacity = 0
           /\ my_target'[t] \in 1..Len(sent')
           /\ sent'[my_target'[t]] = item'[t]
    BY <2>2, <2>4, <2>5, <2>6, Lengths DEF TargetsCount
  <2>8. QED
    BY <2>3, <2>7 DEF TargetsCount
<1>4. ASSUME NEW r \in Receivers, Take(r) PROVE TargetsCount'
  <2>1. /\ buffer # <<>> /\ delivered' = Append(delivered, Head(buffer))
        /\ UNCHANGED <<item, sent>>
        /\ Capacity = 0 => items_consumed' = items_consumed + 1
    BY <1>4 DEF Take, Dequeue
  <2>2. Len(delivered') = Len(delivered) + 1
    BY <1>0, <2>1, HeadTailProperties, AppendProperties
  <2>3. \A t \in Senders : pc'[t] = pc[t] /\ my_target'[t] = my_target[t]
    BY <1>0, <1>4 DEF Take, Return
  <2>4. QED
    BY <2>1, <2>2, <2>3 DEF TargetsCount
<1>5. QED
  BY <1>1, <1>2, <1>3, <1>4, StepCases

\* With distinct items, a target that was reached means that very item.
LEMMA TargetsAreOwn == TInv /\ OInv /\ TargetsCount => TargetIsOwnItem
<1> SUFFICES ASSUME TInv, OInv, TargetsCount, NEW s \in Senders,
                    pc[s] \in {"phase2", "wait2"}
             PROVE  Consumed(s) <=> item[s] \in Range(delivered)
  BY DEF TargetIsOwnItem
<1>1. /\ items_consumed = Len(delivered) /\ my_target[s] \in 1..Len(sent)
      /\ sent[my_target[s]] = item[s]
  BY DEF TargetsCount
<1>2. DOMAIN delivered = 1..Len(delivered)
  BY LenProperties DEF TInv, TypeOK
<1>3. ASSUME Consumed(s) PROVE item[s] \in Range(delivered)
  <2>1. my_target[s] \in 1..Len(delivered)
    BY <1>1, <1>3, Lengths DEF Consumed
  <2>2. delivered[my_target[s]] = item[s]
    BY <1>1, <2>1, Lengths
  <2>3. QED
    BY <1>2, <2>1, <2>2 DEF Range
<1>4. ASSUME item[s] \in Range(delivered) PROVE Consumed(s)
  <2>1. PICK i \in 1..Len(delivered) : delivered[i] = item[s]
    BY <1>2, <1>4 DEF Range
  <2>2. i \in 1..Len(sent) /\ sent[i] = item[s]
    BY <2>1, Lengths
  <2>3. i = my_target[s]
    BY <1>1, <2>2 DEF OInv, Distinct
  <2>4. QED
    BY <1>1, <2>3, Lengths DEF Consumed
<1>5. QED
  BY <1>3, <1>4

-----------------------------------------------------------------------------
\* Once the last handle of a side is closed, nobody can open another.
LEMMA EndsStay ==
  ASSUME TInv, CInv, [Next]_vars
  PROVE  /\ open_send_channels = 0 => open_send_channels' = 0
         /\ open_receive_channels = 0 => open_receive_channels' = 0
<1>1. CASE UNCHANGED openVars
  BY <1>1 DEF openVars
<1>2. CASE ~UNCHANGED openVars
  BY <1>2, HandleCases, OpenMeansThere
  DEF CInv, CloneSend, CloneRecv, CloseSend, CloseRecv
<1>3. QED
  BY <1>1, <1>2

\* What was delivered stays delivered.
LEMMA DeliveredGrows ==
  ASSUME TInv, [Next]_vars
  PROVE  Range(delivered) \subseteq Range(delivered')
<1>1. CASE UNCHANGED delivered
  BY <1>1
<1>2. ASSUME NEW r \in Receivers, Take(r)
      PROVE  Range(delivered) \subseteq Range(delivered')
  <2>1. /\ delivered \in Seq(1..MaxItems) /\ Head(buffer) \in 1..MaxItems
        /\ delivered' = Append(delivered, Head(buffer))
    BY <1>2, HeadTailProperties DEF Take, Dequeue, TInv, TypeOK
  <2>2. /\ DOMAIN delivered = 1..Len(delivered) /\ Len(delivered) \in Nat
        /\ DOMAIN delivered' = 1..(Len(delivered) + 1)
        /\ \A i \in 1..Len(delivered) : delivered'[i] = delivered[i]
    BY <2>1, AppendProperties, LenProperties
  <2>3. QED
    BY <2>2 DEF Range
<1>3. QED
  BY <1>1, <1>2, ItemCases DEF PutAppend, PutNowait

\* The only step that ends a rendezvous put with success.
LEMMA ReturnCases ==
  ASSUME TInv, [Next]_vars, Capacity = 0, NEW s \in Senders,
         ret'[s] = "ok", pc'[s] = "idle"
  PROVE  \/ ret[s] = "ok" /\ pc[s] = "idle" /\ item'[s] = item[s]
         \/ HandoffReturn(s) /\ item'[s] = item[s]
<1> USE ChannelAssumption DEF TInv, TypeOK, CallsOK, Threads, callVars, Return,
      Goto, Raise
<1>1. ASSUME NEW u \in Senders, CallPut(u) \/ PutStep(u) \/ PutNowait(u)
      PROVE  \/ ret[s] = "ok" /\ pc[s] = "idle" /\ item'[s] = item[s]
             \/ HandoffReturn(s) /\ item'[s] = item[s]
  BY <1>1 DEF CallPut, Call, PutStep, PutClosed, PutAppend, PutTimeout, PutWait,
     HandoffClosed, HandoffReturn, HandoffTimeout, HandoffWait, PutNowait
<1>2. ASSUME NEW r \in Receivers, CallGet(r) \/ GetStep(r) \/ GetNowait(r)
      PROVE  ret[s] = "ok" /\ pc[s] = "idle" /\ item'[s] = item[s]
  BY <1>2 DEF CallGet, Call, GetStep, GetClosed, GetTake, GetEnd, GetTimeout,
     GetWait, GetNowait, Take
<1>3. ASSUME NEW t \in Threads, Expire(t) \/ WaitStep(t)
      PROVE  ret[s] = "ok" /\ pc[s] = "idle" /\ item'[s] = item[s]
  BY <1>3 DEF Expire, WaitStep, Wake, WaitTimesOut, Waiting, After
<1>4. ASSUME NEW g, NEW h,
             CloneSend(g, h) \/ CloneRecv(g, h) \/ CloseSend(h) \/ CloseRecv(h)
      PROVE  ret[s] = "ok" /\ pc[s] = "idle" /\ item'[s] = item[s]
  BY <1>4 DEF CloneSend, CloneRecv, CloseSend, CloseRecv
<1>5. CASE UNCHANGED vars
  BY <1>5 DEF vars
<1>6. QED
  BY <1>1, <1>2, <1>3, <1>4, <1>5 DEF Next

\* A put reports success only after its handoff, or without any receiver.
LEMMA NextPutHandsOver ==
  ASSUME TInv, OInv, CInv, TargetsCount, PutHandsOver, [Next]_vars
  PROVE  PutHandsOver'
<1> SUFFICES ASSUME Capacity = 0, NEW s \in Senders, ret'[s] = "ok", pc'[s] = "idle"
             PROVE  item'[s] \in Range(delivered') \/ open_receive_channels' = 0
  BY DEF PutHandsOver
<1>1. /\ item'[s] = item[s]
      /\ item[s] \in Range(delivered) \/ open_receive_channels = 0
  <2>1. CASE ret[s] = "ok" /\ pc[s] = "idle" /\ item'[s] = item[s]
    BY <2>1 DEF PutHandsOver
  <2>2. CASE HandoffReturn(s) /\ item'[s] = item[s]
    BY <2>2, TargetsAreOwn DEF HandoffReturn, TargetIsOwnItem
  <2>3. QED
    BY <2>1, <2>2, ReturnCases
<1>2. QED
  BY <1>1, EndsStay, DeliveredGrows

\* In a fresh channel no put has returned.
LEMMA InitPutHandsOver == Init => PutHandsOver
  BY DEF Init, PutHandsOver, Threads

\* The counters are exact, a waiting put sees exactly its own item consumed, and
\* a rendezvous put returns only after a receiver took its item (or the last
\* receiver left), for any number of senders that wait at the same time.
THEOREM ChannelHandoffExact == Spec => []HandoffExact
<1> DEFINE HInv == TInv /\ OInv /\ CInv /\ TargetsCount /\ PutHandsOver
<1>1. Init => HInv
  BY InitTInv, InitOInv, InitCInv, InitTargetsCount, InitPutHandsOver
<1>2. HInv /\ [Next]_vars => HInv'
  BY NextTInv, NextOInv, NextCInv, NextTargetsCount, NextPutHandsOver
<1>3. HInv => HandoffExact
  BY TargetsAreOwn DEF CInv, HandoffExact
<1>4. QED
  <2> HIDE DEF HInv
  <2>1. QED
    BY <1>1, <1>2, <1>3, PTL DEF Spec

-----------------------------------------------------------------------------
(***************************************************************************)
(* No wake-up of a channel is lost: notify wakes one sleeper per item or   *)
(* place, and a thread that leaves without it either has it no longer to   *)
(* take or has everybody woken.                                            *)
(***************************************************************************)

\* The running calls of either side that are awake and may still move an item.
AwakeGets == {r \in Receivers : pc[r] # "idle" /\ ~Asleep(r) /\ ~Closed(r)}
AwakePuts == {s \in Senders : pc[s] # "idle" /\ ~Asleep(s) /\ ~Closed(s)}

\* A sleeper is in a call, on an open handle.
SleepersOpen ==
    \A t \in not_empty \cup not_full : Waiting(t) /\ handle[Via[t]] = "open"

\* The awake calls of either side are finitely many.
LEMMA AwakeAreFinite ==
  IsFiniteSet(AwakeGets) /\ IsFiniteSet(AwakePuts)
<1>1. AwakeGets \subseteq Receivers /\ AwakePuts \subseteq Senders
  BY DEF AwakeGets, AwakePuts
<1>2. QED
  BY <1>1, FS_Subset, ChannelAssumption

\* Three ways for B to have m members if A has n: it has gained what it needs,
\* one member more for one more needed, or one less for one less needed.
StillEnough(A, B, n, m) ==
    \/ A \subseteq B /\ m = n
    \/ m = n + 1 /\ \E w : w \notin A /\ A \cup {w} \subseteq B
    \/ m = n - 1 /\ \E w : A \ {w} \subseteq B

LEMMA EnoughAwake ==
  ASSUME NEW A, NEW B, IsFiniteSet(A), IsFiniteSet(B), NEW n \in Int,
         NEW m \in Int, Cardinality(A) >= n, StillEnough(A, B, n, m)
  PROVE  Cardinality(B) >= m
<1>0. Cardinality(A) \in Nat /\ Cardinality(B) \in Nat
  BY FS_CardinalityType
<1>1. CASE A \subseteq B /\ m = n
  BY <1>0, <1>1, FS_Subset
<1>2. ASSUME m = n + 1, NEW w, w \notin A, A \cup {w} \subseteq B
      PROVE  Cardinality(B) >= m
  <2>1. Cardinality(A \cup {w}) = Cardinality(A) + 1
    BY <1>2, FS_AddElement
  <2>2. Cardinality(A \cup {w}) <= Cardinality(B)
    BY <1>2, FS_Subset
  <2>3. QED
    BY <1>0, <1>2, <2>1, <2>2
<1>3. ASSUME m = n - 1, NEW w, A \ {w} \subseteq B
      PROVE  Cardinality(B) >= m
  <2>0. Cardinality(A \ {w}) =
          IF w \in A THEN Cardinality(A) - 1 ELSE Cardinality(A)
    BY FS_RemoveElement
  <2>1. Cardinality(A \ {w}) >= Cardinality(A) - 1
    BY <1>0, <2>0
  <2>2. Cardinality(A \ {w}) <= Cardinality(B)
    BY <1>3, FS_Subset
  <2>3. Cardinality(A \ {w}) \in Nat
    <3>1. IsFiniteSet(A \ {w})
      BY FS_RemoveElement
    <3>2. QED
      BY <3>1, FS_CardinalityType
  <2>4. QED
    BY <1>0, <1>3, <2>1, <2>2, <2>3
<1>4. QED
  BY <1>1, <1>2, <1>3 DEF StillEnough

-----------------------------------------------------------------------------
\* In a fresh channel nobody sleeps.
LEMMA InitSleepersOpen == Init => SleepersOpen
  BY DEF Init, SleepersOpen

\* close() wakes everybody, so nobody sleeps on through the end of its handle.
LEMMA NextSleepersOpen ==
  TInv /\ CInv /\ SleepersOpen /\ [Next]_vars => SleepersOpen'
<1> SUFFICES ASSUME TInv, CInv, SleepersOpen, [Next]_vars PROVE SleepersOpen'
  OBVIOUS
<1> USE ChannelAssumption DEF TInv, TypeOK, CallsOK, CInv, CallsHaveHandles, Threads,
      Handles, openVars, condVars, callVars, Return, Goto, Exit, Raise, Notified,
      Waiting, SleepersOpen
<1>1. ASSUME NEW s \in Senders, CallPut(s) PROVE SleepersOpen'
  BY <1>1 DEF CallPut, Call
<1>2. ASSUME NEW s \in Senders, PutClosed(s) PROVE SleepersOpen'
  BY <1>2 DEF PutClosed
<1>3. ASSUME NEW s \in Senders, PutAppend(s) PROVE SleepersOpen'
  <2>1. /\ not_empty' \subseteq not_empty /\ not_full' \subseteq not_full
        /\ handle' = handle /\ pc[s] = "phase1"
    BY <1>3 DEF PutAppend, Enqueue
  <2>2. \A t \in Threads \ {s} : pc'[t] = pc[t]
    BY <1>3 DEF PutAppend
  <2>3. QED
    BY <2>1, <2>2
<1>4. ASSUME NEW s \in Senders, PutTimeout(s) PROVE SleepersOpen'
  BY <1>4 DEF PutTimeout
<1>5. ASSUME NEW s \in Senders, PutWait(s) PROVE SleepersOpen'
  BY <1>5 DEF PutWait, Closed
<1>6. ASSUME NEW s \in Senders,
             HandoffClosed(s) \/ HandoffReturn(s) \/ HandoffTimeout(s)
      PROVE  SleepersOpen'
  <2>1. pc[s] = "phase2" /\ \E o : Raise(s, o)
    BY <1>6 DEF HandoffClosed, HandoffReturn, HandoffTimeout
  <2>2. QED
    BY <2>1
<1>7. ASSUME NEW s \in Senders, HandoffWait(s) PROVE SleepersOpen'
  BY <1>7 DEF HandoffWait, Closed
<1>8. ASSUME NEW s \in Senders, PutNowait(s) PROVE SleepersOpen'
  BY <1>8 DEF PutNowait, Enqueue
<1>9. ASSUME NEW r \in Receivers, CallGet(r) PROVE SleepersOpen'
  BY <1>9 DEF CallGet, Call
<1>10. ASSUME NEW r \in Receivers, Take(r), pc[r] \in {"get", "idle"}
       PROVE  SleepersOpen'
  BY <1>10 DEF Take, Dequeue
<1>11. ASSUME NEW r \in Receivers, NEW o, Raise(r, o), pc[r] \in {"get", "idle"}
       PROVE  SleepersOpen'
  BY <1>11
<1>12. ASSUME NEW r \in Receivers, GetWait(r) PROVE SleepersOpen'
  BY <1>12 DEF GetWait, Closed
<1>13. ASSUME NEW t \in Threads, Expire(t) PROVE SleepersOpen'
  BY <1>13 DEF Expire
<1>14. ASSUME NEW t \in Threads, Wake(t) PROVE SleepersOpen'
  BY <1>14 DEF Wake, Asleep
<1>15. ASSUME NEW t \in Threads, WaitTimesOut(t) PROVE SleepersOpen'
  BY <1>15 DEF WaitTimesOut
<1>16. ASSUME NEW g, NEW h, CloneSend(g, h) \/ CloneRecv(g, h)
       PROVE  SleepersOpen'
  BY <1>16 DEF CloneSend, CloneRecv
<1>17. ASSUME NEW h, CloseSend(h) \/ CloseRecv(h) PROVE SleepersOpen'
  BY <1>17 DEF CloseSend, CloseRecv, Broadcast
<1>18. CASE UNCHANGED vars
  BY <1>18 DEF vars
<1>19. QED
  BY <1>1, <1>2, <1>3, <1>4, <1>5, <1>6, <1>7, <1>8, <1>9, <1>10, <1>11, <1>12,
     <1>13, <1>14, <1>15, <1>16, <1>17, <1>18, ZenonT(60)
  DEF Next, PutStep, GetStep, WaitStep, GetClosed, GetTake, GetEnd, GetTimeout,
      GetNowait

-----------------------------------------------------------------------------
\* A receiver sleeps on not_empty only, a sender on not_full only.
LEMMA AsleepMeans ==
  ASSUME TInv, TInv'
  PROVE  /\ \A r \in Receivers : Asleep(r) <=> r \in not_empty
         /\ \A r \in Receivers : Asleep(r)' <=> r \in not_empty'
         /\ \A s \in Senders : Asleep(s) <=> s \in not_full
         /\ \A s \in Senders : Asleep(s)' <=> s \in not_full'
  BY ChannelAssumption DEF TInv, TypeOK, Asleep

\* What a step does to the awake receivers while others go on sleeping.
ItemStep ==
    \/ buffer' = <<>>
    \/ /\ not_empty # {}
       /\ StillEnough(AwakeGets, AwakeGets', Len(buffer), Len(buffer'))

\* A step that neither moves an item nor stops or closes a receiver.
LEMMA ItemNeutral ==
  ASSUME TInv, TInv', buffer' = buffer, not_empty' # {}, not_empty' \subseteq not_empty,
         \A r \in AwakeGets : pc'[r] # "idle" /\ ~Closed(r)'
  PROVE  ItemStep
<1>1. AwakeGets \subseteq AwakeGets'
  BY AsleepMeans DEF AwakeGets
<1>2. QED
  BY <1>1 DEF ItemStep, StillEnough

\* An accepted item wakes a sleeper, which is on an open handle.
LEMMA PutWakes ==
  ASSUME TInv, TInv', SleepersOpen, NEW s \in Senders, PutAppend(s) \/ PutNowait(s),
         not_empty' # {}
  PROVE  ItemStep
<1> USE ChannelAssumption
<1>1. PICK x \in 1..MaxItems, ne \in Notified(not_empty) :
         buffer' = Append(buffer, x) /\ Exit(ne, not_full)
  <2>1. puts \in 0..MaxItems /\ (pc[s] = "phase1" => item[s] \in 1..MaxItems)
    BY SMTT(30) DEF TInv, TypeOK, CallsOK
  <2>2. CASE PutAppend(s)
    BY <2>1, <2>2 DEF PutAppend, Enqueue
  <2>3. CASE PutNowait(s)
    BY <2>1, <2>3 DEF PutNowait, Enqueue
  <2>4. QED
    BY <2>2, <2>3
<1>2. Len(buffer') = Len(buffer) + 1
  BY <1>1, AppendProperties DEF TInv, TypeOK
<1>3. not_empty' = ne
  BY <1>1 DEF Exit
<1>4. PICK w \in not_empty : ne = not_empty \ {w}
  BY <1>1, <1>3 DEF Notified
<1>5. w \in Receivers /\ Asleep(w) /\ pc[w] # "idle" /\ ~Closed(w)
  BY <1>4 DEF TInv, TypeOK, SleepersOpen, Waiting, Asleep, Closed
<1>6. /\ \A r \in Receivers : pc'[r] = pc[r]
      /\ handle' = handle
  <2>1. \E l \in {"idle", "phase2"} : pc' = [pc EXCEPT ![s] = l]
    BY DEF PutAppend, PutNowait, Return
  <2>2. s \notin Receivers /\ pc \in [Threads -> {"idle", "phase1", "wait1",
                 "phase2", "wait2", "get", "waitget"}] /\ Receivers \subseteq Threads
    BY DEF TInv, TypeOK, Threads
  <2>3. handle' = handle
    BY DEF PutAppend, PutNowait, openVars
  <2>4. QED
    BY <2>1, <2>2, <2>3
<1>7. AwakeGets \cup {w} \subseteq AwakeGets' /\ w \notin AwakeGets
  BY <1>3, <1>4, <1>5, <1>6, AsleepMeans DEF AwakeGets, Closed
<1>8. QED
  BY <1>2, <1>4, <1>7 DEF ItemStep, StillEnough

\* A receiver that takes an item leaves one item and one awake receiver less.
LEMMA TakeLeaves ==
  ASSUME TInv, TInv', NEW r \in Receivers, Take(r), not_empty' # {}
  PROVE  ItemStep
<1>1. Len(buffer') = Len(buffer) - 1
  <2>1. buffer \in Seq(1..MaxItems) /\ buffer # <<>> /\ buffer' = Tail(buffer)
    BY DEF TInv, TypeOK, Take, Dequeue
  <2>2. QED
    BY <2>1, HeadTailProperties
<1>2. not_empty' = not_empty /\ handle' = handle
  BY DEF Take, Dequeue, Exit, openVars
<1>3. \A q \in Receivers \ {r} : pc'[q] = pc[q]
  BY DEF Take, Return, TInv, TypeOK, Threads
<1>4. AwakeGets \ {r} \subseteq AwakeGets'
  BY <1>2, <1>3, AsleepMeans DEF AwakeGets, Closed
<1>5. QED
  BY <1>1, <1>2, <1>4 DEF ItemStep, StillEnough

\* Every step leaves enough awake receivers, or no sleeping one.
LEMMA ItemSteps ==
  ASSUME TInv, TInv', SleepersOpen, [Next]_vars, not_empty' # {}
  PROVE  ItemStep
<1> USE ChannelAssumption
<1>0. /\ pc \in [Threads -> {"idle", "phase1", "wait1", "phase2", "wait2",
                             "get", "waitget"}]
      /\ handle \in [Handles -> {"unused", "open", "closed"}]
      /\ Senders \subseteq Threads /\ Receivers \subseteq Threads
      /\ \A t \in Threads : Via[t] \in Handles
      /\ AwakeGets \subseteq Receivers
      /\ \A r \in AwakeGets : pc[r] # "idle" /\ handle[Via[r]] # "closed"
  BY DEF TInv, TypeOK, Threads, AwakeGets, Closed
<1> USE DEF stateVars, openVars, condVars, callVars, Return, Goto, Exit, Raise
<1>1. ASSUME NEW s \in Senders, CallPut(s) \/ PutStep(s), ~PutAppend(s)
      PROVE  ItemStep
  <2>1. buffer' = buffer /\ handle' = handle /\ not_empty' \subseteq not_empty
    BY <1>1 DEF CallPut, Call, PutStep, PutClosed, PutTimeout, PutWait,
       HandoffClosed, HandoffReturn, HandoffTimeout, HandoffWait
  <2>2. \A r \in Receivers : pc'[r] = pc[r]
    BY <1>0, <1>1 DEF CallPut, Call, PutStep, PutClosed, PutTimeout, PutWait,
       HandoffClosed, HandoffReturn, HandoffTimeout, HandoffWait
  <2>3. QED
    BY <1>0, <2>1, <2>2, ItemNeutral DEF Closed
<1>2. ASSUME NEW r \in Receivers, CallGet(r) PROVE ItemStep
  <2>1. buffer' = buffer /\ handle' = handle /\ not_empty' = not_empty
    BY <1>2 DEF CallGet, Call
  <2>2. \A q \in Receivers : pc'[q] = pc[q] \/ pc'[q] = "get"
    BY <1>0, <1>2 DEF CallGet, Call
  <2>3. QED
    BY <1>0, <2>1, <2>2, ItemNeutral DEF Closed
<1>3. ASSUME NEW r \in Receivers, GetClosed(r) PROVE ItemStep
  <2>1. /\ buffer' = buffer /\ handle' = handle /\ not_empty' \subseteq not_empty
        /\ r \notin AwakeGets
    BY <1>0, <1>3 DEF GetClosed, Closed
  <2>2. \A q \in Receivers \ {r} : pc'[q] = pc[q]
    BY <1>0, <1>3 DEF GetClosed
  <2>3. QED
    BY <1>0, <2>1, <2>2, ItemNeutral DEF Closed
<1>4. ASSUME NEW r \in Receivers, GetEnd(r) \/ GetTimeout(r) \/ GetWait(r)
      PROVE  ItemStep
  BY <1>4 DEF GetEnd, GetTimeout, GetWait, ItemStep
<1>5. ASSUME NEW r \in Receivers, GetTake(r) \/ GetNowait(r) PROVE ItemStep
  <2>1. Take(r) \/ buffer' = <<>>
    BY <1>5 DEF GetTake, GetNowait
  <2>2. QED
    BY <2>1, TakeLeaves DEF ItemStep
<1>6. ASSUME NEW t \in Threads, Expire(t) \/ WaitStep(t) PROVE ItemStep
  <2>1. buffer' = buffer /\ handle' = handle /\ not_empty' \subseteq not_empty
    BY <1>6 DEF Expire, WaitStep, Wake, WaitTimesOut
  <2>2. \A q \in Receivers : pc[q] # "idle" => pc'[q] # "idle"
    BY <1>0, <1>6 DEF Expire, WaitStep, Wake, WaitTimesOut, Waiting, After
  <2>3. QED
    BY <1>0, <2>1, <2>2, ItemNeutral DEF Closed
<1>7. ASSUME NEW g, NEW h, CloneSend(g, h) \/ CloneRecv(g, h) PROVE ItemStep
  <2>1. /\ buffer' = buffer /\ not_empty' \subseteq not_empty /\ pc' = pc
        /\ \A r \in AwakeGets : handle'[Via[r]] # "closed"
    BY <1>0, <1>7 DEF CloneSend, CloneRecv
  <2>2. QED
    BY <1>0, <2>1, ItemNeutral DEF Closed
<1>8. ASSUME NEW h, CloseSend(h) \/ CloseRecv(h) PROVE ItemStep
  BY <1>8 DEF CloseSend, CloseRecv, Broadcast
<1>9. CASE UNCHANGED vars
  BY <1>0, <1>9, ItemNeutral DEF vars, Closed
<1>10. QED
  BY <1>1, <1>2, <1>3, <1>4, <1>5, <1>6, <1>7, <1>8, <1>9, PutWakes
  DEF Next, PutStep, GetStep

\* No step loses the wake-up of a receiver.
LEMMA NextNoLostItem ==
  ASSUME TInv, TInv', SleepersOpen, NoLostItem, [Next]_vars
  PROVE  NoLostItem'
<1> SUFFICES ASSUME not_empty' # {} PROVE Cardinality(AwakeGets') >= Len(buffer')
  BY DEF NoLostItem, AwakeGets
<1>1. Len(buffer) \in Nat /\ Len(buffer') \in Nat
  BY LenProperties DEF TInv, TypeOK
<1>2. IsFiniteSet(AwakeGets) /\ IsFiniteSet(AwakeGets')
  <2>1. AwakeGets' \subseteq Receivers
    BY DEF AwakeGets
  <2>2. QED
    BY <2>1, AwakeAreFinite, FS_Subset, ChannelAssumption
<1>3. CASE buffer' = <<>>
  <2>1. Cardinality(AwakeGets') \in Nat /\ Len(buffer') = 0
    BY <1>2, <1>3, FS_CardinalityType, EmptySeq
  <2>2. QED
    BY <2>1
<1>4. CASE buffer' # <<>>
  <2>1. ItemStep
    BY ItemSteps
  <2>2. Cardinality(AwakeGets) >= Len(buffer)
    BY <1>4, <2>1 DEF ItemStep, NoLostItem, AwakeGets
  <2>3. StillEnough(AwakeGets, AwakeGets', Len(buffer), Len(buffer'))
    BY <1>4, <2>1 DEF ItemStep
  <2>4. Len(buffer) \in Int /\ Len(buffer') \in Int
    BY <1>1
  <2>5. QED
    BY <1>2, <2>2, <2>3, <2>4, EnoughAwake
<1>5. QED
  BY <1>3, <1>4

-----------------------------------------------------------------------------
\* What a step of a bounded channel does to the awake senders while others go on
\* sleeping.
Places == Capacity - Len(buffer)

RoomStep ==
    \/ Capacity <= Len(buffer')
    \/ /\ not_full # {}
       /\ StillEnough(AwakePuts, AwakePuts', Places, Places')

\* A step that neither moves an item nor stops or closes a sender.
LEMMA RoomNeutral ==
  ASSUME TInv, TInv', buffer' = buffer, not_full' # {}, not_full' \subseteq not_full,
         \A s \in AwakePuts : pc'[s] # "idle" /\ ~Closed(s)'
  PROVE  RoomStep
<1>1. AwakePuts \subseteq AwakePuts'
  BY AsleepMeans DEF AwakePuts
<1>2. QED
  BY <1>1 DEF RoomStep, StillEnough, Places

\* An item that is taken wakes a sleeper, which is on an open handle.
LEMMA TakeWakes ==
  ASSUME TInv, TInv', SleepersOpen, NEW r \in Receivers, Take(r),
         Capacity \in Nat \ {0}, not_full' # {}
  PROVE  RoomStep
<1> USE ChannelAssumption
<1>1. PICK nf \in Notified(not_full) : Exit(not_empty, nf)
  BY DEF Take, Dequeue
<1>2. Len(buffer) \in Nat /\ Len(buffer') = Len(buffer) - 1
  <2>1. buffer \in Seq(1..MaxItems) /\ buffer # <<>> /\ buffer' = Tail(buffer)
    BY DEF TInv, TypeOK, Take, Dequeue
  <2>2. QED
    BY <2>1, HeadTailProperties, LenProperties
<1>3. not_full' = nf
  BY <1>1 DEF Exit
<1>4. PICK w \in not_full : nf = not_full \ {w}
  BY <1>1, <1>3 DEF Notified
<1>5. w \in Senders /\ Asleep(w) /\ pc[w] # "idle" /\ ~Closed(w)
  BY <1>4 DEF TInv, TypeOK, SleepersOpen, Waiting, Asleep, Closed
<1>6. (\A s \in Senders : pc'[s] = pc[s]) /\ handle' = handle
  BY DEF Take, Return, openVars, TInv, TypeOK, Threads
<1>7. AwakePuts \cup {w} \subseteq AwakePuts' /\ w \notin AwakePuts
  BY <1>3, <1>4, <1>5, <1>6, AsleepMeans DEF AwakePuts, Closed
<1>8. QED
  BY <1>2, <1>4, <1>7 DEF RoomStep, StillEnough, Places

\* A sender that puts an item leaves one place and one awake sender less.
LEMMA PutLeaves ==
  ASSUME TInv, TInv', NEW s \in Senders, PutAppend(s) \/ PutNowait(s),
         Capacity \in Nat \ {0}, not_full' # {}
  PROVE  RoomStep
<1> USE ChannelAssumption
<1>1. Len(buffer) \in Nat /\ Len(buffer') = Len(buffer) + 1
  <2>1. PICK x : buffer' = Append(buffer, x)
    BY DEF PutAppend, PutNowait, Enqueue
  <2>2. buffer \in Seq(1..MaxItems) /\ buffer' \in Seq(1..MaxItems)
    BY DEF TInv, TypeOK
  <2>3. QED
    BY <2>1, <2>2
<1>2. not_full' = not_full /\ handle' = handle
  BY DEF PutAppend, PutNowait, Enqueue, Exit, openVars
<1>3. \A t \in Senders \ {s} : pc'[t] = pc[t]
  <2>1. \E l \in {"idle", "phase2"} : pc' = [pc EXCEPT ![s] = l]
    BY DEF PutAppend, PutNowait, Return
  <2>2. pc \in [Threads -> {"idle", "phase1", "wait1", "phase2", "wait2",
                            "get", "waitget"}] /\ Senders \subseteq Threads
    BY DEF TInv, TypeOK, Threads
  <2>3. QED
    BY <2>1, <2>2
<1>4. AwakePuts \ {s} \subseteq AwakePuts'
  BY <1>2, <1>3, AsleepMeans DEF AwakePuts, Closed
<1>5. QED
  BY <1>1, <1>2, <1>4 DEF RoomStep, StillEnough, Places

\* Every step leaves enough awake senders, or no sleeping one.
LEMMA RoomSteps ==
  ASSUME TInv, TInv', TargetsCount, SleepersOpen, [Next]_vars,
         Capacity \in Nat \ {0}, not_full' # {}
  PROVE  RoomStep
<1> USE ChannelAssumption
<1>0. /\ pc \in [Threads -> {"idle", "phase1", "wait1", "phase2", "wait2",
                             "get", "waitget"}]
      /\ handle \in [Handles -> {"unused", "open", "closed"}]
      /\ Senders \subseteq Threads /\ Receivers \subseteq Threads
      /\ \A t \in Threads : Via[t] \in Handles
      /\ AwakePuts \subseteq Senders
      /\ \A s \in AwakePuts : pc[s] # "idle" /\ handle[Via[s]] # "closed"
      /\ \A s \in Senders : pc[s] # "phase2"
      /\ Len(buffer) \in Nat
  BY LenProperties, SMTT(30) DEF TInv, TypeOK, Threads, AwakePuts, Closed, TargetsCount
<1> USE DEF stateVars, openVars, condVars, callVars, Return, Goto, Exit, Raise
<1>1. ASSUME NEW s \in Senders, CallPut(s) PROVE RoomStep
  <2>1. buffer' = buffer /\ handle' = handle /\ not_full' = not_full
    BY <1>1 DEF CallPut, Call
  <2>2. \A t \in Senders : pc'[t] = pc[t] \/ pc'[t] = "phase1"
    BY <1>0, <1>1 DEF CallPut, Call
  <2>3. QED
    BY <1>0, <2>1, <2>2, RoomNeutral DEF Closed
<1>2. ASSUME NEW s \in Senders, PutClosed(s) PROVE RoomStep
  <2>1. /\ buffer' = buffer /\ handle' = handle /\ not_full' \subseteq not_full
        /\ s \notin AwakePuts
    BY <1>0, <1>2 DEF PutClosed, Closed
  <2>2. \A t \in Senders \ {s} : pc'[t] = pc[t]
    BY <1>0, <1>2 DEF PutClosed
  <2>3. QED
    BY <1>0, <2>1, <2>2, RoomNeutral DEF Closed
<1>3. ASSUME NEW s \in Senders, PutTimeout(s) \/ PutWait(s) PROVE RoomStep
  <2>1. ~CanPut /\ buffer' = buffer
    BY <1>3 DEF PutTimeout, PutWait
  <2>2. QED
    BY <1>0, <2>1 DEF CanPut, HasRoom, RoomStep
<1>4. ASSUME NEW s \in Senders,
             \/ HandoffClosed(s) \/ HandoffReturn(s) \/ HandoffTimeout(s)
             \/ HandoffWait(s)
      PROVE  RoomStep
  BY <1>0, <1>4 DEF HandoffClosed, HandoffReturn, HandoffTimeout, HandoffWait
<1>5. ASSUME NEW r \in Receivers, CallGet(r) \/ GetStep(r) \/ GetNowait(r), ~Take(r)
      PROVE  RoomStep
  <2>1. buffer' = buffer /\ handle' = handle /\ not_full' \subseteq not_full
    BY <1>5 DEF CallGet, Call, GetStep, GetClosed, GetTake, GetEnd, GetTimeout,
       GetWait, GetNowait
  <2>2. \A t \in Senders : pc'[t] = pc[t]
    BY <1>0, <1>5 DEF CallGet, Call, GetStep, GetClosed, GetTake, GetEnd,
       GetTimeout, GetWait, GetNowait
  <2>3. QED
    BY <1>0, <2>1, <2>2, RoomNeutral DEF Closed
<1>6. ASSUME NEW t \in Threads, Expire(t) \/ WaitStep(t) PROVE RoomStep
  <2>1. buffer' = buffer /\ handle' = handle /\ not_full' \subseteq not_full
    BY <1>6 DEF Expire, WaitStep, Wake, WaitTimesOut
  <2>2. \A s \in Senders : pc[s] # "idle" => pc'[s] # "idle"
    BY <1>0, <1>6 DEF Expire, WaitStep, Wake, WaitTimesOut, Waiting, After
  <2>3. QED
    BY <1>0, <2>1, <2>2, RoomNeutral DEF Closed
<1>7. ASSUME NEW g, NEW h, CloneSend(g, h) \/ CloneRecv(g, h) PROVE RoomStep
  <2>1. /\ buffer' = buffer /\ not_full' \subseteq not_full /\ pc' = pc
        /\ \A s \in AwakePuts : handle'[Via[s]] # "closed"
    BY <1>0, <1>7 DEF CloneSend, CloneRecv
  <2>2. QED
    BY <1>0, <2>1, RoomNeutral DEF Closed
<1>8. ASSUME NEW h, CloseSend(h) \/ CloseRecv(h) PROVE RoomStep
  BY <1>8 DEF CloseSend, CloseRecv, Broadcast
<1>9. CASE UNCHANGED vars
  BY <1>0, <1>9, RoomNeutral DEF vars, Closed
<1>10. QED
  BY <1>1, <1>2, <1>3, <1>4, <1>5, <1>6, <1>7, <1>8, <1>9, PutLeaves, TakeWakes
  DEF Next, PutStep

\* No step loses the wake-up of a sender.
LEMMA NextNoLostRoom ==
  ASSUME TInv, TInv', TargetsCount, SleepersOpen, NoLostRoom, [Next]_vars
  PROVE  NoLostRoom'
<1> SUFFICES ASSUME Capacity \in Nat \ {0}, not_full' # {}
             PROVE  Cardinality(AwakePuts') >= Places'
  BY DEF NoLostRoom, AwakePuts, Places
<1>1. Places \in Int /\ Places' \in Int
  BY LenProperties DEF TInv, TypeOK, Places
<1>2. IsFiniteSet(AwakePuts) /\ IsFiniteSet(AwakePuts')
  <2>1. AwakePuts' \subseteq Senders
    BY DEF AwakePuts
  <2>2. QED
    BY <2>1, AwakeAreFinite, FS_Subset, ChannelAssumption
<1>3. CASE Capacity <= Len(buffer')
  <2>1. Cardinality(AwakePuts') \in Nat /\ Len(buffer') \in Nat
    BY <1>2, FS_CardinalityType, LenProperties DEF TInv, TypeOK
  <2>2. QED
    BY <1>3, <2>1 DEF Places
<1>4. CASE ~(Capacity <= Len(buffer'))
  <2>1. RoomStep
    BY RoomSteps
  <2>2. Cardinality(AwakePuts) >= Places
    BY <1>4, <2>1 DEF RoomStep, NoLostRoom, AwakePuts, Places
  <2>3. StillEnough(AwakePuts, AwakePuts', Places, Places')
    BY <1>4, <2>1 DEF RoomStep
  <2>4. QED
    BY <1>1, <1>2, <2>2, <2>3, EnoughAwake
<1>5. QED
  BY <1>3, <1>4

-----------------------------------------------------------------------------
\* Only get and get_nowait report the end of the stream, and only at the end.
LEMMA NextEndOfStream ==
  ASSUME TInv, CInv, EndOfStreamIsFinal, [Next]_vars
  PROVE  EndOfStreamIsFinal'
<1> USE ChannelAssumption
<1>1. ASSUME buffer = <<>>, open_send_channels = 0
      PROVE  buffer' = <<>> /\ open_send_channels' = 0
  <2>1. ASSUME NEW s \in Senders PROVE ~(PutAppend(s) \/ PutNowait(s))
    <3>1. handle[Via[s]] # "open"
      BY <1>1, OpenMeansThere DEF CInv
    <3>2. QED
      BY <3>1 DEF PutAppend, PutNowait, Closed, CInv, CallsHaveHandles, TInv,
         TypeOK, Threads
  <2>2. \A r \in Receivers : ~Take(r)
    BY <1>1 DEF Take, Dequeue
  <2>3. QED
    BY <1>1, <2>1, <2>2, ItemCases, EndsStay
<1>2. ASSUME NEW r \in Receivers, ret'[r] = "eos", ret[r] # "eos"
      PROVE  buffer' = <<>> /\ open_send_channels' = 0
  <2>0. /\ ret \in [Threads -> {"none", "ok", "accepted", "closed", "timeout",
                               "eos"}]
        /\ Senders \subseteq Threads /\ Receivers \subseteq Threads
    BY DEF TInv, TypeOK, Threads
  <2> USE DEF stateVars, openVars, callVars, Return, Goto, Raise
  <2>1. ASSUME NEW s \in Senders, CallPut(s) \/ PutStep(s) \/ PutNowait(s)
        PROVE  FALSE
    BY <1>2, <2>0, <2>1 DEF CallPut, Call, PutStep, PutClosed, PutAppend,
       PutTimeout, PutWait, HandoffClosed, HandoffReturn, HandoffTimeout,
       HandoffWait, PutNowait
  <2>2. ASSUME NEW q \in Receivers, CallGet(q) \/ GetStep(q) \/ GetNowait(q)
        PROVE  buffer = <<>> /\ open_send_channels = 0
    BY <1>2, <2>0, <2>2 DEF CallGet, Call, GetStep, GetClosed, GetTake, GetEnd,
       GetTimeout, GetWait, GetNowait, Take
  <2>3. ASSUME NEW t \in Threads, Expire(t) \/ WaitStep(t) PROVE FALSE
    BY <1>2, <2>3 DEF Expire, WaitStep, Wake, WaitTimesOut
  <2>4. ASSUME NEW g, NEW h,
               CloneSend(g, h) \/ CloneRecv(g, h) \/ CloseSend(h) \/ CloseRecv(h)
        PROVE  FALSE
    BY <1>2, <2>4 DEF CloneSend, CloneRecv, CloseSend, CloseRecv
  <2>5. CASE UNCHANGED vars
    BY <1>2, <2>5 DEF vars
  <2>6. QED
    BY <1>1, <2>1, <2>2, <2>3, <2>4, <2>5 DEF Next
<1>3. QED
  BY <1>1, <1>2 DEF EndOfStreamIsFinal

\* In a fresh channel nobody sleeps and nobody was told the end.
LEMMA InitWaitersLearn == Init => WaitersLearn
  BY DEF Init, WaitersLearn, EndOfStreamIsFinal, NoLostItem, NoLostRoom, Threads

\* The end of the stream is final, an item is never left to sleeping receivers only,
\* and a place of a bounded channel never to sleeping senders only: each wake-up of
\* put, get, close and the timeouts reaches a thread that will use it or was not
\* needed.  Nothing is said of a rendezvous put that waits for a place or its handoff.
THEOREM ChannelWaitersLearn == Spec => []WaitersLearn
<1> DEFINE WInv == TInv /\ OInv /\ CInv /\ TargetsCount /\ SleepersOpen /\ WaitersLearn
<1>1. Init => WInv
  BY InitTInv, InitOInv, InitCInv, InitTargetsCount, InitSleepersOpen,
     InitWaitersLearn
<1>2. WInv /\ [Next]_vars => WInv'
  BY NextTInv, NextOInv, NextCInv, NextTargetsCount, NextSleepersOpen,
     NextNoLostItem, NextNoLostRoom, NextEndOfStream DEF WaitersLearn
<1>3. WInv => WaitersLearn
  OBVIOUS
<1>4. QED
  <2> HIDE DEF WInv
  <2>1. QED
    BY <1>1, <1>2, <1>3, PTL DEF Spec
=============================================================================
