--------------------------- MODULE FrontEndsProofs ---------------------------
(***************************************************************************)
(* Proofs about the front ends: the gate of a host inside Granian, the     *)
(* WSGI border, the async bridges and the httptools backend, for any       *)
(* services, requests, bodies, caps and bounds.  A part is proved about on its own, and then as the    *)
(* way a request takes in FrontEnds.                                       *)
(***************************************************************************)
EXTENDS FrontEnds, TLAPS, SequenceTheorems, WellFoundedInduction

-----------------------------------------------------------------------------
(***************************************************************************)
(* The gate in front of a host (HostRsgi).                                 *)
(***************************************************************************)

\* What the gate stands for: the host runs, or its one service has died.
HostIsThere ==
    lifecycle = "none" \/ (\A s \in services : up[s]) \/ (~Composed /\ rootEnded)

\* The root follows its services, and the gate follows the root.
HostInv ==
    /\ services \subseteq Background
    /\ up \in [Background -> BOOLEAN]
    /\ request \in [Requests -> {"coming", "waiting", "dispatched"}]
    /\ rootUp => \A s \in services : up[s]
    /\ rootEnded /\ Composed => rootUp
    /\ ready => HostIsThere
    /\ \A r \in Requests : request[r] = "dispatched" => HostIsThere

LEMMA HostInvInit == HostInit => HostInv
  BY DEF HostInit, HostInv, HostIsThere

\* No step takes away what the gate was opened for: a service that has started
\* stays so, and so does a root that has stopped.
LEMMA HostStays ==
  ASSUME HostInv, [HostNext]_hvars
  PROVE  /\ services' = services
         /\ HostIsThere => HostIsThere'
<1>1. CASE \E s \in Background : ServiceStarts(s)
  BY <1>1 DEF ServiceStarts, rootVars, HostInv, HostIsThere, Composed
<1>2. CASE \E s \in Background : ServiceEnds(s)
  BY <1>2 DEF ServiceEnds, rootVars, HostIsThere, Composed
<1>3. CASE RootStarts
  BY <1>3 DEF RootStarts, svcVars, HostIsThere, Composed
<1>4. CASE RootEnds
  BY <1>4 DEF RootEnds, svcVars, HostIsThere, Composed
<1>5. CASE GateOpens
  BY <1>5 DEF GateOpens, svcVars, rootVars, HostIsThere, Composed
<1>6. CASE Exit
  BY <1>6 DEF Exit, rootVars, HostIsThere, Composed
<1>7. CASE Over
  BY <1>7 DEF Over, svcVars, rootVars, HostIsThere, Composed
<1>8. CASE Del
  BY <1>8 DEF Del, svcVars, rootVars, HostIsThere, Composed
<1>9. CASE \E r \in Requests : Arrive(r) \/ PassGate(r)
  BY <1>9 DEF Arrive, PassGate, svcVars, rootVars, HostIsThere, Composed
<1>10. CASE UNCHANGED hvars
  BY <1>10 DEF hvars, svcVars, rootVars, HostIsThere, Composed
<1>11. QED
  BY <1>1, <1>2, <1>3, <1>4, <1>5, <1>6, <1>7, <1>8, <1>9, <1>10 DEF HostNext, HostStep

LEMMA HostInvNext == HostInv /\ [HostNext]_hvars => HostInv'
<1> SUFFICES ASSUME HostInv, [HostNext]_hvars PROVE HostInv'
  OBVIOUS
<1>0. services' = services /\ (HostIsThere => HostIsThere')
  BY HostStays
<1>1. ASSUME NEW s \in Background, ServiceStarts(s) \/ ServiceEnds(s) PROVE HostInv'
  <2>1. \/ up' = up
        \/ up' = [up EXCEPT ![s] = TRUE]
    BY <1>1 DEF ServiceStarts, ServiceEnds
  <2>2. UNCHANGED <<ready, request, rootUp, rootEnded>>
    BY <1>1 DEF ServiceStarts, ServiceEnds, rootVars
  <2>3. up' \in [Background -> BOOLEAN] /\ \A b \in Background : up[b] => up'[b]
    BY <2>1 DEF HostInv
  <2>4. QED
    BY <1>0, <2>2, <2>3 DEF HostInv, Composed
<1>2. CASE RootStarts \/ Del \/ Exit
  BY <1>0, <1>2 DEF RootStarts, Del, Exit, svcVars, rootVars, HostInv, Composed
<1>3. CASE RootEnds
  BY <1>0, <1>3 DEF RootEnds, svcVars, HostInv, Composed
<1>4. CASE GateOpens \/ Over
  BY <1>0, <1>4 DEF GateOpens, Over, svcVars, rootVars, HostInv, HostIsThere, Composed
<1>5. CASE \E r \in Requests : Arrive(r) \/ PassGate(r)
  BY <1>0, <1>5 DEF Arrive, PassGate, svcVars, rootVars, HostInv, Composed
<1>6. CASE UNCHANGED hvars
  BY <1>0, <1>6 DEF hvars, svcVars, rootVars, HostInv, Composed
<1>7. QED
  BY <1>1, <1>2, <1>3, <1>4, <1>5, <1>6 DEF HostNext, HostStep

LEMMA HostInvSafe == HostInv => NoHalfStartedHost
  BY DEF HostInv, HostIsThere, NoHalfStartedHost


-----------------------------------------------------------------------------
(***************************************************************************)
(* The WSGI border (WsgiBridge).                                           *)
(***************************************************************************)

\* The places of a wrapped application, before and after its head is sent.
BeforeHead == {"new", "app", "first", "commit"}
AfterHead == {"rest", "ended"}

\* A place belongs to one direction, and what a wrapped application has done is
\* read off the place it is at.
WsgiInv ==
    /\ side = "wrap" => at \in BeforeHead \cup AfterHead \cup {"failed", "done", "raised"}
    /\ side = "to" => /\ at \in {"handler", "respond", "serving", "done", "raised"}
                      /\ ~lateError
                      /\ at \in {"handler", "respond"} => committed = 0
    /\ lateError \in BOOLEAN
    /\ lateError => at \in {"failed", "raised"}
    /\ side = "wrap" /\ at \in BeforeHead =>
          /\ committed = 0 /\ sent = 0
          /\ yielded = IF first THEN 1 ELSE 0
          /\ at # "commit" => ~first
    /\ side = "wrap" /\ at \in AfterHead \cup {"done"} => sent = yielded
    /\ side = "wrap" /\ at \notin {"done", "raised"} => closed = 0
    /\ ClosedOnce
    /\ NoResponseOutOfNothing

LEMMA WsgiInvInit == WsgiInit => WsgiInv
<1> SUFFICES ASSUME WsgiInit PROVE WsgiInv
  OBVIOUS
<1>1. /\ side \in {"wrap", "to"} /\ at = IF side = "wrap" THEN "new" ELSE "handler"
      /\ committed = 0 /\ sent = 0 /\ closed = 0 /\ yielded = 0
      /\ first = FALSE /\ lateError = FALSE
  BY DEF WsgiInit
<1>2. ClosedOnce /\ NoResponseOutOfNothing
  BY <1>1 DEF ClosedOnce, NoResponseOutOfNothing
<1>3. yielded = IF first THEN 1 ELSE 0
  BY <1>1
<1>4. QED
  BY <1>1, <1>2, <1>3 DEF WsgiInv, BeforeHead, AfterHead

\* The steps of a wrapped application keep the account of its chunks.
LEMMA WrappedKeepsInv ==
  ASSUME WsgiInv,
         \/ ReadBody \/ StartResponse \/ AppReturns \/ PullFirst \/ NothingToPull
         \/ Commit \/ NextChunk \/ Exhausted \/ AppRaises \/ CloseIterator
  PROVE  WsgiInv'
<1> USE DEF WsgiInv, BeforeHead, AfterHead, ClosedOnce, NoResponseOutOfNothing,
            Goto, appVars, toVars
<1>1. CASE ReadBody
  BY <1>1 DEF ReadBody
<1>2. CASE StartResponse
  BY <1>2 DEF StartResponse
<1>3. CASE AppReturns \/ NothingToPull
  BY <1>3 DEF AppReturns, NothingToPull
<1>4. CASE PullFirst
  BY <1>4 DEF PullFirst
<1>5. CASE Commit
  BY <1>5 DEF Commit
<1>6. CASE NextChunk
  BY <1>6 DEF NextChunk
<1>7. CASE Exhausted
  BY <1>7 DEF Exhausted
<1>8. CASE AppRaises
  BY <1>8 DEF AppRaises
<1>9. CASE CloseIterator
  BY <1>9 DEF CloseIterator
<1>10. QED
  BY <1>1, <1>2, <1>3, <1>4, <1>5, <1>6, <1>7, <1>8, <1>9

\* So does everything that happens to a native handler under a WSGI server.
LEMMA WsgiInvNext == WsgiInv /\ [WsgiNext]_wvars => WsgiInv'
<1> SUFFICES ASSUME WsgiInv, [WsgiNext]_wvars PROVE WsgiInv'
  OBVIOUS
<1> USE DEF WsgiInv, BeforeHead, AfterHead, ClosedOnce, NoResponseOutOfNothing,
            Goto, appVars, toVars
<1>1. CASE Capture \/ CaptureAgain
  BY <1>1 DEF Capture, CaptureAgain
<1>2. CASE HandlerReturns \/ HandlerRaises
  BY <1>2 DEF HandlerReturns, HandlerRaises
<1>3. CASE Respond
  BY <1>3 DEF Respond
<1>4. CASE Serve \/ Served
  BY <1>4 DEF Serve, Served
<1>5. CASE ReadInput
  BY <1>5 DEF ReadInput
<1>6. CASE UNCHANGED wvars
  BY <1>6 DEF wvars
<1>7. QED
  BY <1>1, <1>2, <1>3, <1>4, <1>5, <1>6, WrappedKeepsInv DEF WsgiNext, Finished

LEMMA WsgiInvSafe == WsgiInv => WsgiFaithful
  BY DEF WsgiInv, AfterHead, WsgiFaithful, NoChunkIsLost, LateErrorAborts

-----------------------------------------------------------------------------
(***************************************************************************)
(* The async bridges (AsyncBridge): the body.                              *)
(***************************************************************************)

\* The pump holds a chunk only while it sends it, and has ended early only if it
\* saw the peer leave; the handler's reads have lost nothing of what it took.
BodyInv ==
    /\ bridge \in {"asgi", "rsgi"} /\ {flag, eof, failed} \subseteq BOOLEAN
    /\ whole \in Seq(Nat) /\ whole = Upto(Len(whole)) /\ taken \in 0 .. Len(whole)
    /\ {got, leftover, chunk} \subseteq Seq(Nat) /\ reading \in Nat
    /\ pump \in {"off", "receiving", "sending", "listening", "ended"}
    /\ pump = "off" => handler \in {"new", "done"}
    /\ handler = "new" => pump = "off"
    /\ pump # "sending" => chunk = <<>>
    /\ pump = "listening" => bridge = "asgi" /\ taken = Len(whole)
    /\ bridge = "asgi" /\ pump = "ended" /\ handler # "done" => flag
    /\ failed => handler \in {"close", "leaving", "done"}
    /\ eof => handler # "receive"
    /\ BodyInOrder
    /\ LossIsVisible

LEMMA UptoIsSeq == \A n \in Nat : Upto(n) \in Seq(Nat) /\ Len(Upto(n)) = n
<1> SUFFICES ASSUME NEW n \in Nat PROVE Upto(n) \in Seq(Nat) /\ Len(Upto(n)) = n
  OBVIOUS
<1>1. QED
  BY DEF Upto

LEMMA ConcatNats ==
  ASSUME NEW a \in Seq(Nat), NEW b \in Seq(Nat), NEW c \in Seq(Nat)
  PROVE  /\ a \o b \in Seq(Nat)
         /\ (a \o b) \o c = a \o (b \o c)
         /\ a \o <<>> = a /\ <<>> \o a = a
<1>1. a \o b \in Seq(Nat)
  BY ConcatProperties
<1>2. (a \o b) \o c = a \o (b \o c)
  BY ConcatAssociative
<1>3. a \o <<>> = a /\ <<>> \o a = a
  BY ConcatEmptySeq
<1>4. QED
  BY <1>1, <1>2, <1>3

LEMMA JoinUpto ==
  ASSUME NEW n \in Nat, NEW m \in Nat, NEW a \in Seq(Nat), NEW b \in Seq(Nat),
         Len(a) = n, Len(b) = m, \A i \in 1 .. n : a[i] = i, \A i \in 1 .. m : b[i] = n + i
  PROVE  a \o b = Upto(n + m)
<1>1. /\ a \o b \in Seq(Nat) /\ Len(a \o b) = n + m
      /\ \A i \in 1 .. n + m : (a \o b)[i] = IF i <= n THEN a[i] ELSE b[i - n]
  BY ConcatProperties
<1>2. \A i \in 1 .. n + m : (a \o b)[i] = i
  BY <1>1
<1>3. /\ Upto(n + m) \in Seq(Nat) /\ Len(Upto(n + m)) = n + m
      /\ \A i \in 1 .. n + m : Upto(n + m)[i] = i
  BY UptoIsSeq DEF Upto
<1>4. QED
  BY <1>1, <1>2, <1>3, SeqEqual

\* Reading on from where the pump stands continues the body.
LEMMA UptoGrows ==
  ASSUME NEW w \in Seq(Nat), w = Upto(Len(w)), NEW n \in 0 .. Len(w), NEW m \in n .. Len(w)
  PROVE  /\ SubSeq(w, n + 1, m) \in Seq(Nat)
         /\ Upto(n) \o SubSeq(w, n + 1, m) = Upto(m)
<1> DEFINE b == SubSeq(w, n + 1, m)
<1>1. Upto(n) \in Seq(Nat) /\ Len(Upto(n)) = n /\ \A i \in 1 .. n : Upto(n)[i] = i
  BY UptoIsSeq DEF Upto
<1>2. \A i \in 1 .. Len(w) : w[i] = i
  BY DEF Upto
<1>3. b \in Seq(Nat) /\ Len(b) = m - n /\ \A i \in 1 .. m - n : b[i] = n + i
  BY <1>2
<1>4. Upto(n) \o b = Upto(m)
  <2> DEFINE k == m - n
  <2>0. n \in Nat /\ k \in Nat /\ n + k = m
    OBVIOUS
  <2> HIDE DEF b
  <2>1. n \in Nat /\ k \in Nat /\ n + k = m /\ Len(b) = k /\ \A i \in 1 .. k : b[i] = n + i
    BY <1>3, <2>0
  <2> HIDE DEF k
  <2>2. Upto(n) \o b = Upto(n + k)
    BY <1>1, <1>3, <2>1, JoinUpto
  <2>3. QED
    BY <2>1, <2>2
<1>5. QED
  BY <1>3, <1>4, Zenon

\* A chunk is cut without loss.
LEMMA CutIsWhole ==
  ASSUME NEW g \in Seq(Nat), NEW c \in Seq(Nat), NEW k \in 0 .. Len(c)
  PROVE  /\ SubSeq(c, 1, k) \in Seq(Nat) /\ SubSeq(c, k + 1, Len(c)) \in Seq(Nat)
         /\ g \o SubSeq(c, 1, k) \in Seq(Nat)
         /\ (g \o SubSeq(c, 1, k)) \o SubSeq(c, k + 1, Len(c)) = g \o c
<1> DEFINE x == SubSeq(c, 1, k)
           y == SubSeq(c, k + 1, Len(c))
<1>1. x \in Seq(Nat) /\ y \in Seq(Nat)
  BY DEF SubSeq
<1>2. x \o y = c
  <2>1. Len(c) \in Nat /\ 1 \in 1 .. Len(c) + 1 /\ k \in 1 - 1 .. Len(c) /\ Len(c) \in k .. Len(c)
    OBVIOUS
  <2>2. x \o y = SubSeq(c, 1, Len(c))
    BY <2>1, ConcatAdjacentSubSeq, Zenon
  <2>3. QED
    BY <2>2, SubSeqFull
<1> HIDE DEF x, y
<1>3. (g \o x) \o y = g \o (x \o y) /\ g \o x \in Seq(Nat)
  BY <1>1, ConcatNats, SMTT(30)
<1>4. QED
  BY <1>1, <1>2, <1>3 DEF x, y

LEMMA BodyInvInit == Init => BodyInv
<1> SUFFICES ASSUME Init PROVE BodyInv
  OBVIOUS
<1>1. whole \in Seq(Nat) /\ whole = Upto(Len(whole)) /\ Len(whole) \in Nat
  <2>1. PICK n \in 0 .. Length : whole = Upto(n)
    BY DEF Init
  <2>2. QED
    BY <2>1, UptoIsSeq, AsyncBridgeAssumption
<1>2. Upto(0) = <<>>
  BY UptoIsSeq, EmptySeq
<1>3. got \o leftover \o chunk = <<>> /\ <<>> \in Seq(Nat)
  BY DEF Init
<1>4. BodyInOrder /\ LossIsVisible
  BY <1>2, <1>3 DEF Init, BodyInOrder, LossIsVisible
<1>5. {got, leftover, chunk} \subseteq Seq(Nat) /\ {flag, eof, failed} \subseteq BOOLEAN
  BY <1>3 DEF Init
<1>6. QED
  BY <1>1, <1>4, <1>5 DEF Init, BodyInv

\* The handler takes what is first: the bytes kept, or the pump's chunk c.
LEMMA ReturnKeepsOrder ==
  ASSUME BodyInv, ~eof, handler = "receive", NEW c \in Seq(Nat), NEW k \in 0 .. Len(c),
         reading = 0 => k = Len(c), Return(c, k), leftover' = SubSeq(c, k + 1, Len(c))
  PROVE  /\ got' \in Seq(Nat) /\ leftover' \in Seq(Nat) /\ failed' \in BOOLEAN
         /\ handler' \in {"run", "receive", "leaving"}
         /\ failed' => handler' = "leaving"
         /\ ~failed' => got' \o leftover' = got \o c
<1>1. got \in Seq(Nat) /\ failed \in BOOLEAN /\ ~failed
  BY DEF BodyInv
<1>2. /\ SubSeq(c, 1, k) \in Seq(Nat) /\ SubSeq(c, k + 1, Len(c)) \in Seq(Nat)
      /\ got \o SubSeq(c, 1, k) \in Seq(Nat)
      /\ (got \o SubSeq(c, 1, k)) \o SubSeq(c, k + 1, Len(c)) = got \o c
  BY <1>1, CutIsWhole
<1>3. CASE reading # 0
  <2>1. got' = got \o SubSeq(c, 1, k) /\ handler' = "run" /\ failed' = failed
    BY <1>3 DEF Return
  <2>2. QED
    BY <1>1, <1>2, <2>1, Zenon
<1>4. CASE reading = 0 /\ Len(got) + Len(c) > ReadCap
  BY <1>1, <1>2, <1>4 DEF Return
<1>5. CASE reading = 0 /\ ~(Len(got) + Len(c) > ReadCap)
  <2>1. got' = got \o c /\ handler' = "receive" /\ failed' = failed
    BY <1>5 DEF Return
  <2>2. leftover' = <<>>
    BY <1>5, SubSeqEmpty
  <2>3. got \o c \in Seq(Nat) /\ (got \o c) \o <<>> = got \o c
    BY <1>2, ConcatProperties, ConcatEmptySeq
  <2>4. QED
    BY <1>1, <1>2, <2>1, <2>2, <2>3
<1>6. QED
  BY <1>3, <1>4, <1>5

\* The pump takes the next piece of the body, or learns of the end.
LEMMA PumpKeepsBody ==
  ASSUME BodyInv, PumpReceive \/ PumpLearns
  PROVE  BodyInv'
<1>1. CASE PumpReceive
  <2>1. PICK upto \in taken .. Len(whole) :
           /\ taken' = upto /\ chunk' = SubSeq(whole, taken + 1, upto)
           /\ IF upto > taken THEN pump' = "sending"
              ELSE upto = Len(whole) /\ pump' = AfterBody
    BY <1>1 DEF PumpReceive
  <2>2. /\ pump = "receiving"
        /\ UNCHANGED <<bridge, whole, flag, gone, readVars, handler, failed>>
    BY <1>1 DEF PumpReceive
  <2>3. /\ chunk = <<>> /\ taken \in 0 .. Len(whole) /\ Len(whole) \in Nat
        /\ got \in Seq(Nat) /\ leftover \in Seq(Nat)
    BY <2>2 DEF BodyInv
  <2>4. /\ chunk' \in Seq(Nat) /\ taken' \in 0 .. Len(whole)
        /\ Upto(taken) \o chunk' = Upto(taken')
    <3>1. whole \in Seq(Nat) /\ whole = Upto(Len(whole))
      BY DEF BodyInv
    <3>2. /\ SubSeq(whole, taken + 1, upto) \in Seq(Nat)
          /\ Upto(taken) \o SubSeq(whole, taken + 1, upto) = Upto(upto)
      BY <2>3, <3>1, UptoGrows
    <3>3. upto \in 0 .. Len(whole)
      BY <2>3
    <3>4. QED
      BY <2>1, <3>2, <3>3, Zenon
  <2>5. chunk' = <<>> \/ pump' = "sending"
    BY <2>1, <2>3, SubSeqEmpty
  <2>6. BodyInOrder'
    <3> SUFFICES ASSUME handler # "done", ~failed PROVE (got \o leftover) \o chunk' = Upto(taken')
      BY <2>2 DEF BodyInOrder, readVars
    <3>1. got \o leftover = Upto(taken)
      BY <2>3, ConcatNats DEF BodyInv, BodyInOrder
    <3>2. QED
      BY <2>4, <3>1
  <2>7. LossIsVisible'
    BY <2>2 DEF BodyInv, LossIsVisible, readVars
  <2>8. pump' = "listening" => bridge = "asgi" /\ taken' = Len(whole)
    BY <2>1 DEF AfterBody
  <2>9. bridge = "asgi" => pump' # "ended"
    BY <2>1 DEF AfterBody
  <2>10. pump' \in {"sending", "listening", "ended"}
    BY <2>1 DEF AfterBody
  <2>11. QED
    BY <2>2, <2>4, <2>5, <2>6, <2>7, <2>8, <2>9, <2>10 DEF BodyInv, readVars
<1>2. CASE PumpLearns
  BY <1>2 DEF PumpLearns, BodyInv, BodyInOrder, LossIsVisible, readVars
<1>3. QED
  BY <1>1, <1>2

\* The handler is handed bytes that were kept, a chunk, or the end.
LEMMA ReadKeepsBody ==
  ASSUME BodyInv, Receive \/ FromLeftover \/ HandOver \/ EndOfBody
  PROVE  BodyInv'
<1>0. /\ got \in Seq(Nat) /\ leftover \in Seq(Nat) /\ chunk \in Seq(Nat)
      /\ reading \in Nat /\ Len(leftover) \in Nat /\ Len(chunk) \in Nat
      /\ handler = "receive" => ~eof /\ ~failed
  BY DEF BodyInv
<1>1. CASE Receive
  <2>1. reading' \in Nat
    BY <1>1, AsyncBridgeAssumption DEF Receive
  <2>2. QED
    BY <1>1, <2>1 DEF Receive, Call, bodyVars, BodyInv, BodyInOrder, LossIsVisible
<1>2. CASE FromLeftover
  <2> DEFINE size == IF reading = 0 \/ reading > Len(leftover) THEN Len(leftover)
                     ELSE reading
  <2>1. /\ handler = "receive" /\ Return(leftover, size)
        /\ leftover' = SubSeq(leftover, size + 1, Len(leftover))
        /\ UNCHANGED <<bridge, whole, taken, pump, chunk, flag, eof, reading>>
    BY <1>2 DEF FromLeftover, bodyVars
  <2>2. size \in 0 .. Len(leftover) /\ (reading = 0 => size = Len(leftover))
    BY <1>0
  <2> HIDE DEF size
  <2>3. /\ got' \in Seq(Nat) /\ leftover' \in Seq(Nat) /\ failed' \in BOOLEAN
        /\ handler' \in {"run", "receive", "leaving"}
        /\ failed' => handler' = "leaving"
        /\ ~failed' => got' \o leftover' = got \o leftover
    BY <1>0, <2>1, <2>2, ReturnKeepsOrder
  <2>4. BodyInOrder'
    BY <1>0, <2>1, <2>3 DEF BodyInv, BodyInOrder
  <2>5. QED
    BY <1>0, <2>1, <2>3, <2>4 DEF BodyInv, LossIsVisible
<1>3. CASE HandOver
  <2> DEFINE size == IF reading = 0 \/ reading > Len(chunk) THEN Len(chunk) ELSE reading
  <2>1. /\ handler = "receive" /\ Return(chunk, size) /\ leftover = <<>> /\ chunk' = <<>>
        /\ leftover' = SubSeq(chunk, size + 1, Len(chunk))
        /\ pump = "sending"
        /\ pump' = "receiving" \/ (taken = Len(whole) /\ pump' = AfterBody)
        /\ UNCHANGED <<bridge, whole, taken, flag, eof, reading>>
    BY <1>3 DEF HandOver, PumpGoesOn
  <2>2. size \in 0 .. Len(chunk) /\ (reading = 0 => size = Len(chunk))
    BY <1>0
  <2> HIDE DEF size
  <2>3. /\ got' \in Seq(Nat) /\ leftover' \in Seq(Nat) /\ failed' \in BOOLEAN
        /\ handler' \in {"run", "receive", "leaving"}
        /\ failed' => handler' = "leaving"
        /\ ~failed' => got' \o leftover' = got \o chunk
    BY <1>0, <2>1, <2>2, ReturnKeepsOrder
  <2>4. BodyInOrder'
    <3> SUFFICES ASSUME ~failed' PROVE (got' \o leftover') \o chunk' = Upto(taken)
      BY <2>1 DEF BodyInOrder
    <3>1. got \o leftover = got /\ (got' \o leftover') \in Seq(Nat)
      BY <1>0, <2>1, <2>3, ConcatNats
    <3>2. (got' \o leftover') \o <<>> = got' \o leftover'
      BY <3>1, ConcatEmptySeq
    <3>3. got \o chunk = Upto(taken)
      BY <1>0, <2>1, <3>1 DEF BodyInv, BodyInOrder
    <3>4. QED
      BY <2>1, <2>3, <3>2, <3>3
  <2>5. QED
    BY <1>0, <2>1, <2>3, <2>4 DEF BodyInv, LossIsVisible, AfterBody
<1>4. CASE EndOfBody
  <2>1. /\ handler = "receive" /\ leftover = <<>> /\ pump \in {"listening", "ended"}
        /\ eof' = TRUE /\ handler' = "run"
        /\ UNCHANGED <<bridge, whole, taken, pump, chunk, flag, leftover, got, reading,
                       failed>>
    BY <1>4 DEF EndOfBody, bodyVars
  <2>2. chunk = <<>> /\ got = Upto(taken)
    BY <1>0, <2>1, ConcatNats DEF BodyInv, BodyInOrder
  <2>3. LossIsVisible'
    BY <2>1, <2>2 DEF BodyInv, LossIsVisible
  <2>4. QED
    BY <2>1, <2>3 DEF BodyInv, BodyInOrder
<1>5. QED
  BY <1>1, <1>2, <1>3, <1>4

\* What the handler does with its response does not touch what it reads.
LEMMA AnswerKeepsBody ==
  ASSUME BodyInv, UNCHANGED <<bridge, whole, bodyVars, flag, readVars>>,
         handler \notin {"new", "receive", "done"}, handler' \notin {"new", "receive"},
         ~failed \/ failed',
         failed' \in BOOLEAN, failed' => handler' \in {"close", "leaving", "done"}
  PROVE  BodyInv'
<1>1. UNCHANGED <<taken, pump, chunk, leftover, eof, got, reading>> /\ pump # "off"
  BY DEF bodyVars, readVars, BodyInv
<1>2. BodyInOrder' /\ LossIsVisible'
  BY <1>1 DEF BodyInv, BodyInOrder, LossIsVisible
<1>3. QED
  BY <1>1, <1>2 DEF BodyInv

LEMMA BodyInvNext == BodyInv /\ [Next]_vars => BodyInv'
<1> SUFFICES ASSUME BodyInv, [Next]_vars PROVE BodyInv'
  OBVIOUS
<1>0. failed \in BOOLEAN /\ (failed => handler \in {"close", "leaving", "done"})
  BY DEF BodyInv
<1>1. CASE PumpStep
  BY <1>1, PumpKeepsBody DEF PumpStep
<1>2. CASE Receive \/ FromLeftover \/ HandOver \/ EndOfBody
  BY <1>2, ReadKeepsBody
<1>3. CASE AlreadyStarted \/ Complete \/ CompleteBody \/ StreamStarts \/ HandlerEnds
  <2>1. /\ UNCHANGED <<bridge, whole, bodyVars, flag, readVars>>
        /\ handler \in {"run", "complete"} /\ handler' \notin {"new", "receive", "done"}
        /\ failed' \in BOOLEAN /\ (failed' => handler' = "leaving")
    <3>1. CASE AlreadyStarted \/ HandlerEnds
      BY <3>1 DEF AlreadyStarted, HandlerEnds
    <3>2. CASE Complete
      BY <1>0, <3>2 DEF Complete
    <3>3. CASE CompleteBody \/ StreamStarts
      BY <1>0, <3>3 DEF CompleteBody, StreamStarts
    <3>4. QED
      BY <1>3, <3>1, <3>2, <3>3
  <2>2. QED
    BY <1>0, <2>1, AnswerKeepsBody
<1>4. CASE StreamChunk \/ StreamEnds \/ CloseStream
  BY <1>0, <1>4, AnswerKeepsBody DEF StreamChunk, StreamEnds, CloseStream
<1>5. CASE Dispatch
  <2>1. /\ UNCHANGED <<bridge, whole, taken, chunk, flag, readVars, failed>>
        /\ handler = "new" /\ handler' \in {"run", "done"}
        /\ (handler' = "done" /\ pump' = pump) \/ (handler' = "run" /\ pump' = "receiving")
    BY <1>5 DEF Dispatch
  <2>2. chunk = <<>>
    BY <2>1 DEF BodyInv
  <2>3. QED
    BY <2>1, <2>2 DEF BodyInv, BodyInOrder, LossIsVisible, readVars
<1>6. CASE Watch \/ PeerLeaves
  <2>1. /\ UNCHANGED <<bridge, whole, bodyVars, readVars, handler, failed>>
        /\ flag' = flag \/ flag' = TRUE
    BY <1>6 DEF Watch, PeerLeaves
  <2>2. QED
    BY <2>1 DEF BodyInv, BodyInOrder, LossIsVisible, bodyVars, readVars
<1>7. CASE LeaveGroup
  BY <1>7, EmptySeq DEF LeaveGroup, BodyInv, BodyInOrder, LossIsVisible, readVars
<1>8. CASE UNCHANGED vars
  BY <1>8 DEF vars, BodyInv, BodyInOrder, LossIsVisible, bodyVars, readVars
<1>9. QED
  BY <1>1, <1>2, <1>3, <1>4, <1>5, <1>6, <1>7, <1>8 DEF Next, HandlerStep, HandlerCalls, Ended

-----------------------------------------------------------------------------
(***************************************************************************)
(* The async bridges (AsyncBridge): the response.                          *)
(***************************************************************************)

Events == {"start", "body", "final", "whole"}

\* Under ASGI a response is open while the handler is inside complete or
\* stream, and closed afterwards unless the peer is known to be gone.
WireInv ==
    /\ bridge \in {"asgi", "rsgi"} /\ {flag, started} \subseteq BOOLEAN
    /\ wire \in Seq(Events)
    /\ handler = "new" => ~started
    /\ handler # "done" => (started <=> wire # <<>>)
    /\ handler \in {"complete", "stream", "close"} => wire # <<>>
    /\ bridge = "asgi" =>
          /\ handler \in {"complete", "stream", "close"} =>
                \A i \in DOMAIN wire : wire[i] # "final"
          /\ wire # <<>> /\ handler \notin {"complete", "stream", "close"} /\ ~flag =>
                Last(wire) = "final"
          /\ \A i \in DOMAIN wire : wire[i] = "start" <=> i = 1
          /\ \A i \in DOMAIN wire : wire[i] = "final" => i = Len(wire)

LEMMA WireInvInit == Init => WireInv
<1> SUFFICES ASSUME Init PROVE WireInv
  OBVIOUS
<1>1. wire = <<>> /\ wire \in Seq(Events) /\ started = FALSE /\ flag = FALSE /\ handler = "new"
  BY EmptySeq DEF Init
<1>2. DOMAIN wire = {}
  BY <1>1
<1>3. QED
  BY <1>1, <1>2 DEF Init, WireInv

\* One more event on the wire.
LEMMA WireGrows ==
  ASSUME wire \in Seq(Events), NEW e \in Events, wire' = Append(wire, e)
  PROVE  /\ wire' \in Seq(Events) /\ wire' # <<>> /\ Last(wire') = e
         /\ DOMAIN wire' = 1 .. Len(wire) + 1 /\ Len(wire') = Len(wire) + 1
         /\ DOMAIN wire = 1 .. Len(wire) /\ Len(wire) \in Nat
         /\ \A i \in 1 .. Len(wire) : wire'[i] = wire[i]
         /\ wire'[Len(wire) + 1] = e
  BY AppendProperties DEF Last

\* complete and stream end with the event that closes the response.
LEMMA FinalKeepsWire ==
  ASSUME WireInv, handler \in {"complete", "stream", "close"}, wire' = Append(wire, "final"),
         UNCHANGED <<bridge, flag, started>>, handler' \in {"run", "leaving"}
  PROVE  WireInv'
<1>1. wire \in Seq(Events) /\ "final" \in Events /\ wire # <<>> /\ started
  BY DEF WireInv, Events
<1>2. Len(wire) # 0
  BY <1>1
<1>3. QED
  BY <1>1, <1>2, WireGrows DEF WireInv

\* A handler that is not inside complete or stream leaves the response alone.
LEMMA QuietKeepsWire ==
  ASSUME WireInv, UNCHANGED <<bridge, started, wire>>, flag' \in BOOLEAN, flag => flag',
         handler' # "new" \/ handler' = handler,
         handler = "done" <=> handler' = "done",
         handler \in {"complete", "stream", "close"} <=> handler' \in {"complete", "stream", "close"}
  PROVE  WireInv'
  BY DEF WireInv

LEMMA WireInvNext == WireInv /\ [Next]_vars => WireInv'
<1> SUFFICES ASSUME WireInv, [Next]_vars PROVE WireInv'
  OBVIOUS
<1>0. flag \in BOOLEAN
  BY DEF WireInv
<1>1. CASE PumpReceive \/ PumpLearns \/ Watch \/ PeerLeaves
  BY <1>0, <1>1, QuietKeepsWire DEF PumpReceive, PumpLearns, Watch, PeerLeaves, respVars
<1>2. CASE Receive \/ FromLeftover \/ HandOver \/ EndOfBody
  BY <1>0, <1>2, QuietKeepsWire
     DEF Receive, Call, FromLeftover, HandOver, EndOfBody, Return, respVars
<1>3. CASE AlreadyStarted \/ HandlerEnds \/ StreamEnds
  BY <1>0, <1>3, QuietKeepsWire DEF AlreadyStarted, HandlerEnds, StreamEnds, respVars
<1>4. CASE Dispatch
  <2>1. CASE wire' = CannedReply /\ handler' = "done"
    <3>1. \/ bridge = "asgi" /\ wire' = <<"start", "final">>
          \/ bridge = "rsgi" /\ wire' = <<"whole">>
      BY <2>1 DEF CannedReply, WireInv
    <3>2. CASE bridge = "asgi" /\ wire' = <<"start", "final">>
      <4>1. /\ wire' \in Seq(Events) /\ wire' # <<>> /\ DOMAIN wire' = 1 .. 2 /\ Len(wire') = 2
            /\ wire'[1] = "start" /\ wire'[2] = "final" /\ Last(wire') = "final"
        BY <3>2 DEF Events, Last
      <4>2. QED
        BY <1>4, <2>1, <4>1 DEF Dispatch, WireInv
    <3>3. CASE bridge = "rsgi" /\ wire' = <<"whole">>
      <4>1. wire' \in Seq(Events)
        BY <3>3 DEF Events
      <4>2. QED
        BY <1>4, <2>1, <3>3, <4>1 DEF Dispatch, WireInv
    <3>4. QED
      BY <3>1, <3>2, <3>3
  <2>2. CASE wire' = wire /\ handler' = "run"
    BY <1>4, <2>2 DEF Dispatch, WireInv
  <2>3. QED
    BY <1>4, <2>1, <2>2 DEF Dispatch
<1>5. CASE Complete \/ StreamStarts
  <2>1. PICK e \in {"start", "whole"} :
           /\ wire' = Append(wire, e) /\ started' = TRUE
           /\ bridge = "asgi" => e = "start" /\ handler' \in {"complete", "stream"}
           /\ ~started /\ handler = "run" /\ handler' \in {"run", "complete", "stream"}
           /\ UNCHANGED <<bridge, flag>>
    BY <1>5 DEF Complete, StreamStarts
  <2>2. wire = <<>> /\ wire \in Seq(Events) /\ e \in Events
    BY <2>1 DEF WireInv, Events
  <2>3. wire' = <<e>>
    BY <2>1, <2>2
  <2>4. QED
    BY <2>1, <2>2, <2>3, WireGrows DEF WireInv
<1>6. CASE CompleteBody
  <2>1. wire' = Append(wire, "final") /\ "final" \in Events /\ wire \in Seq(Events)
    BY <1>6 DEF CompleteBody, WireInv, Events
  <2>2. QED
    BY <1>6, <2>1, FinalKeepsWire DEF CompleteBody, WireInv
<1>7. CASE StreamChunk
  <2>1. CASE flag
    BY <1>7, <2>1 DEF StreamChunk, WireInv
  <2>2. CASE ~flag
    <3>1. wire' = Append(wire, "body") /\ "body" \in Events /\ wire \in Seq(Events)
      BY <1>7, <2>2 DEF StreamChunk, WireInv, Events
    <3>2. QED
      BY <1>7, <2>2, <3>1, WireGrows DEF StreamChunk, WireInv
  <2>3. QED
    BY <2>1, <2>2
<1>8. CASE CloseStream
  <2>1. CASE bridge = "asgi" /\ ~flag
    <3>1. wire' = Append(wire, "final") /\ "final" \in Events /\ wire \in Seq(Events)
      BY <1>8, <2>1 DEF CloseStream, WireInv, Events
    <3>2. QED
      BY <1>8, <2>1, <3>1, FinalKeepsWire DEF CloseStream, WireInv
  <2>2. CASE ~(bridge = "asgi" /\ ~flag)
    BY <1>8, <2>2 DEF CloseStream, WireInv
  <2>3. QED
    BY <2>1, <2>2
<1>9. CASE LeaveGroup
  BY <1>9 DEF LeaveGroup, respVars, WireInv
<1>10. CASE UNCHANGED vars
  BY <1>10 DEF vars, respVars, WireInv
<1>11. QED
  BY <1>1, <1>2, <1>3, <1>4, <1>5, <1>6, <1>7, <1>8, <1>9, <1>10
     DEF Next, PumpStep, HandlerStep, HandlerCalls, Ended

LEMMA BridgeInvSafe == BodyInv /\ WireInv => BodyAndResponse
  BY DEF BodyInv, WireInv, BodyAndResponse, ResponseIsClosed

-----------------------------------------------------------------------------
(***************************************************************************)
(* A connection of the httptools backend whose client does not pipeline    *)
(* (HttpTools).  A feed is a fold over tokens, so the invariant is one of  *)
(* the connection in the middle of a feed, and holds token by token.       *)
(***************************************************************************)

\* The request that is due, what the client has still to send of it, and whether
\* its answer is yet to begin or its handler has it.
Latest == Len(plan)
Owed == IF plan = <<>> THEN 0 ELSE plan[Latest].body - units
Pending(c) == Len(c.out) + 1 = Latest
InHand(c) == c.deferred # 0 \/ job # 0

\* Types.
Tokens == [kind : {"head", "unit"}, of : Nat]
Asked == [body : Nat, declared : BOOLEAN, keep : BOOLEAN, expect : BOOLEAN, route : Routes]
ConnRecord ==
    [ctx : Nat, parsing : Nat, need : Nat, buf : Seq(Tokens), eom : BOOLEAN,
     complete : BOOLEAN, large : BOOLEAN, bad : BOOLEAN, deferred : Nat,
     started : BOOLEAN, closeAfter : BOOLEAN, continued : BOOLEAN, idle : BOOLEAN,
     tracked : BOOLEAN, open : BOOLEAN, out : Seq([to : Nat, code : Nat])]

\* The head of the latest request is still to be parsed: before it come units of
\* the request before, after it those of its own that have been sent.
Coming(s) ==
    \E p \in DOMAIN s :
        /\ s[p] = Head_(Latest)
        /\ \A k \in 1 .. p - 1 : s[k].kind = "unit"
        /\ \A k \in p + 1 .. Len(s) : s[k] = Unit(Latest)
        /\ Len(s) = p + units

\* One answer a request, in order, and at most one is due.
OutInv(c) ==
    /\ Pending(c) \/ Len(c.out) = Latest
    /\ \A k \in DOMAIN c.out : c.out[k].to = k

\* A handler has the latest request or none, and the selector has the connection
\* whenever no worker has.
HandInv(c) ==
    /\ c.deferred \in {0, Latest} /\ job \in {0, Latest}
    /\ c.deferred = 0 \/ job = 0
    /\ InHand(c) => Pending(c)
    /\ c.tracked = (job = 0)

\* The parser is in step with the client: once the latest request is answered or
\* in hand, what it still needs is what the socket holds and the client owes.
StreamInv(c, s) ==
    /\ Coming(s) => Pending(c) /\ ~InHand(c) /\ ~c.large
    /\ ~Coming(s) => \A k \in DOMAIN s : s[k] = Unit(Latest)
    /\ ~Pending(c) \/ InHand(c) => ~c.bad /\ c.need = Len(s) + Owed
    /\ c.large => Pending(c)

\* A message ends early only where the connection is to be closed, and a message
\* that was begun has been answered or is in hand, unless it is refused.
StageInv(c) ==
    /\ c.complete => c.need = 0 \/ c.closeAfter \/ c.large
    /\ c.need > 0 \/ ~c.idle => c.started \/ InHand(c) \/ c.large \/ c.bad

\* The bytes a handler has or will get are its own request's, and no more.
HeldInv(c, b) ==
    InHand(c) =>
        /\ \A k \in DOMAIN b : b[k] = Unit(Latest)
        /\ \A k \in DOMAIN c.buf : c.buf[k] = Unit(Latest)
        /\ Len(b) + Len(c.buf) + c.need <= plan[Latest].body

\* A connection c with the tokens s before it and b received, in the middle of a
\* feed; BrokenInv is what a handler that broke its response off leaves.
OpenInv(c, s, b) == HandInv(c) /\ StreamInv(c, s) /\ StageInv(c) /\ HeldInv(c, b)

BrokenInv(c) == job = 0 /\ c.deferred = 0 /\ ~Pending(c) /\ c.started /\ ~c.tracked

TokenInv(c, s, b) ==
    /\ c \in ConnRecord /\ OutInv(c)
    /\ c.open => OpenInv(c, s, b)
    /\ ~c.open => BrokenInv(c) /\ ~Coming(s) /\ \A k \in DOMAIN s : s[k] = Unit(Latest)

\* The invariant between steps.
ToolsTypes ==
    /\ plan \in Seq(Asked) /\ units \in Nat /\ socket \in Seq(Tokens)
    /\ conn \in ConnRecord /\ job \in Nat /\ body \in Seq(Tokens)
    /\ plan = <<>> => units = 0
    /\ plan # <<>> => units <= plan[Latest].body

Received == IF job = 0 THEN <<>> ELSE body

ToolsInv ==
    /\ ToolsTypes
    /\ OutInv(conn)
    /\ ~conn.open => job = 0 /\ ~conn.tracked
    /\ conn.open => /\ OpenInv(conn, socket, Received)
                    /\ ~conn.bad /\ ~conn.large /\ conn.deferred = 0

\* What does not change during a feed.
ClientTypes == plan \in Seq(Asked) /\ units \in Nat /\ Cap \in Nat /\ job \in Nat

-----------------------------------------------------------------------------
\* What comes after the first token.
LEMMA TailOfTokens ==
  ASSUME NEW s \in Seq(Tokens), s # <<>>
  PROVE  /\ s[1] \in Tokens /\ Len(s) \in Nat \ {0}
         /\ Tail(s) \in Seq(Tokens) /\ Len(Tail(s)) = Len(s) - 1
         /\ \A k \in 1 .. Len(s) - 1 : Tail(s)[k] = s[k + 1]
         /\ DOMAIN s = 1 .. Len(s) /\ DOMAIN Tail(s) = 1 .. Len(s) - 1
<1>1. QED
  OBVIOUS

\* The next token is a head only if it is the latest request's.
LEMMA ComingMoves ==
  ASSUME NEW s \in Seq(Tokens), s # <<>>, units \in Nat, Latest \in Nat,
         ~Coming(s) => \A k \in DOMAIN s : s[k] = Unit(Latest)
  PROVE  /\ s[1].kind = "head" => Coming(s) /\ s[1].of = Latest /\ ~Coming(Tail(s))
                                  /\ Len(s) = units + 1
         /\ s[1].kind = "unit" => (Coming(Tail(s)) <=> Coming(s))
         /\ ~Coming(Tail(s)) => \A k \in DOMAIN Tail(s) : Tail(s)[k] = Unit(Latest)
         /\ ~Coming(s) => s[1] = Unit(Latest)
<1> DEFINE t == Tail(s)
<1>0. /\ s[1] \in Tokens /\ Len(s) \in Nat \ {0} /\ t \in Seq(Tokens) /\ Len(t) = Len(s) - 1
      /\ \A k \in 1 .. Len(s) - 1 : t[k] = s[k + 1]
      /\ DOMAIN s = 1 .. Len(s) /\ DOMAIN t = 1 .. Len(s) - 1
  BY TailOfTokens
<1> HIDE DEF t
<1>1. ~Coming(s) => s[1] = Unit(Latest)
  BY <1>0
<1>2. ASSUME s[1].kind = "head"
      PROVE  /\ Coming(s) /\ s[1].of = Latest /\ ~Coming(t) /\ Len(s) = units + 1
             /\ \A k \in DOMAIN t : t[k] = Unit(Latest)
  <2>1. Coming(s)
    BY <1>1, <1>2 DEF Unit
  <2>2. PICK p \in DOMAIN s : /\ s[p] = Head_(Latest)
                              /\ \A k \in 1 .. p - 1 : s[k].kind = "unit"
                              /\ \A k \in p + 1 .. Len(s) : s[k] = Unit(Latest)
                              /\ Len(s) = p + units
    BY <2>1 DEF Coming
  <2>3. p = 1
    BY <1>0, <1>2, <2>2
  <2>4. \A k \in DOMAIN t : t[k] = Unit(Latest)
    BY <1>0, <2>2, <2>3
  <2>5. ~Coming(t)
    BY <2>4 DEF Coming, Unit, Head_
  <2>6. QED
    BY <2>1, <2>2, <2>3, <2>4, <2>5 DEF Head_
<1>3. ASSUME s[1].kind = "unit", Coming(s) PROVE Coming(t)
  <2>1. PICK p \in DOMAIN s : /\ s[p] = Head_(Latest)
                              /\ \A k \in 1 .. p - 1 : s[k].kind = "unit"
                              /\ \A k \in p + 1 .. Len(s) : s[k] = Unit(Latest)
                              /\ Len(s) = p + units
    BY <1>3 DEF Coming
  <2>2. p > 1
    BY <1>0, <1>3, <2>1 DEF Head_
  <2>3. /\ p - 1 \in DOMAIN t /\ t[p - 1] = Head_(Latest)
        /\ \A k \in 1 .. p - 1 - 1 : t[k].kind = "unit"
        /\ \A k \in p - 1 + 1 .. Len(t) : t[k] = Unit(Latest)
        /\ Len(t) = p - 1 + units
    <3>1. p - 1 \in DOMAIN t /\ t[p - 1] = Head_(Latest) /\ Len(t) = p - 1 + units
      BY <1>0, <2>1, <2>2
    <3>2. ASSUME NEW k \in 1 .. p - 1 - 1 PROVE t[k].kind = "unit"
      <4>1. t[k] = s[k + 1] /\ k + 1 \in 1 .. p - 1
        BY <1>0, <2>1, <2>2
      <4>2. QED
        BY <4>1, <2>1
    <3>3. ASSUME NEW k \in p - 1 + 1 .. Len(t) PROVE t[k] = Unit(Latest)
      <4>1. t[k] = s[k + 1] /\ k + 1 \in p + 1 .. Len(s)
        BY <1>0, <2>1, <2>2
      <4>2. QED
        BY <4>1, <2>1
    <3>4. QED
      BY <3>1, <3>2, <3>3
  <2>4. QED
    BY <2>3 DEF Coming
<1>4. ASSUME ~Coming(s)
      PROVE ~Coming(t) /\ \A k \in DOMAIN t : t[k] = Unit(Latest)
  <2>1. \A k \in DOMAIN t : t[k] = Unit(Latest)
    BY <1>0, <1>4
  <2>2. QED
    BY <2>1 DEF Coming, Unit, Head_
<1>5. s[1].kind \in {"head", "unit"}
  BY <1>0 DEF Tokens
<1>6. /\ s[1].kind = "head" => Coming(s) /\ s[1].of = Latest /\ ~Coming(t)
                               /\ Len(s) = units + 1
      /\ s[1].kind = "unit" => (Coming(t) <=> Coming(s))
  BY <1>2, <1>3, <1>4, Zenon
<1>7. ~Coming(t) => \A k \in DOMAIN t : t[k] = Unit(Latest)
  BY <1>2, <1>3, <1>4, <1>5
<1>8. QED
  BY <1>1, <1>6, <1>7 DEF t

-----------------------------------------------------------------------------
\* The callbacks, as changes of the record.
LEMMA AnsweredRecord ==
  ASSUME NEW c \in ConnRecord, NEW i \in Nat, plan[i] \in Asked, NEW code \in Nat
  PROVE  /\ Answered(c, i, code) \in ConnRecord
         /\ Answered(c, i, code).out = Append(c.out, [to |-> i, code |-> code])
         /\ Answered(c, i, code).started
         /\ Answered(c, i, code).need = c.need
         /\ Answered(c, i, code).deferred = c.deferred
         /\ Answered(c, i, code).large = c.large
         /\ Answered(c, i, code).bad = c.bad
         /\ Answered(c, i, code).open = c.open
         /\ Answered(c, i, code).tracked = c.tracked
         /\ Answered(c, i, code).idle = c.idle
         /\ Answered(c, i, code).complete = c.complete
         /\ c.closeAfter => Answered(c, i, code).closeAfter
<1>1. Append(c.out, [to |-> i, code |-> code]) \in Seq([to : Nat, code : Nat])
  BY DEF ConnRecord
<1>2. (c.closeAfter \/ ~plan[i].keep \/ code # 200) \in BOOLEAN
  BY DEF ConnRecord
<1>3. QED
  BY <1>1, <1>2 DEF Answered, ConnRecord

\* What the head of request i makes of the connection.
Begins(c, d, i) ==
    /\ d \in ConnRecord /\ d.need = plan[i].body
    /\ \A f \in {"bad", "idle"} : d[f] = c[f]
    /\ d.complete => d.need = 0 \/ d.closeAfter \/ d.large
    /\ \/ /\ d.large /\ d.out = c.out
          /\ \A f \in {"deferred", "started", "open", "tracked"} : d[f] = c[f]
       \/ /\ d.out = c.out /\ d.deferred = i /\ d.buf = <<>>
          /\ \A f \in {"large", "started", "open", "tracked"} : d[f] = c[f]
       \/ /\ \E code \in Nat : d.out = Append(c.out, [to |-> i, code |-> code])
          /\ d.started /\ d.large = c.large /\ d.deferred = c.deferred
          /\ (d.open = c.open /\ d.tracked = c.tracked) \/ (~d.open /\ ~d.tracked)

\* on_headers_complete with the handler inside does that.
LEMMA HeadBegins ==
  ASSUME NEW c \in ConnRecord, NEW i \in Nat, plan[i] \in Asked, Cap \in Nat
  PROVE  Begins(c, OnHead(c, i), i)
<1> DEFINE begun == [c EXCEPT !.parsing = i, !.need = plan[i].body]
           fresh == [begun EXCEPT !.ctx = i, !.buf = <<>>, !.eom = FALSE,
                                  !.complete = FALSE, !.continued = FALSE]
           h == Handle(fresh, i)
           e == ExpectEdge(h, i)
           tooLarge == plan[i].declared /\ plan[i].body > Cap
           done == IF tooLarge THEN [begun EXCEPT !.large = TRUE] ELSE e
<1>1. plan[i].body \in Nat /\ plan[i].route \in Routes
  BY DEF Asked
<1>2. /\ begun \in ConnRecord /\ begun.need = plan[i].body
      /\ \A f \in {"bad", "idle", "out", "deferred", "started", "open", "tracked", "large"} :
            begun[f] = c[f]
  BY <1>1 DEF ConnRecord
<1>3. <<>> \in Seq(Tokens)
  OBVIOUS
<1>4. /\ fresh \in ConnRecord /\ fresh.need = plan[i].body /\ fresh.buf = <<>> /\ ~fresh.complete
      /\ \A f \in {"bad", "idle", "out", "deferred", "started", "open", "tracked", "large"} :
            fresh[f] = c[f]
  BY <1>1, <1>3 DEF ConnRecord
<1> HIDE DEF fresh
<1>5. /\ h \in ConnRecord /\ h.need = plan[i].body /\ ~h.complete
      /\ \A f \in {"bad", "idle"} : h[f] = c[f]
      /\ \/ /\ h.out = c.out /\ h.deferred = i /\ h.buf = <<>>
            /\ \A f \in {"large", "started", "open", "tracked"} : h[f] = c[f]
         \/ /\ \E code \in Nat : h.out = Append(c.out, [to |-> i, code |-> code])
            /\ h.started /\ h.large = c.large /\ h.deferred = c.deferred
            /\ (h.open = c.open /\ h.tracked = c.tracked) \/ (~h.open /\ ~h.tracked)
  <2>1. CASE plan[i].route = "inline"
    <3>1. h = Answered(fresh, i, 200)
      BY <2>1 DEF Handle
    <3>2. /\ h \in ConnRecord /\ h.out = Append(c.out, [to |-> i, code |-> 200])
          /\ h.started /\ h.need = fresh.need /\ h.complete = fresh.complete
          /\ h.bad = fresh.bad /\ h.idle = fresh.idle /\ h.large = fresh.large
          /\ h.deferred = fresh.deferred /\ h.open = fresh.open /\ h.tracked = fresh.tracked
      BY <3>1, <1>4, AnsweredRecord
    <3>3. \E code \in Nat : h.out = Append(c.out, [to |-> i, code |-> code])
      BY <3>2
    <3>4. QED
      BY <3>2, <3>3, <1>4
  <2>2. CASE plan[i].route = "raises"
    <3>1. h = Answered(fresh, i, 500)
      BY <2>2 DEF Handle
    <3>2. /\ h \in ConnRecord /\ h.out = Append(c.out, [to |-> i, code |-> 500])
          /\ h.started /\ h.need = fresh.need /\ h.complete = fresh.complete
          /\ h.bad = fresh.bad /\ h.idle = fresh.idle /\ h.large = fresh.large
          /\ h.deferred = fresh.deferred /\ h.open = fresh.open /\ h.tracked = fresh.tracked
      BY <3>1, <1>4, AnsweredRecord
    <3>3. \E code \in Nat : h.out = Append(c.out, [to |-> i, code |-> code])
      BY <3>2
    <3>4. QED
      BY <3>2, <3>3, <1>4
  <2>3. CASE plan[i].route = "breaks"
    <3>1. h = Closed(Answered(fresh, i, 200))
      BY <2>3 DEF Handle
    <3> DEFINE a == Answered(fresh, i, 200)
    <3>2. /\ a \in ConnRecord /\ a.out = Append(c.out, [to |-> i, code |-> 200])
          /\ a.started /\ a.need = plan[i].body /\ ~a.complete
          /\ \A f \in {"bad", "idle", "large", "deferred"} : a[f] = c[f]
      BY <1>4, AnsweredRecord, SMTT(30)
    <3> HIDE DEF a
    <3>3. /\ Closed(a) \in ConnRecord /\ ~Closed(a).open /\ ~Closed(a).tracked
          /\ \A f \in {"bad", "idle", "large", "deferred", "out", "started", "need", "complete"} :
                Closed(a)[f] = a[f]
      BY <3>2 DEF Closed, ConnRecord
    <3>4. QED
      BY <3>1, <3>2, <3>3 DEF a
  <2>4. CASE plan[i].route = "pool"
    <3>1. h = [fresh EXCEPT !.deferred = i]
      BY <2>4 DEF Handle
    <3>2. /\ h \in ConnRecord /\ h.out = fresh.out /\ h.deferred = i /\ h.buf = fresh.buf
          /\ h.started = fresh.started /\ h.need = fresh.need /\ h.complete = fresh.complete
          /\ h.bad = fresh.bad /\ h.idle = fresh.idle /\ h.large = fresh.large
          /\ h.open = fresh.open /\ h.tracked = fresh.tracked
      BY <3>1, <1>4 DEF ConnRecord
    <3>3. QED
      BY <3>2, <1>4
  <2>5. QED
    BY <1>1, <2>1, <2>2, <2>3, <2>4 DEF Routes
<1> HIDE DEF h
<1>6. /\ e \in ConnRecord /\ e.need = plan[i].body
      /\ e.complete => e.closeAfter
      /\ \A f \in {"bad", "idle", "out", "deferred", "buf", "large", "started", "open", "tracked"} :
            e[f] = h[f]
  BY <1>5, ZenonT(60) DEF ExpectEdge, ConnRecord
<1> HIDE DEF e
<1>7. /\ done \in ConnRecord /\ Begins(c, done, i)
      /\ tooLarge => plan[i].body # 0
  <2>1. CASE tooLarge
    <3>1. done = [begun EXCEPT !.large = TRUE]
      BY <2>1
    <3>2. /\ done \in ConnRecord /\ done.large /\ done.out = begun.out
          /\ done.deferred = begun.deferred /\ done.started = begun.started
          /\ done.need = begun.need /\ done.bad = begun.bad /\ done.idle = begun.idle
          /\ done.open = begun.open /\ done.tracked = begun.tracked
      BY <3>1, <1>2, ZenonT(60) DEF ConnRecord
    <3> HIDE DEF done
    <3>3. Begins(c, done, i)
      BY <3>2, <1>2 DEF Begins
    <3>4. plan[i].body # 0
      BY <2>1, <1>1
    <3>5. QED
      BY <3>2, <3>3, <3>4
  <2>2. CASE ~tooLarge
    <3>1. done = e
      BY <2>2
    <3>2. QED
      BY <2>2, <3>1, <1>5, <1>6, ZenonT(60) DEF Begins
  <2>3. QED
    BY <2>1, <2>2
<1>8. OnHead(c, i) = IF plan[i].body = 0 THEN OnMessageComplete(done) ELSE done
  BY DEF OnHead, e, h, fresh
<1> HIDE DEF done, begun
<1>9. CASE plan[i].body = 0
  <2>1. OnHead(c, i) = [done EXCEPT !.eom = TRUE, !.complete = TRUE]
    BY <1>8, <1>9 DEF OnMessageComplete
  <2>2. /\ OnHead(c, i) \in ConnRecord
        /\ \A f \in {"bad", "idle", "out", "deferred", "buf", "large", "started", "open", "tracked", "need"} :
            OnHead(c, i)[f] = done[f]
    BY <2>1, <1>7 DEF ConnRecord
  <2>3. QED
    BY <2>2, <1>7, <1>9 DEF Begins
<1>10. CASE plan[i].body # 0
  BY <1>7, <1>8, <1>10
<1>11. QED
  BY <1>9, <1>10

\* What a token of a body makes of it.
Bodied(c, d, token) ==
    /\ d \in ConnRecord /\ d.need = c.need - 1 /\ d.out = c.out
    /\ d.deferred = c.deferred /\ d.started = c.started /\ d.bad = c.bad
    /\ d.open = c.open /\ d.tracked = c.tracked /\ d.idle = c.idle
    /\ d.closeAfter = c.closeAfter
    /\ d.complete => c.complete \/ d.need = 0
    /\ c.large => d.large
    /\ d.large => c.large \/ ~(c.started /\ c.tracked)
    /\ d.buf = c.buf \/ d.buf = Append(c.buf, token)

\* on_body does that.
LEMMA BodyIsBodied ==
  ASSUME NEW c \in ConnRecord, c.need > 0, NEW token \in Tokens
  PROVE  Bodied(c, OnBody(c, token), token)
<1> DEFINE rest == [c EXCEPT !.need = @ - 1]
           kept == IF c.large \/ (c.started /\ c.tracked) THEN rest
                   ELSE IF Len(c.buf) = Cap THEN [rest EXCEPT !.large = TRUE]
                   ELSE [rest EXCEPT !.buf = Append(@, token)]
<1>0. c.need - 1 \in Nat /\ c.buf \in Seq(Tokens) /\ Append(c.buf, token) \in Seq(Tokens)
  BY DEF ConnRecord
<1>1. /\ rest \in ConnRecord /\ rest.need = c.need - 1 /\ rest.out = c.out
      /\ rest.deferred = c.deferred /\ rest.started = c.started /\ rest.bad = c.bad
      /\ rest.open = c.open /\ rest.tracked = c.tracked /\ rest.idle = c.idle
      /\ rest.closeAfter = c.closeAfter /\ rest.complete = c.complete
      /\ rest.large = c.large /\ rest.buf = c.buf
  BY <1>0 DEF ConnRecord
<1> HIDE DEF rest
<1>2. /\ kept \in ConnRecord /\ kept.need = c.need - 1 /\ kept.out = c.out
      /\ kept.deferred = c.deferred /\ kept.started = c.started /\ kept.bad = c.bad
      /\ kept.open = c.open /\ kept.tracked = c.tracked /\ kept.idle = c.idle
      /\ kept.closeAfter = c.closeAfter /\ kept.complete = c.complete
      /\ c.large => kept.large
      /\ kept.large => c.large \/ ~(c.started /\ c.tracked)
      /\ kept.buf = c.buf \/ kept.buf = Append(c.buf, token)
  <2>1. CASE c.large \/ (c.started /\ c.tracked)
    BY <2>1, <1>1
  <2>2. CASE ~(c.large \/ (c.started /\ c.tracked)) /\ Len(c.buf) = Cap
    <3>1. kept = [rest EXCEPT !.large = TRUE]
      BY <2>2
    <3> HIDE DEF kept
    <3>2. QED
      BY <3>1, <1>1, <2>2 DEF ConnRecord
  <2>3. CASE ~(c.large \/ (c.started /\ c.tracked)) /\ Len(c.buf) # Cap
    <3>1. kept = [rest EXCEPT !.buf = Append(rest.buf, token)]
      BY <2>3
    <3> HIDE DEF kept
    <3>2. QED
      BY <3>1, <1>0, <1>1, <2>3 DEF ConnRecord
  <2>4. QED
    BY <2>1, <2>2, <2>3
<1>3. OnBody(c, token) = IF rest.need = 0 THEN OnMessageComplete(kept) ELSE kept
  BY DEF OnBody, rest
<1> HIDE DEF kept
<1>4. CASE rest.need = 0
  <2>1. OnBody(c, token) = [kept EXCEPT !.eom = TRUE, !.complete = TRUE]
    BY <1>3, <1>4 DEF OnMessageComplete
  <2> DEFINE d == OnBody(c, token)
  <2>2. /\ d \in ConnRecord /\ d.need = kept.need /\ d.out = kept.out
        /\ d.deferred = kept.deferred /\ d.started = kept.started /\ d.bad = kept.bad
        /\ d.open = kept.open /\ d.tracked = kept.tracked /\ d.idle = kept.idle
        /\ d.closeAfter = kept.closeAfter /\ d.large = kept.large /\ d.buf = kept.buf
    BY <2>1, <1>2 DEF ConnRecord
  <2> HIDE DEF d
  <2>3. QED
    BY <2>2, <1>1, <1>2, <1>4 DEF Bodied, d
<1>5. CASE rest.need # 0
  BY <1>2, <1>3, <1>5 DEF Bodied
<1>6. QED
  BY <1>4, <1>5

-----------------------------------------------------------------------------
\* A head comes: the connection has nothing in hand.
LEMMA HeadKeeps ==
  ASSUME ClientTypes, plan # <<>> => units <= plan[Latest].body,
         NEW c, NEW b \in Seq(Tokens), NEW s \in Seq(Tokens), s # <<>>,
         TokenInv(c, s, b), job = 0 => b = <<>>,
         ~c.bad, c.need = 0, s[1].kind = "head"
  PROVE  TokenInv(OnHead(c, s[1].of), Tail(s), b)
<1> DEFINE d == OnHead(c, Latest)
           t == Tail(s)
<1>0. c \in ConnRecord /\ Latest \in Nat /\ units \in Nat /\ t \in Seq(Tokens) /\ Len(t) = Len(s) - 1
  BY TailOfTokens DEF TokenInv, ClientTypes, Latest
<1>1. c.open /\ Coming(s)
  BY ComingMoves, <1>0 DEF TokenInv, OpenInv, StreamInv, Unit
<1>2. OpenInv(c, s, b) /\ OutInv(c)
  BY <1>1 DEF TokenInv
<1>3. /\ s[1].of = Latest /\ ~Coming(t) /\ Len(s) = units + 1
      /\ \A k \in DOMAIN t : t[k] = Unit(Latest)
  BY <1>0, <1>1, <1>2, ComingMoves DEF OpenInv, StreamInv
<1>4. Pending(c) /\ c.deferred = 0 /\ job = 0 /\ ~c.large /\ c.tracked /\ b = <<>>
  BY <1>1, <1>2 DEF OpenInv, StreamInv, InHand, HandInv
<1>5. Latest \in DOMAIN plan /\ plan[Latest] \in Asked /\ plan # <<>> /\ Latest # 0
  <2>1. plan \in Seq(Asked) /\ Len(c.out) \in Nat
    BY <1>0 DEF ClientTypes, ConnRecord
  <2>2. Latest \in Nat \ {0} /\ Latest = Len(plan)
    BY <2>1, <1>0, <1>4 DEF Pending, Latest
  <2>3. QED
    BY <2>1, <2>2
<1>6. Begins(c, d, Latest)
  BY <1>0, <1>5, HeadBegins DEF ClientTypes
<1> HIDE DEF d, t
<1>7. d.need = Len(t) + Owed /\ plan[Latest].body \in Nat
  BY <1>0, <1>3, <1>5, <1>6 DEF Owed, Begins, Asked
<1>8. d \in ConnRecord
  BY <1>6 DEF Begins
<1>9. CASE d.large /\ d.out = c.out /\ d.deferred = c.deferred /\ d.open = c.open /\ d.tracked = c.tracked
  <2>1. OutInv(d) /\ Pending(d) /\ ~InHand(d)
    BY <1>2, <1>4, <1>9 DEF OutInv, Pending, InHand
  <2>2. HandInv(d) /\ HeldInv(d, b)
    BY <2>1, <1>9, <1>4 DEF HandInv, HeldInv, InHand
  <2>3. StreamInv(d, t) /\ StageInv(d)
    BY <2>1, <1>3, <1>9 DEF StreamInv, StageInv
  <2>4. QED
    BY <2>1, <2>2, <2>3, <1>1, <1>3, <1>8, <1>9 DEF TokenInv, OpenInv, d, t
<1>10. CASE /\ d.out = c.out /\ d.deferred = Latest /\ d.buf = <<>> /\ d.large = c.large
            /\ d.open = c.open /\ d.tracked = c.tracked
  <2>1. OutInv(d) /\ Pending(d) /\ InHand(d)
    BY <1>2, <1>4, <1>5, <1>10 DEF OutInv, Pending, InHand
  <2>2. HandInv(d)
    BY <2>1, <1>10, <1>4 DEF HandInv, InHand
  <2>3. HeldInv(d, b)
    BY <1>4, <1>6, <1>7, <1>10 DEF HeldInv, Begins
  <2>4. StreamInv(d, t)
    BY <2>1, <1>3, <1>4, <1>6, <1>7, <1>10 DEF StreamInv, Begins
  <2>5. StageInv(d)
    BY <2>1, <1>6 DEF StageInv, Begins
  <2>6. QED
    BY <2>1, <2>2, <2>3, <2>4, <2>5, <1>1, <1>3, <1>8, <1>10 DEF TokenInv, OpenInv, d, t
<1>11. CASE /\ \E code \in Nat : d.out = Append(c.out, [to |-> Latest, code |-> code])
            /\ d.started /\ d.large = c.large /\ d.deferred = c.deferred
            /\ (d.open = c.open /\ d.tracked = c.tracked) \/ (~d.open /\ ~d.tracked)
  <2>1. PICK code \in Nat : d.out = Append(c.out, [to |-> Latest, code |-> code])
    BY <1>11
  <2>2. Len(d.out) = Latest /\ ~Pending(d) /\ OutInv(d)
    <3>1. c.out \in Seq([to : Nat, code : Nat]) /\ [to |-> Latest, code |-> code] \in [to : Nat, code : Nat]
      BY <1>0 DEF ConnRecord
    <3>2. /\ Len(d.out) = Len(c.out) + 1 /\ DOMAIN d.out = 1 .. Len(c.out) + 1
          /\ \A k \in 1 .. Len(c.out) : d.out[k] = c.out[k]
          /\ d.out[Len(c.out) + 1] = [to |-> Latest, code |-> code]
          /\ DOMAIN c.out = 1 .. Len(c.out) /\ Len(c.out) \in Nat
      BY <2>1, <3>1
    <3>3. Len(d.out) = Latest /\ Len(c.out) + 1 = Latest /\ d.out[Latest].to = Latest
      BY <3>2, <1>4 DEF Pending
    <3>4. \A k \in DOMAIN d.out : d.out[k].to = k
      <4>1. \A k \in 1 .. Len(c.out) : d.out[k].to = k
        BY <1>2, <3>2 DEF OutInv
      <4>2. QED
        BY <4>1, <3>2, <3>3
    <3>5. QED
      BY <3>2, <3>3, <3>4, <1>0 DEF OutInv, Pending
  <2>3. ~InHand(d) /\ d.deferred = 0
    BY <1>4, <1>11 DEF InHand
  <2>4. d.open => HandInv(d)
    BY <2>3, <1>0, <1>1, <1>4, <1>8, <1>11 DEF HandInv, InHand, ConnRecord
  <2>5. HeldInv(d, b)
    BY <2>3 DEF HeldInv
  <2>6. StreamInv(d, t)
    BY <2>2, <2>3, <1>3, <1>4, <1>6, <1>7, <1>11 DEF StreamInv, Begins
  <2>7. StageInv(d)
    BY <1>6, <1>11 DEF StageInv, Begins
  <2>8. ~d.open => BrokenInv(d)
    BY <2>2, <2>3, <1>1, <1>4, <1>8, <1>11 DEF BrokenInv, ConnRecord
  <2>9. QED
    BY <2>2, <2>4, <2>5, <2>6, <2>7, <2>8, <1>3, <1>8 DEF TokenInv, OpenInv, d, t
<1>12. QED
  BY <1>6, <1>9, <1>10, <1>11 DEF Begins

LEMMA OwedIsNat ==
  ASSUME ClientTypes, plan # <<>> => units <= plan[Latest].body
  PROVE  /\ Owed \in Nat /\ Latest \in Nat
         /\ plan # <<>> => Latest \in DOMAIN plan /\ plan[Latest] \in Asked
                           /\ plan[Latest].body \in Nat
<1>1. CASE plan = <<>>
  BY <1>1 DEF Owed, ClientTypes, Latest
<1>2. CASE plan # <<>>
  <2>1. plan[Latest] \in Asked /\ units \in Nat /\ Latest \in DOMAIN plan /\ Latest \in Nat
    BY <1>2 DEF ClientTypes, Latest
  <2>2. plan[Latest].body \in Nat
    BY <2>1 DEF Asked
  <2>3. QED
    BY <2>1, <2>2, <1>2 DEF Owed
<1>3. QED
  BY <1>1, <1>2

\* A token of a body comes, or a head that is taken for one.
LEMMA BodyKeeps ==
  ASSUME ClientTypes, plan # <<>> => units <= plan[Latest].body,
         NEW c, NEW b \in Seq(Tokens), NEW s \in Seq(Tokens), s # <<>>,
         TokenInv(c, s, b), ~c.bad, c.need > 0
  PROVE  TokenInv(OnBody(c, s[1]), Tail(s), b)
<1> DEFINE d == OnBody(c, s[1])
           t == Tail(s)
<1>0. /\ c \in ConnRecord /\ Latest \in Nat /\ units \in Nat /\ s[1] \in Tokens
      /\ t \in Seq(Tokens) /\ Len(t) = Len(s) - 1 /\ Len(s) \in Nat
  BY TailOfTokens DEF TokenInv, ClientTypes, Latest
<1>1. Bodied(c, d, s[1])
  BY <1>0, BodyIsBodied DEF ConnRecord
<1>2. ~Coming(s) => \A k \in DOMAIN s : s[k] = Unit(Latest)
  BY DEF TokenInv, OpenInv, StreamInv
<1>3. /\ s[1].kind = "unit" => (Coming(t) <=> Coming(s))
      /\ ~Coming(t) => \A k \in DOMAIN t : t[k] = Unit(Latest)
      /\ ~Coming(s) => s[1] = Unit(Latest)
      /\ ~Coming(s) => ~Coming(t)
  BY <1>0, <1>2, ComingMoves, SMTT(30) DEF Unit
<1> HIDE DEF d, t
<1>4. OutInv(d) /\ (Pending(d) <=> Pending(c)) /\ (InHand(d) <=> InHand(c)) /\ d \in ConnRecord
  BY <1>1 DEF Bodied, OutInv, Pending, InHand, TokenInv
<1>5. CASE ~c.open
  <2>1. BrokenInv(d) /\ ~d.open
    BY <1>1, <1>4, <1>5 DEF Bodied, BrokenInv, TokenInv
  <2>2. QED
    BY <1>3, <1>4, <1>5, <2>1 DEF TokenInv, d, t
<1>6. CASE c.open
  <2>1. HandInv(c) /\ StreamInv(c, s) /\ StageInv(c) /\ HeldInv(c, b)
    BY <1>6 DEF TokenInv, OpenInv
  <2>2. HandInv(d)
    BY <2>1, <1>1, <1>4 DEF HandInv, Bodied, InHand
  <2>3. c.started \/ InHand(c) \/ c.large
    BY <2>1 DEF StageInv
  <2>4. d.large => c.large \/ ~c.started \/ job # 0
    BY <2>1, <1>1 DEF Bodied, HandInv
  <2>5. StreamInv(d, t)
    <3>1. Coming(t) => Pending(d) /\ ~InHand(d) /\ ~d.large
      BY <1>3, <1>4, <2>1, <2>3, <2>4 DEF StreamInv, InHand
    <3>2. d.large => Pending(d)
      BY <1>4, <2>1, <2>3, <2>4 DEF StreamInv, HandInv, InHand
    <3>3. ~Pending(d) \/ InHand(d) => ~d.bad /\ d.need = Len(t) + Owed
      <4>1. ASSUME ~Pending(d) \/ InHand(d)
            PROVE  ~d.bad /\ c.need = Len(s) + Owed /\ d.need = c.need - 1
        BY <4>1, <1>1, <1>4, <2>1 DEF StreamInv, Bodied
      <4>2. Owed \in Nat
        BY OwedIsNat
      <4>3. QED
        BY <4>1, <4>2, <1>0
    <3>4. QED
      BY <3>1, <3>2, <3>3, <1>3 DEF StreamInv
  <2>6. StageInv(d)
    BY <1>1, <1>4, <2>1, <2>3 DEF StageInv, Bodied
  <2>7. HeldInv(d, b)
    <3>1. SUFFICES ASSUME InHand(d)
                   PROVE  /\ \A k \in DOMAIN d.buf : d.buf[k] = Unit(Latest)
                          /\ Len(b) + Len(d.buf) + d.need <= plan[Latest].body
                          /\ \A k \in DOMAIN b : b[k] = Unit(Latest)
      BY DEF HeldInv
    <3>2. /\ \A k \in DOMAIN c.buf : c.buf[k] = Unit(Latest)
          /\ Len(b) + Len(c.buf) + c.need <= plan[Latest].body
          /\ \A k \in DOMAIN b : b[k] = Unit(Latest)
          /\ s[1] = Unit(Latest)
      BY <3>1, <1>3, <1>4, <2>1 DEF HeldInv, StreamInv
    <3>3. c.buf \in Seq(Tokens) /\ c.need \in Nat /\ Len(b) \in Nat /\ d.need = c.need - 1
      BY <1>0, <1>1 DEF ConnRecord, Bodied
    <3>3b. plan[Latest].body \in Nat
      <4>1. Pending(c) /\ Len(c.out) \in Nat
        BY <1>0, <1>4, <2>1, <3>1 DEF HandInv, ConnRecord
      <4>2. plan # <<>>
        BY <4>1 DEF Pending, Latest
      <4>3. QED
        BY <4>2, OwedIsNat
    <3>4. CASE d.buf = c.buf
      BY <3>2, <3>3, <3>3b, <3>4
    <3>5. CASE d.buf = Append(c.buf, s[1])
      <4>1. /\ Len(d.buf) = Len(c.buf) + 1 /\ DOMAIN d.buf = 1 .. Len(c.buf) + 1
            /\ \A k \in 1 .. Len(c.buf) : d.buf[k] = c.buf[k]
            /\ d.buf[Len(c.buf) + 1] = s[1] /\ DOMAIN c.buf = 1 .. Len(c.buf) /\ Len(c.buf) \in Nat
        BY <3>3, <3>5, <1>0
      <4>2. \A k \in DOMAIN d.buf : d.buf[k] = Unit(Latest)
        BY <4>1, <3>2, SMTT(30)
      <4>3. Len(b) + Len(d.buf) + d.need <= plan[Latest].body
        BY <4>1, <3>2, <3>3, <3>3b
      <4>4. QED
        BY <4>2, <4>3, <3>2
    <3>6. QED
      BY <3>4, <3>5, <1>1 DEF Bodied
  <2>8. QED
    <3>1. d.open
      BY <1>1, <1>6 DEF Bodied
    <3>2. QED
      BY <3>1, <2>2, <2>5, <2>6, <2>7, <1>4 DEF TokenInv, OpenInv, d, t
<1>7. QED
  BY <1>5, <1>6

\* llhttp takes a token.
LEMMA TokenKeeps ==
  ASSUME ClientTypes, plan # <<>> => units <= plan[Latest].body,
         NEW c, NEW b \in Seq(Tokens), NEW s \in Seq(Tokens), s # <<>>,
         TokenInv(c, s, b), job = 0 => b = <<>>
  PROVE  TokenInv(OnToken(c, s[1]), Tail(s), b)
<1> DEFINE d == OnToken(c, s[1])
           t == Tail(s)
<1>0. /\ c \in ConnRecord /\ Latest \in Nat /\ units \in Nat /\ s[1] \in Tokens
      /\ t \in Seq(Tokens) /\ Len(t) = Len(s) - 1 /\ Len(s) \in Nat
  BY TailOfTokens DEF TokenInv, ClientTypes, Latest
<1>1. CASE ~c.bad /\ c.need > 0
  BY <1>1, BodyKeeps DEF OnToken
<1>2. CASE ~c.bad /\ ~(c.need > 0) /\ s[1].kind = "head"
  <2>1. c.need = 0
    BY <1>0, <1>2 DEF ConnRecord
  <2>2. QED
    BY <1>2, <2>1, HeadKeeps DEF OnToken
<1>3. ~Coming(s) => \A k \in DOMAIN s : s[k] = Unit(Latest)
  BY DEF TokenInv, OpenInv, StreamInv
<1>4. /\ s[1].kind = "unit" => (Coming(t) <=> Coming(s))
      /\ ~Coming(t) => \A k \in DOMAIN t : t[k] = Unit(Latest)
      /\ ~Coming(s) => s[1] = Unit(Latest) /\ ~Coming(t)
  BY <1>0, <1>3, ComingMoves, SMTT(30) DEF Unit
<1>5. CASE c.bad \/ (~(c.need > 0) /\ s[1].kind # "head")
  <2>1. /\ d \in ConnRecord /\ d.bad /\ d.need = c.need /\ d.out = c.out
        /\ d.deferred = c.deferred /\ d.started = c.started
        /\ d.open = c.open /\ d.tracked = c.tracked /\ d.idle = c.idle
        /\ d.closeAfter = c.closeAfter /\ d.complete = c.complete
        /\ d.large = c.large /\ d.buf = c.buf
    <3>1. (d = c /\ c.bad) \/ d = [c EXCEPT !.bad = TRUE]
      BY <1>5 DEF OnToken
    <3>2. QED
      BY <3>1, <1>0 DEF ConnRecord
  <2> HIDE DEF d, t
  <2>2. OutInv(d) /\ (Pending(d) <=> Pending(c)) /\ (InHand(d) <=> InHand(c))
    BY <2>1 DEF OutInv, Pending, InHand, TokenInv
  <2>3. CASE ~c.open
    <3>1. BrokenInv(d)
      BY <2>1, <2>2, <2>3 DEF BrokenInv, TokenInv
    <3>2. QED
      BY <2>1, <2>2, <2>3, <3>1, <1>4 DEF TokenInv, d, t
  <2>4. CASE c.open
    <3>1. HandInv(c) /\ StreamInv(c, s) /\ StageInv(c) /\ HeldInv(c, b)
      BY <2>4 DEF TokenInv, OpenInv
    <3>2. Pending(c) /\ ~InHand(c)
      <4>1. SUFFICES ASSUME ~Pending(c) \/ InHand(c) PROVE FALSE
        OBVIOUS
      <4>2. ~c.bad /\ c.need = Len(s) + Owed /\ ~Coming(s)
        BY <3>1, <4>1 DEF StreamInv
      <4>3. Len(s) > 0 /\ c.need \in Nat
        BY <1>0, TailOfTokens DEF ConnRecord
      <4>4. Owed \in Nat
        BY OwedIsNat
      <4>5. QED
        BY <4>2, <4>3, <4>4, <1>0, <1>5
    <3>3. HandInv(d) /\ StageInv(d) /\ HeldInv(d, b)
      BY <2>1, <2>2, <3>1, <3>2 DEF HandInv, StageInv, HeldInv, InHand
    <3>4. c.bad \/ s[1].kind = "unit"
      BY <1>0, <1>5 DEF Tokens
    <3>5. Coming(t) => ~d.large
      BY <1>4, <2>1, <3>1 DEF StreamInv
    <3>6. StreamInv(d, t)
      BY <2>2, <3>2, <3>5, <1>4 DEF StreamInv
    <3>7. QED
      BY <2>1, <2>2, <2>4, <3>3, <3>6 DEF TokenInv, OpenInv, d, t
  <2>5. QED
    BY <2>3, <2>4
<1>6. QED
  BY <1>1, <1>2, <1>5

\* Induction over the tokens of a feed.
LEMMA LeastOfNats ==
  ASSUME NEW T \in SUBSET Nat, T # {}
  PROVE  \E n \in T : \A m \in T : n <= m
<1> DEFINE R == OpToRel(<, Nat)
<1>1. IsWellFoundedOn(R, Nat)
  BY NatLessThanWellFounded
<1>2. R = {ss \in Nat \X Nat : ss[1] < ss[2]}
  BY DEF OpToRel
<1> HIDE DEF R
<1>3. PICK n \in T : \A m \in T : <<m, n>> \notin R
  BY <1>1, WFMin
<1>4. ASSUME NEW m \in T PROVE n <= m
  <2>1. <<m, n>> \in Nat \X Nat /\ <<m, n>>[1] = m /\ <<m, n>>[2] = n
    OBVIOUS
  <2>2. ~(m < n)
    BY <1>2, <1>3, <2>1
  <2>3. QED
    BY <2>2
<1>5. QED
  BY <1>4

LEMMA UpTo ==
  ASSUME NEW n \in Nat, NEW T, 0 \in T, \A i \in 0 .. n - 1 : i \in T => i + 1 \in T
  PROVE  \A i \in 0 .. n : i \in T
<1>1. SUFFICES ASSUME (0 .. n) \ T # {} PROVE FALSE
  OBVIOUS
<1> DEFINE U == (0 .. n) \ T
<1>u. U \in SUBSET Nat /\ U # {}
  BY <1>1
<1> HIDE DEF U
<1>2a. PICK m \in U : \A k \in U : m <= k
  BY <1>u, LeastOfNats
<1>2. m \in (0 .. n) \ T /\ \A k \in (0 .. n) \ T : m <= k
  BY <1>2a DEF U
<1>3. m # 0 /\ m - 1 \in 0 .. n - 1 /\ m - 1 \in 0 .. n /\ ~(m <= m - 1) /\ m - 1 + 1 = m
  BY <1>2
<1>4. m - 1 \in T
  BY <1>2, <1>3
<1>5. QED
  BY <1>2, <1>3, <1>4

\* The recursive function of Parsed, on the first n tokens.
AfterNext(f, i) == IF i = 0 THEN conn ELSE OnToken(f[i - 1], socket[i])

IsAfter(f, n) == f = [i \in 0 .. n |-> AfterNext(f, i)]

LEMMA AfterExists ==
  ASSUME NEW n \in Nat
  PROVE  \E f : IsAfter(f, n)
<1> DEFINE T == {m \in Nat : \E f : IsAfter(f, m)}
<1>1. 0 \in T
  <2>1. IsAfter([i \in 0 .. 0 |-> conn], 0)
    BY DEF IsAfter, AfterNext
  <2>2. QED
    BY <2>1
<1>2. ASSUME NEW m \in 0 .. n - 1, m \in T PROVE m + 1 \in T
  <2>1. PICK f : IsAfter(f, m)
    BY <1>2
  <2>2. PICK g : g = [i \in 0 .. m + 1 |-> IF i = m + 1 THEN AfterNext(f, m + 1) ELSE f[i]]
    OBVIOUS
  <2>3. \A i \in 0 .. m : g[i] = f[i] /\ f[i] = AfterNext(f, i)
    BY <2>1, <2>2 DEF IsAfter
  <2>4. ASSUME NEW i \in 0 .. m + 1 PROVE g[i] = AfterNext(g, i)
    <3>1. CASE i = m + 1
      <4>1. g[i] = AfterNext(f, i) /\ i # 0 /\ i - 1 \in 0 .. m
        BY <2>2, <3>1
      <4>2. g[i - 1] = f[i - 1]
        BY <2>3, <4>1
      <4>3. QED
        BY <4>1, <4>2 DEF AfterNext
    <3>2. CASE i # m + 1
      <4>1. i \in 0 .. m /\ (i # 0 => i - 1 \in 0 .. m)
        BY <3>2
      <4>2. g[i] = AfterNext(f, i) /\ (i # 0 => g[i - 1] = f[i - 1])
        BY <2>3, <4>1
      <4>3. QED
        BY <4>2 DEF AfterNext
    <3>3. QED
      BY <3>1, <3>2
  <2>5. g = [i \in 0 .. m + 1 |-> AfterNext(g, i)]
    BY <2>2, <2>4
  <2>6. m + 1 \in Nat /\ IsAfter(g, m + 1)
    BY <2>5 DEF IsAfter
  <2>7. QED
    BY <2>6
<1> HIDE DEF T
<1>3. \A i \in 0 .. n : i \in T
  BY <1>1, <1>2, UpTo
<1>4. n \in T
  BY <1>3
<1>5. QED
  BY <1>4 DEF T

LEMMA ParsedIsAfter ==
  ASSUME NEW n \in Nat
  PROVE  \E f : IsAfter(f, n) /\ Parsed(n) = f[n]
<1>1. \E f : IsAfter(f, n)
  BY AfterExists
<1>2. \E f : f = [i \in 0 .. n |->
                     IF i = 0 THEN conn ELSE OnToken(f[i - 1], socket[i])]
  BY <1>1 DEF IsAfter, AfterNext
<1>3. QED
  BY <1>2, Zenon DEF Parsed, IsAfter, AfterNext

\* What the parser has in hand once it has taken a token.
Begun(c) == c.started \/ InHand(c) \/ c.large \/ c.bad

LEMMA TokenBegins ==
  ASSUME ClientTypes, plan # <<>> => units <= plan[Latest].body,
         NEW c, NEW b \in Seq(Tokens), NEW s \in Seq(Tokens), s # <<>>,
         TokenInv(c, s, b)
  PROVE  Begun(OnToken(c, s[1]))
<1> DEFINE d == OnToken(c, s[1])
<1>0. c \in ConnRecord /\ s[1] \in Tokens /\ Latest \in Nat /\ units \in Nat
  BY TailOfTokens, OwedIsNat DEF TokenInv, ClientTypes
<1>1. CASE c.bad
  BY <1>1 DEF OnToken, Begun
<1>2. CASE ~c.bad /\ c.need > 0
  <2>1. Bodied(c, d, s[1])
    BY <1>0, <1>2, BodyIsBodied DEF OnToken
  <2>2. Begun(c)
    BY <1>2 DEF TokenInv, OpenInv, StageInv, BrokenInv, Begun
  <2>3. QED
    BY <2>1, <2>2 DEF Bodied, Begun, InHand
<1>3. CASE ~c.bad /\ ~(c.need > 0) /\ s[1].kind = "head"
  <2>1. c.open /\ Coming(s) /\ s[1].of = Latest /\ Pending(c)
    BY <1>0, <1>3, ComingMoves DEF TokenInv, OpenInv, StreamInv, Unit
  <2>2. plan # <<>>
    BY <1>0, <2>1 DEF Pending, Latest, ConnRecord
  <2>3. plan[Latest] \in Asked /\ Cap \in Nat
    BY <2>2, OwedIsNat DEF ClientTypes
  <2>4. Begins(c, d, Latest)
    BY <1>0, <1>3, <2>1, <2>3, HeadBegins DEF OnToken
  <2>5. Latest # 0
    BY <2>2, <1>0 DEF Latest, ClientTypes
  <2>6. QED
    BY <2>4, <2>5 DEF Begins, Begun, InHand
<1>4. CASE ~c.bad /\ ~(c.need > 0) /\ s[1].kind # "head"
  <2>1. d = [c EXCEPT !.bad = TRUE]
    BY <1>4 DEF OnToken
  <2>2. d.bad
    BY <1>0, <2>1 DEF ConnRecord
  <2>3. QED
    BY <2>2 DEF Begun
<1>5. QED
  BY <1>1, <1>2, <1>3, <1>4

\* One feed, of any number of tokens.
LEMMA ParsedKeeps ==
  ASSUME ToolsTypes, Cap \in Nat, TokenInv(conn, socket, Received),
         NEW n \in 1 .. Len(socket)
  PROVE  /\ TokenInv(Parsed(n), Rest(n), Received)
         /\ Begun(Parsed(n))
         /\ Rest(n) \in Seq(Tokens)
<1>0. /\ ClientTypes /\ Received \in Seq(Tokens)
      /\ plan # <<>> => units <= plan[Latest].body
      /\ job = 0 => Received = <<>>
  BY DEF ToolsTypes, ClientTypes, Received
<1>1. n \in Nat /\ socket \in Seq(Tokens) /\ Len(socket) \in Nat
  BY DEF ToolsTypes
<1>2. PICK f : IsAfter(f, n) /\ Parsed(n) = f[n]
  BY <1>1, ParsedIsAfter
<1>3. \A i \in 0 .. n : f[i] = AfterNext(f, i)
  BY <1>2 DEF IsAfter
<1>4. \A i \in 0 .. n : Rest(i) \in Seq(Tokens) /\ Len(Rest(i)) = Len(socket) - i
  BY <1>1 DEF Rest
<1>5. \A i \in 0 .. n - 1 : /\ Rest(i) # <<>> /\ Rest(i)[1] = socket[i + 1]
                           /\ Tail(Rest(i)) = Rest(i + 1)
  <2>1. TAKE i \in 0 .. n - 1
  <2>2. /\ i + 1 \in 0 .. n /\ i \in 0 .. n /\ Len(Rest(i)) = Len(socket) - i
        /\ Len(Rest(i + 1)) = Len(socket) - i - 1 /\ Len(socket) - i > 0
        /\ Rest(i) \in Seq(Tokens) /\ Rest(i + 1) \in Seq(Tokens)
    BY <1>1, <1>4
  <2>3. /\ \A k \in 1 .. Len(socket) - i : Rest(i)[k] = socket[i + k]
        /\ \A k \in 1 .. Len(socket) - i - 1 : Rest(i + 1)[k] = socket[i + 1 + k]
    BY <1>1, <2>2 DEF Rest
  <2>4. Rest(i) # <<>> /\ Rest(i)[1] = socket[i + 1]
    BY <1>1, <2>2, <2>3
  <2>5. /\ Tail(Rest(i)) \in Seq(Tokens) /\ Len(Tail(Rest(i))) = Len(Rest(i)) - 1
        /\ \A k \in 1 .. Len(Rest(i)) - 1 : Tail(Rest(i))[k] = Rest(i)[k + 1]
    BY <2>2, <2>4, TailOfTokens
  <2>6. \A k \in 1 .. Len(Tail(Rest(i))) : Tail(Rest(i))[k] = Rest(i + 1)[k]
    BY <1>1, <2>2, <2>3, <2>5
  <2>7. Tail(Rest(i)) = Rest(i + 1)
    BY <1>1, <2>2, <2>5, <2>6, SeqEqual
  <2>8. QED
    BY <2>4, <2>7
<1>6. Rest(0) = socket
  BY <1>1, SubSeqFull DEF Rest
<1> DEFINE Good(i) == TokenInv(f[i], Rest(i), Received) /\ (i # 0 => Begun(f[i]))
           T == {i \in 0 .. n : Good(i)}
<1>7. 0 \in T
  <2>1. f[0] = conn
    BY <1>1, <1>3 DEF AfterNext
  <2>2. Good(0) /\ 0 \in 0 .. n
    BY <1>1, <1>6, <2>1
  <2> HIDE DEF Good
  <2>3. QED
    BY <2>2
<1>8. ASSUME NEW i \in 0 .. n - 1, i \in T PROVE i + 1 \in T
  <2>1. i + 1 \in 0 .. n /\ i + 1 # 0 /\ i + 1 - 1 = i /\ i \in 0 .. n
    BY <1>1
  <2>2. f[i + 1] = OnToken(f[i], Rest(i)[1])
    BY <1>3, <1>5, <2>1 DEF AfterNext
  <2>3. TokenInv(f[i], Rest(i), Received)
    <3>1. Good(i)
      <4> HIDE DEF Good
      <4>1. QED
        BY <1>8
    <3>2. QED
      BY <3>1
  <2>4. TokenInv(f[i + 1], Rest(i + 1), Received)
    BY <1>0, <1>4, <1>5, <2>1, <2>2, <2>3, TokenKeeps
  <2>5. Begun(f[i + 1])
    BY <1>0, <1>4, <1>5, <2>1, <2>2, <2>3, TokenBegins
  <2>6. Good(i + 1)
    BY <2>4, <2>5
  <2> HIDE DEF Good
  <2>7. QED
    BY <2>1, <2>6
<1> HIDE DEF T
<1>9. \A i \in 0 .. n : i \in T
  BY <1>1, <1>7, <1>8, UpTo
<1>10. n \in T /\ n # 0
  BY <1>1, <1>9
<1>11. Good(n)
  <2> HIDE DEF Good
  <2>1. QED
    BY <1>10 DEF T
<1>12. QED
  BY <1>1, <1>2, <1>4, <1>10, <1>11

-----------------------------------------------------------------------------
\* A connection is accepted.
LEMMA ToolsInvInit == ToolsInit => ToolsInv
<1> SUFFICES ASSUME ToolsInit PROVE ToolsInv
  OBVIOUS
<1>1. <<>> \in Seq(Asked) /\ <<>> \in Seq(Tokens) /\ <<>> \in Seq([to : Nat, code : Nat])
  OBVIOUS
<1>2. ToolsTypes
  BY <1>1 DEF ToolsInit, ToolsTypes, ConnRecord
<1>3. Latest = 0 /\ Owed = 0 /\ Len(socket) = 0 /\ DOMAIN socket = {} /\ Len(conn.out) = 0
  BY DEF ToolsInit, Latest, Owed
<1>4. ~Coming(socket) /\ ~InHand(conn) /\ ~Pending(conn)
  BY <1>3 DEF Coming, ToolsInit, InHand, Pending
<1>5. OutInv(conn)
  BY <1>3 DEF OutInv, ToolsInit
<1>6. HandInv(conn) /\ StreamInv(conn, socket) /\ StageInv(conn) /\ HeldInv(conn, Received)
  <2>1. /\ conn.deferred = 0 /\ job = 0 /\ conn.tracked /\ ~conn.bad /\ ~conn.large /\ conn.need = 0
        /\ ~conn.complete /\ conn.idle
    BY DEF ToolsInit
  <2>2. HandInv(conn) /\ HeldInv(conn, Received)
    BY <2>1, <1>4 DEF HandInv, HeldInv
  <2>3. StageInv(conn)
    BY <2>1 DEF StageInv
  <2>4. StreamInv(conn, socket)
    BY <2>1, <1>3, <1>4 DEF StreamInv
  <2>5. QED
    BY <2>2, <2>3, <2>4
<1>7. QED
  BY <1>2, <1>5, <1>6 DEF ToolsInv, OpenInv, ToolsInit

\* The parts, for an open connection.
LEMMA ToolsInvOpens ==
  ASSUME ToolsInv, conn.open
  PROVE  /\ TokenInv(conn, socket, Received)
         /\ HandInv(conn) /\ StreamInv(conn, socket) /\ StageInv(conn) /\ HeldInv(conn, Received)
         /\ ~conn.bad /\ ~conn.large /\ conn.deferred = 0
         /\ InHand(conn) <=> job # 0
  BY DEF ToolsInv, TokenInv, OpenInv, ToolsTypes, InHand

\* A connection is closed, with no answer or with the one that was due.
LEMMA CloseKeeps ==
  ASSUME ToolsInv, NEW c \in ConnRecord, OutInv(c), conn' = Closed(c),
         plan' = plan, units' = units, socket' \in Seq(Tokens), job' = 0,
         body' \in Seq(Tokens)
  PROVE  ToolsInv'
<1>1. /\ Closed(c) \in ConnRecord /\ Closed(c).out = c.out
      /\ ~Closed(c).open /\ ~Closed(c).tracked
  BY DEF Closed, ConnRecord
<1>2. OutInv(conn)'
  BY <1>1 DEF OutInv, Pending, Latest
<1>3. ToolsTypes'
  BY <1>1 DEF ToolsInv, ToolsTypes, Latest
<1>4. QED
  BY <1>1, <1>2, <1>3 DEF ToolsInv

\* An answer to the request that is due keeps the answers in order.
LEMMA AppendedOut ==
  ASSUME NEW c \in ConnRecord, NEW d \in ConnRecord, NEW code \in Nat, plan \in Seq(Asked),
         OutInv(c), Pending(c), d.out = Append(c.out, [to |-> Latest, code |-> code])
  PROVE  OutInv(d) /\ ~Pending(d)
<1>1. /\ c.out \in Seq([to : Nat, code : Nat]) /\ Latest \in Nat
      /\ [to |-> Latest, code |-> code] \in [to : Nat, code : Nat]
  BY DEF ConnRecord, Latest
<1>2. /\ Len(d.out) = Len(c.out) + 1 /\ DOMAIN d.out = 1 .. Len(c.out) + 1
      /\ \A k \in 1 .. Len(c.out) : d.out[k] = c.out[k]
      /\ d.out[Len(c.out) + 1] = [to |-> Latest, code |-> code]
      /\ DOMAIN c.out = 1 .. Len(c.out) /\ Len(c.out) \in Nat
  BY <1>1
<1>3. Len(d.out) = Latest /\ Len(c.out) + 1 = Latest /\ d.out[Latest].to = Latest
  BY <1>2 DEF Pending
<1>4. \A k \in 1 .. Len(c.out) : d.out[k].to = k
  BY <1>2 DEF OutInv
<1>5. \A k \in DOMAIN d.out : d.out[k].to = k
  BY <1>2, <1>3, <1>4
<1>6. QED
  BY <1>1, <1>2, <1>3, <1>5 DEF OutInv, Pending

\* 400, 408 and 413 go to the request that is due, if no answer has begun.
LEMMA CannedKeepsOut ==
  ASSUME NEW c \in ConnRecord, NEW code \in Nat, plan \in Seq(Asked), OutInv(c),
         c.started \/ Pending(c)
  PROVE  Canned(c, code) \in ConnRecord /\ OutInv(Canned(c, code))
<1>1. CASE c.started
  BY <1>1 DEF Canned
<1>2. CASE ~c.started
  <2> DEFINE d == Canned(c, code)
  <2>1. d = [c EXCEPT !.out = Append(c.out, [to |-> Latest, code |-> code])]
    BY <1>2 DEF Canned, Latest
  <2>2. Append(c.out, [to |-> Latest, code |-> code]) \in Seq([to : Nat, code : Nat])
    BY DEF ConnRecord, Latest
  <2> HIDE DEF d
  <2>3. d \in ConnRecord /\ d.out = Append(c.out, [to |-> Latest, code |-> code])
    BY <2>1, <2>2 DEF ConnRecord
  <2>4. QED
    BY <1>2, <2>3, AppendedOut DEF d
<1>3. QED
  BY <1>1, <1>2

-----------------------------------------------------------------------------
\* Nothing the invariant speaks of changes.
LEMMA ToolsQuiet ==
  ASSUME ToolsInv, UNCHANGED <<plan, units, socket, conn, job, body>>
  PROVE  ToolsInv'
  BY DEF ToolsInv, ToolsTypes, OutInv, OpenInv, HandInv, StreamInv, StageInv, HeldInv,
         Received, Pending, InHand, Coming, Latest, Owed

\* A client that does not pipeline begins a request: all is answered.
LEMMA SendsHeadKeeps ==
  ASSUME ToolsInv, ~Pipelining, ClientSendsHead
  PROVE  ToolsInv'
<1>1. PICK q \in RequestsOf : plan' = Append(plan, q)
  BY DEF ClientSendsHead
<1>2. /\ conn.open /\ Len(conn.out) >= Latest /\ units' = 0 /\ conn' = conn /\ job' = job
      /\ body' = body /\ socket' = Append(socket, Head_(Len(plan')))
  BY DEF ClientSendsHead, Latest
<1>3. /\ HandInv(conn) /\ StreamInv(conn, socket) /\ StageInv(conn) /\ OutInv(conn) /\ ToolsTypes
      /\ ~conn.bad /\ ~conn.large /\ conn.deferred = 0
  BY <1>2, ToolsInvOpens DEF ToolsInv
<1>4. /\ plan \in Seq(Asked) /\ socket \in Seq(Tokens) /\ Latest \in Nat /\ Len(socket) \in Nat
      /\ conn \in ConnRecord /\ Len(conn.out) \in Nat
  BY <1>3 DEF ToolsTypes, Latest, ConnRecord
<1>5. Len(conn.out) = Latest /\ ~Pending(conn) /\ ~InHand(conn) /\ job = 0
  BY <1>2, <1>3, <1>4 DEF OutInv, Pending, HandInv, InHand
<1>6. q \in Asked
  BY HttpToolsAssumption DEF RequestsOf, Asked
<1>7. /\ plan' \in Seq(Asked) /\ plan' # <<>> /\ Latest' = Latest + 1 /\ plan'[Latest'] = q
  BY <1>1, <1>4, <1>6 DEF Latest
<1>8. /\ Head_(Latest') \in Tokens /\ socket' = Append(socket, Head_(Latest'))
      /\ \A k \in DOMAIN socket : socket[k] = Unit(Latest)
  BY <1>2, <1>3, <1>4, <1>5, <1>7 DEF Head_, Tokens, StreamInv, Latest
<1>9. /\ socket' \in Seq(Tokens) /\ Len(socket') = Len(socket) + 1
      /\ DOMAIN socket' = 1 .. Len(socket) + 1
      /\ socket'[Len(socket) + 1] = Head_(Latest')
      /\ \A k \in 1 .. Len(socket) : socket'[k] = Unit(Latest)
  BY <1>4, <1>8
<1>10. Coming(socket)'
  <2>1. Len(socket) + 1 \in DOMAIN socket' /\ Len(socket) + 1 - 1 = Len(socket)
    BY <1>4, <1>9
  <2>2. \A k \in 1 .. Len(socket) + 1 - 1 : socket'[k].kind = "unit"
    BY <1>9, <2>1 DEF Unit
  <2>3. \A k \in Len(socket) + 1 + 1 .. Len(socket') : socket'[k] = Unit(Latest')
    BY <1>4, <1>9
  <2>4. QED
    BY <1>2, <1>4, <1>9, <2>1, <2>2, <2>3 DEF Coming
<1>11. Pending(conn)' /\ ~InHand(conn)'
  BY <1>2, <1>5, <1>7 DEF Pending, InHand
<1>12. ToolsTypes'
  <2>1. q.body \in Nat
    BY <1>6 DEF Asked
  <2>2. QED
    BY <2>1, <1>2, <1>3, <1>7, <1>9 DEF ToolsTypes
<1>13. OutInv(conn)'
  BY <1>2, <1>3, <1>11 DEF OutInv
<1>14. HandInv(conn)' /\ HeldInv(conn, Received)' /\ StageInv(conn)'
  BY <1>2, <1>3, <1>5, <1>11 DEF HandInv, HeldInv, StageInv, InHand
<1>15. StreamInv(conn, socket)'
  BY <1>2, <1>3, <1>10, <1>11 DEF StreamInv
<1>16. QED
  BY <1>2, <1>3, <1>12, <1>13, <1>14, <1>15 DEF ToolsInv, OpenInv

\* The client sends a unit: what it owes moves into the socket.
LEMMA SendsUnitKeeps ==
  ASSUME ToolsInv, ClientSendsUnit
  PROVE  ToolsInv'
<1>1. /\ conn.open /\ plan # <<>> /\ units < Last(plan).body /\ units' = units + 1
      /\ plan' = plan /\ conn' = conn /\ job' = job /\ body' = body
      /\ socket' = Append(socket, Unit(Latest))
  BY DEF ClientSendsUnit, Unsent, Latest
<1>2. /\ HandInv(conn) /\ StreamInv(conn, socket) /\ StageInv(conn) /\ OutInv(conn) /\ ToolsTypes
      /\ HeldInv(conn, Received) /\ ~conn.bad /\ ~conn.large /\ conn.deferred = 0
  BY <1>1, ToolsInvOpens DEF ToolsInv
<1>3. /\ plan \in Seq(Asked) /\ socket \in Seq(Tokens) /\ Latest \in Nat \ {0} /\ Len(socket) \in Nat
      /\ units \in Nat /\ plan[Latest] \in Asked /\ Latest' = Latest
  BY <1>1, <1>2 DEF ToolsTypes, Latest
<1>4. /\ plan[Latest].body \in Nat /\ units' <= plan[Latest].body
      /\ Owed = plan[Latest].body - units /\ Owed' = plan[Latest].body - units'
  <2>1. plan[Latest].body \in Nat
    BY <1>3 DEF Asked
  <2>2. Last(plan) = plan[Latest]
    BY DEF Last, Latest
  <2>3. QED
    BY <1>1, <1>3, <2>1, <2>2 DEF Owed
<1>5. Unit(Latest) \in Tokens
  BY <1>3 DEF Unit, Tokens
<1>6. /\ socket' \in Seq(Tokens) /\ Len(socket') = Len(socket) + 1
      /\ DOMAIN socket' = 1 .. Len(socket) + 1 /\ DOMAIN socket = 1 .. Len(socket)
      /\ socket'[Len(socket) + 1] = Unit(Latest)
      /\ \A k \in 1 .. Len(socket) : socket'[k] = socket[k]
  BY <1>1, <1>3, <1>5
<1>7. ASSUME Coming(socket) PROVE Coming(socket)'
  <2>1. PICK p \in DOMAIN socket :
              /\ socket[p] = Head_(Latest)
              /\ \A k \in 1 .. p - 1 : socket[k].kind = "unit"
              /\ \A k \in p + 1 .. Len(socket) : socket[k] = Unit(Latest)
              /\ Len(socket) = p + units
    BY <1>7 DEF Coming
  <2>2. p \in DOMAIN socket' /\ socket'[p] = Head_(Latest) /\ Len(socket') = p + units'
    BY <1>1, <1>3, <1>6, <2>1
  <2>3. \A k \in 1 .. p - 1 : socket'[k].kind = "unit"
    BY <1>3, <1>6, <2>1
  <2>4. ASSUME NEW k \in p + 1 .. Len(socket') PROVE socket'[k] = Unit(Latest)
    <3>1. k = Len(socket) + 1 \/ k \in p + 1 .. Len(socket)
      BY <1>3, <1>6, <2>1
    <3>2. QED
      BY <1>3, <1>6, <2>1, <3>1
  <2>5. QED
    BY <1>3, <2>2, <2>3, <2>4 DEF Coming
<1>8. ASSUME ~Coming(socket)
      PROVE  ~Coming(socket)' /\ \A k \in DOMAIN socket' : socket'[k] = Unit(Latest)
  <2>1. \A k \in DOMAIN socket : socket[k] = Unit(Latest)
    BY <1>2, <1>8 DEF StreamInv
  <2>2. \A k \in DOMAIN socket' : socket'[k] = Unit(Latest)
    BY <1>6, <2>1
  <2>3. QED
    BY <1>3, <2>2 DEF Coming, Unit, Head_
<1>9. (Pending(conn)' <=> Pending(conn)) /\ (InHand(conn)' <=> InHand(conn))
  BY <1>1, <1>3 DEF Pending, InHand
<1>10. StreamInv(conn, socket)'
  <2>1. ~Pending(conn) \/ InHand(conn) => ~conn.bad /\ conn.need = Len(socket') + Owed'
    <3>1. Len(socket') + Owed' = Len(socket) + Owed
      <4>1. /\ Owed = plan[Latest].body - units /\ Owed' = plan[Latest].body - units'
            /\ plan[Latest].body \in Nat /\ units \in Nat /\ units' = units + 1
            /\ Len(socket') = Len(socket) + 1 /\ Len(socket) \in Nat
        BY <1>1, <1>3, <1>4, <1>6
      <4>2. PICK m \in Nat : m = plan[Latest].body
        BY <4>1
      <4>3. Owed = m - units /\ Owed' = m - (units + 1)
        BY <4>1, <4>2
      <4>4. QED
        BY <4>1, <4>3
    <3>2. ~Pending(conn) \/ InHand(conn) => conn.need = Len(socket) + Owed
      BY <1>2 DEF StreamInv
    <3>3. QED
      BY <1>2, <3>1, <3>2, Zenon
  <2>2. QED
    BY <1>1, <1>2, <1>3, <1>7, <1>8, <1>9, <2>1 DEF StreamInv
<1>11. ToolsTypes'
  BY <1>1, <1>2, <1>3, <1>4, <1>6 DEF ToolsTypes
<1>12. OutInv(conn)' /\ HandInv(conn)' /\ StageInv(conn)' /\ HeldInv(conn, Received)'
  BY <1>1, <1>2, <1>3, <1>9 DEF OutInv, HandInv, StageInv, HeldInv, Received
<1>13. QED
  BY <1>1, <1>2, <1>10, <1>11, <1>12 DEF ToolsInv, OpenInv

\* The last message is over and was answered, so nothing of it is to come.
LEMMA ResetKeeps ==
  ASSUME ToolsInv, Reset
  PROVE  ToolsInv'
<1>1. /\ conn.tracked /\ conn.complete /\ UNCHANGED <<plan, units, socket, job, body>>
  BY DEF Reset, clientVars
<1>2. ToolsTypes /\ OutInv(conn) /\ conn.open /\ conn \in ConnRecord
  BY <1>1 DEF ToolsInv, ToolsTypes
<1>3. /\ HandInv(conn) /\ StreamInv(conn, socket) /\ StageInv(conn)
      /\ ~conn.bad /\ ~conn.large /\ conn.deferred = 0 /\ job = 0
  BY <1>1, <1>2, ToolsInvOpens DEF HandInv
<1>4. CASE conn.closeAfter \/ ~plan[conn.ctx].keep
  <2>1. conn' = Closed(conn)
    BY <1>4 DEF Reset
  <2>2. QED
    BY <1>1, <1>2, <1>3, <2>1, CloseKeeps DEF ToolsTypes
<1>5. CASE ~(conn.closeAfter \/ ~plan[conn.ctx].keep)
  <2>1. conn' = [conn EXCEPT !.ctx = 0, !.buf = <<>>, !.eom = FALSE,
                     !.complete = FALSE, !.started = FALSE,
                     !.closeAfter = FALSE, !.deferred = 0, !.idle = TRUE]
    BY <1>5 DEF Reset
  <2>2. <<>> \in Seq(Tokens)
    OBVIOUS
  <2>3. /\ conn' \in ConnRecord /\ ~conn'.complete /\ conn'.deferred = 0 /\ conn'.idle
        /\ conn'.need = conn.need /\ conn'.out = conn.out /\ conn'.bad = conn.bad
        /\ conn'.large = conn.large /\ conn'.tracked = conn.tracked /\ conn'.open = conn.open
    BY <1>2, <2>1, <2>2 DEF ConnRecord
  <2>4. conn.need = 0
    BY <1>1, <1>3, <1>5 DEF StageInv
  <2>5. (Pending(conn)' <=> Pending(conn)) /\ ~InHand(conn)' /\ ~InHand(conn)
    BY <1>1, <1>3, <2>3 DEF Pending, InHand, Latest
  <2>6. OutInv(conn)' /\ HandInv(conn)' /\ StageInv(conn)' /\ HeldInv(conn, Received)'
    BY <1>1, <1>2, <1>3, <2>3, <2>4, <2>5 DEF OutInv, HandInv, StageInv, HeldInv, Latest
  <2>7. StreamInv(conn, socket)'
    BY <1>1, <1>3, <2>3, <2>5 DEF StreamInv, Coming, Owed, Latest
  <2>8. ToolsTypes'
    BY <1>1, <1>2, <2>3 DEF ToolsTypes, Latest
  <2>9. QED
    BY <1>2, <1>3, <2>3, <2>6, <2>7, <2>8 DEF ToolsInv, OpenInv
<1>6. QED
  BY <1>4, <1>5

\* What a feed on either thread makes of the connection, if it goes on: the
\* record d is that of the parser, but for idle, tracked and deferred.
LEMMA FeedGoesOn ==
  ASSUME ToolsInv, NEW c, NEW s \in Seq(Tokens), NEW b \in Seq(Tokens),
         TokenInv(c, s, b), Begun(c), c.open, ~c.bad, ~c.large,
         UNCHANGED <<plan, units>>, socket' = s, body' \in Seq(Tokens), Received' = b,
         conn' \in ConnRecord, conn'.deferred = 0, conn'.open,
         conn'.need = c.need, conn'.buf = c.buf, conn'.out = c.out, conn'.bad = c.bad,
         conn'.large = c.large, conn'.complete = c.complete,
         conn'.closeAfter = c.closeAfter, conn'.started = c.started,
         job' = IF c.deferred # 0 THEN c.deferred ELSE job,
         conn'.tracked = (job' = 0)
  PROVE  ToolsInv'
<1>1. /\ OutInv(c) /\ HandInv(c) /\ StreamInv(c, s) /\ StageInv(c) /\ HeldInv(c, b)
      /\ ToolsTypes /\ c \in ConnRecord
  BY DEF TokenInv, OpenInv, ToolsInv
<1>2. Latest' = Latest /\ Owed' = Owed /\ Latest \in Nat
  BY <1>1 DEF Latest, Owed, ToolsTypes
<1>3. job' \in {0, Latest} /\ job' \in Nat /\ (InHand(conn)' <=> InHand(c)) /\ (Pending(conn)' <=> Pending(c))
  BY <1>1, <1>2 DEF HandInv, InHand, Pending, ToolsTypes
<1>4. OutInv(conn)' /\ HandInv(conn)'
  BY <1>1, <1>2, <1>3 DEF OutInv, HandInv
<1>5. StageInv(conn)'
  BY <1>1, <1>3 DEF StageInv, Begun
<1>6. HeldInv(conn, Received)'
  BY <1>1, <1>2, <1>3 DEF HeldInv
<1>7. StreamInv(conn, socket)'
  BY <1>1, <1>2, <1>3 DEF StreamInv, Coming
<1>8. ToolsTypes'
  BY <1>1, <1>2, <1>3 DEF ToolsTypes
<1>9. QED
  BY <1>4, <1>5, <1>6, <1>7, <1>8 DEF ToolsInv, OpenInv

\* _feed on the selector thread: the dispatch it deferred starts a worker.
LEMMA FeedKeeps ==
  ASSUME ToolsInv, Feed
  PROVE  ToolsInv'
<1>1. conn.tracked /\ body' = <<>> /\ plan' = plan /\ units' = units
  BY DEF Feed, clientVars
<1>2. PICK n \in 1 .. Len(socket) :
          LET c == [Parsed(n) EXCEPT !.idle = FALSE]
          IN /\ socket' = Rest(n)
             /\ IF c.bad THEN conn' = Closed(Canned(c, 400)) /\ job' = job
                ELSE IF c.large THEN conn' = Closed(Canned(c, 413)) /\ job' = job
                ELSE IF c.deferred # 0
                  THEN /\ conn' = [c EXCEPT !.deferred = 0, !.tracked = FALSE]
                       /\ job' = c.deferred
                  ELSE conn' = c /\ job' = job
  BY DEF Feed
<1>3. conn.open /\ plan \in Seq(Asked)
  BY <1>1 DEF ToolsInv, ToolsTypes
<1>4. job = 0 /\ Received = <<>> /\ ToolsTypes /\ TokenInv(conn, socket, Received)
  BY <1>1, <1>3, ToolsInvOpens DEF HandInv, Received, ToolsInv
<1> DEFINE p == Parsed(n)
           c == [p EXCEPT !.idle = FALSE]
<1>5. TokenInv(p, Rest(n), <<>>) /\ Begun(p) /\ Rest(n) \in Seq(Tokens)
  BY <1>4, ParsedKeeps, HttpToolsAssumption
<1> HIDE DEF p
<1>6. /\ c \in ConnRecord /\ p \in ConnRecord /\ c.need = p.need /\ c.buf = p.buf
      /\ c.out = p.out /\ c.bad = p.bad
      /\ c.large = p.large /\ c.complete = p.complete /\ c.deferred = p.deferred
      /\ c.closeAfter = p.closeAfter /\ c.started = p.started
      /\ c.tracked = p.tracked /\ c.open = p.open
  BY <1>5 DEF TokenInv, ConnRecord
<1>7. /\ socket' = Rest(n)
      /\ IF c.bad THEN conn' = Closed(Canned(c, 400)) /\ job' = job
         ELSE IF c.large THEN conn' = Closed(Canned(c, 413)) /\ job' = job
         ELSE IF c.deferred # 0
           THEN /\ conn' = [c EXCEPT !.deferred = 0, !.tracked = FALSE]
                /\ job' = c.deferred
           ELSE conn' = c /\ job' = job
  BY <1>2 DEF p
<1> HIDE DEF c
<1>8. OutInv(c) /\ <<>> \in Seq(Tokens)
  BY <1>5, <1>6 DEF TokenInv, OutInv, Pending
<1>9. ASSUME c.bad \/ c.large, NEW code \in Nat,
             conn' = Closed(Canned(c, code)), job' = job
      PROVE  ToolsInv'
  <2>1. c.started \/ Pending(c)
    BY <1>5, <1>6, <1>9 DEF TokenInv, OpenInv, StreamInv, BrokenInv, Pending
  <2>2. Canned(c, code) \in ConnRecord /\ OutInv(Canned(c, code))
    BY <1>3, <1>6, <1>8, <2>1, CannedKeepsOut
  <2>3. QED
    BY <1>1, <1>4, <1>5, <1>7, <1>8, <1>9, <2>2, CloseKeeps
<1>10. CASE c.bad
  BY <1>7, <1>9, <1>10
<1>11. CASE ~c.bad /\ c.large
  BY <1>7, <1>9, <1>11
<1>12. CASE ~c.bad /\ ~c.large /\ c.deferred # 0
  <2>1. conn' = [c EXCEPT !.deferred = 0, !.tracked = FALSE] /\ job' = c.deferred
    BY <1>7, <1>12
  <2>2. c.open
    BY <1>5, <1>6, <1>12 DEF TokenInv, BrokenInv
  <2>3. /\ conn' \in ConnRecord /\ conn'.deferred = 0 /\ ~conn'.tracked
        /\ conn'.need = c.need /\ conn'.buf = c.buf /\ conn'.out = c.out /\ conn'.bad = c.bad
        /\ conn'.large = c.large /\ conn'.complete = c.complete /\ conn'.open = c.open
        /\ conn'.closeAfter = c.closeAfter /\ conn'.started = c.started
    BY <1>6, <2>1 DEF ConnRecord
  <2>4. Received' = <<>>
    BY <1>1 DEF Received
  <2>5. conn'.tracked = (job' = 0)
    BY <1>12, <2>1, <2>3 DEF ConnRecord
  <2>6. QED
    BY <1>1, <1>4, <1>5, <1>6, <1>7, <1>8, <1>12, <2>1, <2>2, <2>3, <2>4, <2>5, FeedGoesOn
<1>13. CASE ~c.bad /\ ~c.large /\ c.deferred = 0
  <2>1. conn' = c /\ job' = 0
    BY <1>4, <1>7, <1>13
  <2>2. Received' = <<>>
    BY <2>1 DEF Received
  <2>3. CASE c.open
    <3>1. conn'.tracked = (job' = 0)
      BY <1>4, <1>5, <1>6, <2>1, <2>3 DEF TokenInv, OpenInv, HandInv
    <3>2. QED
      BY <1>1, <1>4, <1>5, <1>6, <1>7, <1>8, <1>13, <2>1, <2>2, <2>3, <3>1, FeedGoesOn
  <2>4. CASE ~c.open
    <3>1. ~c.tracked
      BY <1>5, <1>6, <2>4 DEF TokenInv, BrokenInv
    <3>2. OutInv(conn)'
      BY <1>1, <1>8, <2>1 DEF OutInv, Pending, Latest
    <3>3. ToolsTypes'
      BY <1>1, <1>4, <1>5, <1>6, <1>7, <1>8, <2>1 DEF ToolsTypes, Latest
    <3>4. QED
      BY <2>1, <2>4, <3>1, <3>2, <3>3 DEF ToolsInv
  <2>5. QED
    BY <2>3, <2>4
<1>14. QED
  BY <1>10, <1>11, <1>12, <1>13

-----------------------------------------------------------------------------
\* The worker of the latest request answers it and gives the connection back.
LEMMA AnswerKeeps ==
  ASSUME ToolsInv, NEW c \in ConnRecord, NEW s \in Seq(Tokens), NEW code \in Nat,
         OutInv(c), Pending(c), ~Coming(s), \A k \in DOMAIN s : s[k] = Unit(Latest),
         c.need = Len(s) + Owed, ~c.bad, ~c.large, c.deferred = 0, c.open,
         code = 200 => (c.complete => c.need = 0 \/ c.closeAfter),
         job = Latest, UNCHANGED <<plan, units>>, socket' = s, body' \in Seq(Tokens),
         conn' = GivenBack(Answered(c, job, code)), job' = 0
  PROVE  ToolsInv'
<1> DEFINE a == Answered(c, job, code)
<1>1. ToolsTypes /\ plan \in Seq(Asked) /\ Latest \in Nat /\ Len(c.out) \in Nat
  BY DEF ToolsInv, ToolsTypes, Latest, ConnRecord
<1>2. plan[job] \in Asked /\ Latest' = Latest /\ Owed' = Owed
  BY <1>1 DEF Latest, Owed, Pending
<1>3. /\ a \in ConnRecord /\ a.out = Append(c.out, [to |-> Latest, code |-> code])
      /\ a.started /\ a.need = c.need /\ a.deferred = c.deferred /\ a.large = c.large
      /\ a.bad = c.bad /\ a.open = c.open /\ a.complete = c.complete
      /\ c.closeAfter => a.closeAfter
  <2>1. job \in Nat
    BY <1>1
  <2>2. /\ a \in ConnRecord /\ a.out = Append(c.out, [to |-> job, code |-> code])
        /\ a.started /\ a.need = c.need /\ a.deferred = c.deferred /\ a.large = c.large
        /\ a.bad = c.bad /\ a.open = c.open /\ a.complete = c.complete
        /\ c.closeAfter => a.closeAfter
    <3>1. plan[job] \in Asked
      BY <1>2
    <3>2. a \in ConnRecord
      BY <3>1, <2>1, AnsweredRecord
    <3>3. a.out = Append(c.out, [to |-> job, code |-> code])
      BY <3>1, <2>1, AnsweredRecord
    <3>4. a.started
      BY <3>1, <2>1, AnsweredRecord
    <3>5. c.closeAfter => a.closeAfter
      BY <3>1, <2>1, AnsweredRecord
    <3>6. a.need = c.need /\ a.deferred = c.deferred
      BY <3>1, <2>1, AnsweredRecord, ZenonT(60)
    <3>7. a.large = c.large
      BY <3>1, <2>1, AnsweredRecord
    <3>8. a.bad = c.bad
      BY <3>1, <2>1, AnsweredRecord
    <3>9. a.open = c.open
      BY <3>1, <2>1, AnsweredRecord
    <3>10. a.complete = c.complete
      BY <3>1, <2>1, AnsweredRecord, ZenonT(60)
    <3>11. QED
      BY <3>2, <3>3, <3>4, <3>5, <3>6, <3>7, <3>8, <3>9, <3>10, Zenon
  <2> HIDE DEF a
  <2>3. QED
    BY <2>2, Zenon
<1>4. code # 200 => a.closeAfter
  BY <1>1 DEF Answered, ConnRecord
<1> HIDE DEF a
<1>5. /\ conn' \in ConnRecord /\ conn'.out = a.out /\ conn'.started /\ conn'.need = c.need
      /\ conn'.deferred = 0 /\ ~conn'.large /\ ~conn'.bad /\ conn'.open /\ conn'.tracked
      /\ conn'.complete = a.complete /\ conn'.closeAfter = a.closeAfter
  <2>1. conn' = [a EXCEPT !.tracked = TRUE]
    BY DEF GivenBack, a
  <2>2. QED
    BY <2>1, <1>3 DEF ConnRecord
<1>6. OutInv(a) /\ ~Pending(a)
  BY <1>1, <1>3, AppendedOut
<1>7. OutInv(conn)' /\ ~Pending(conn)' /\ ~InHand(conn)'
  BY <1>2, <1>5, <1>6 DEF OutInv, Pending, InHand
<1>8. HandInv(conn)' /\ HeldInv(conn, Received)'
  BY <1>5, <1>7 DEF HandInv, HeldInv, InHand
<1>9. StageInv(conn)'
  BY <1>3, <1>4, <1>5 DEF StageInv
<1>10. StreamInv(conn, socket)'
  BY <1>2, <1>5, <1>7 DEF StreamInv, Coming
<1>11. ToolsTypes'
  BY <1>1, <1>2, <1>5 DEF ToolsTypes
<1>12. QED
  BY <1>5, <1>7, <1>8, <1>9, <1>10, <1>11 DEF ToolsInv, OpenInv

\* What the worker of a request finds.
LEMMA WorkerHas ==
  ASSUME ToolsInv, job # 0
  PROVE  /\ conn.open /\ conn \in ConnRecord /\ job = Latest /\ ~conn.tracked
         /\ conn.deferred = 0 /\ ~conn.bad /\ ~conn.large /\ InHand(conn) /\ Pending(conn)
         /\ OutInv(conn) /\ HandInv(conn) /\ StageInv(conn) /\ StreamInv(conn, socket)
         /\ HeldInv(conn, body) /\ TokenInv(conn, socket, body)
         /\ Received = body /\ ToolsTypes /\ socket \in Seq(Tokens) /\ body \in Seq(Tokens)
         /\ plan \in Seq(Asked)
<1>1. conn.open /\ ToolsTypes /\ OutInv(conn) /\ Received = body
  BY DEF ToolsInv, Received
<1>2. /\ HandInv(conn) /\ StageInv(conn) /\ StreamInv(conn, socket) /\ HeldInv(conn, body)
      /\ TokenInv(conn, socket, body) /\ ~conn.bad /\ ~conn.large /\ conn.deferred = 0 /\ InHand(conn)
  BY <1>1, ToolsInvOpens
<1>3. QED
  BY <1>1, <1>2 DEF HandInv, ToolsTypes

\* A record of the worker's that only differs in what the invariant leaves open.
LEMMA WorkerKeeps ==
  ASSUME ToolsInv, job # 0, UNCHANGED <<plan, units, socket, job>>,
         conn' \in ConnRecord, body' \in Seq(Tokens),
         conn'.deferred = conn.deferred, conn'.open = conn.open, conn'.need = conn.need,
         conn'.out = conn.out, conn'.bad = conn.bad, conn'.large = conn.large,
         conn'.complete = conn.complete, conn'.closeAfter = conn.closeAfter,
         conn'.started = conn.started, conn'.idle = conn.idle, conn'.tracked = conn.tracked,
         \A k \in DOMAIN body' : body'[k] = Unit(Latest),
         \A k \in DOMAIN conn'.buf : conn'.buf[k] = Unit(Latest),
         Len(body') + Len(conn'.buf) + conn.need <= plan[Latest].body
  PROVE  ToolsInv'
<1>1. /\ conn.open /\ ToolsTypes /\ OutInv(conn) /\ HandInv(conn) /\ StageInv(conn)
      /\ StreamInv(conn, socket) /\ ~conn.bad /\ ~conn.large /\ conn.deferred = 0
  BY WorkerHas
<1>2. /\ Latest' = Latest /\ Owed' = Owed /\ (InHand(conn)' <=> InHand(conn))
      /\ (Pending(conn)' <=> Pending(conn)) /\ Received' = body'
  BY DEF Latest, Owed, InHand, Pending, Received
<1>3. OutInv(conn)' /\ HandInv(conn)' /\ StageInv(conn)'
  BY <1>1, <1>2 DEF OutInv, HandInv, StageInv
<1>4. StreamInv(conn, socket)'
  BY <1>1, <1>2 DEF StreamInv, Coming
<1>5. HeldInv(conn, Received)'
  BY <1>2 DEF HeldInv
<1>6. ToolsTypes'
  BY <1>1, <1>2 DEF ToolsTypes
<1>7. QED
  BY <1>1, <1>3, <1>4, <1>5, <1>6 DEF ToolsInv, OpenInv

\* The steps of a worker.
LEMMA ContinueKeeps ==
  ASSUME ToolsInv, Continue
  PROVE  ToolsInv'
<1>1. /\ job # 0 /\ conn' = [conn EXCEPT !.continued = TRUE]
      /\ UNCHANGED <<plan, units, socket, job, body>>
  BY DEF Continue, clientVars
<1>2. conn \in ConnRecord /\ HeldInv(conn, body) /\ InHand(conn) /\ body \in Seq(Tokens)
  BY <1>1, WorkerHas
<1>3. /\ conn' \in ConnRecord /\ conn'.buf = conn.buf
      /\ conn'.deferred = conn.deferred /\ conn'.open = conn.open /\ conn'.need = conn.need
      /\ conn'.out = conn.out /\ conn'.bad = conn.bad /\ conn'.large = conn.large
      /\ conn'.complete = conn.complete /\ conn'.closeAfter = conn.closeAfter
      /\ conn'.started = conn.started /\ conn'.idle = conn.idle /\ conn'.tracked = conn.tracked
  BY <1>1, <1>2 DEF ConnRecord
<1>4. /\ \A k \in DOMAIN body' : body'[k] = Unit(Latest)
      /\ \A k \in DOMAIN conn'.buf : conn'.buf[k] = Unit(Latest)
      /\ Len(body') + Len(conn'.buf) + conn.need <= plan[Latest].body
  BY <1>1, <1>2, <1>3 DEF HeldInv
<1>5. QED
  BY <1>1, <1>2, <1>3, <1>4, WorkerKeeps

LEMMA TakesKeeps ==
  ASSUME ToolsInv, WorkerTakes
  PROVE  ToolsInv'
<1>1. /\ job # 0 /\ conn' = [conn EXCEPT !.buf = <<>>] /\ body' = body \o conn.buf
      /\ UNCHANGED <<plan, units, socket, job>>
  BY DEF WorkerTakes, Reads, clientVars
<1>2. conn \in ConnRecord /\ HeldInv(conn, body) /\ InHand(conn) /\ body \in Seq(Tokens)
  BY <1>1, WorkerHas
<1>3. <<>> \in Seq(Tokens) /\ conn.buf \in Seq(Tokens)
  BY <1>2 DEF ConnRecord
<1>4. /\ conn' \in ConnRecord /\ conn'.buf = <<>>
      /\ conn'.deferred = conn.deferred /\ conn'.open = conn.open /\ conn'.need = conn.need
      /\ conn'.out = conn.out /\ conn'.bad = conn.bad /\ conn'.large = conn.large
      /\ conn'.complete = conn.complete /\ conn'.closeAfter = conn.closeAfter
      /\ conn'.started = conn.started /\ conn'.idle = conn.idle /\ conn'.tracked = conn.tracked
  BY <1>1, <1>2, <1>3 DEF ConnRecord
<1>5. /\ body' \in Seq(Tokens) /\ Len(body') = Len(body) + Len(conn.buf)
      /\ \A k \in 1 .. Len(body') :
            body'[k] = IF k <= Len(body) THEN body[k] ELSE conn.buf[k - Len(body)]
  BY <1>1, <1>2, <1>3, ConcatProperties
<1>6. /\ \A k \in DOMAIN body : body[k] = Unit(Latest)
      /\ \A k \in DOMAIN conn.buf : conn.buf[k] = Unit(Latest)
      /\ Len(body) + Len(conn.buf) + conn.need <= plan[Latest].body
  BY <1>2 DEF HeldInv
<1>7. ASSUME NEW k \in DOMAIN body' PROVE body'[k] = Unit(Latest)
  <2>1. k \in 1 .. Len(body) + Len(conn.buf) /\ Len(body) \in Nat /\ Len(conn.buf) \in Nat
    BY <1>2, <1>3, <1>5
  <2>2. k \in DOMAIN body \/ k - Len(body) \in DOMAIN conn.buf
    BY <1>2, <1>3, <2>1
  <2>3. QED
    BY <1>2, <1>3, <1>5, <1>6, <2>1
<1>8. Len(body') + Len(conn'.buf) + conn.need <= plan[Latest].body
  <2>1. Len(conn'.buf) = 0 /\ Len(body') \in Nat
    BY <1>4, <1>5
  <2>2. QED
    BY <1>5, <1>6, <2>1
<1>9. \A k \in DOMAIN conn'.buf : conn'.buf[k] = Unit(Latest)
  BY <1>4
<1>10. QED
  BY <1>1, <1>2, <1>4, <1>5, <1>7, <1>8, <1>9, WorkerKeeps

LEMMA EndsKeeps ==
  ASSUME ToolsInv, WorkerEnds
  PROVE  ToolsInv'
<1>0. job # 0 /\ UNCHANGED <<plan, units, socket, body>> /\ job' = 0
  BY DEF WorkerEnds, WorkerTimesOut, WorkerAnswers, WorkerCloses, Reads, clientVars
<1>1. /\ conn.open /\ conn \in ConnRecord /\ job = Latest /\ ToolsTypes
      /\ conn.deferred = 0 /\ ~conn.bad /\ ~conn.large /\ InHand(conn) /\ Pending(conn)
      /\ OutInv(conn) /\ StageInv(conn) /\ StreamInv(conn, socket)
      /\ socket \in Seq(Tokens) /\ body \in Seq(Tokens)
  BY <1>0, WorkerHas
<1>2. /\ ~Coming(socket) /\ \A k \in DOMAIN socket : socket[k] = Unit(Latest)
      /\ conn.need = Len(socket) + Owed
      /\ conn.complete => conn.need = 0 \/ conn.closeAfter
  BY <1>1 DEF StreamInv, StageInv
<1>3. CASE WorkerTimesOut
  <2>1. conn' = GivenBack(Answered(conn, job, 500)) /\ 500 \in Nat /\ 500 # 200
    BY <1>3 DEF WorkerTimesOut
  <2>2. QED
    BY <1>0, <1>1, <1>2, <2>1, AnswerKeeps
<1>4. CASE WorkerAnswers
  BY <1>0, <1>1, <1>2, <1>4, AnswerKeeps DEF WorkerAnswers
<1>5. CASE WorkerCloses
  BY <1>0, <1>1, <1>5, CloseKeeps DEF WorkerCloses
<1>6. QED
  BY <1>3, <1>4, <1>5 DEF WorkerEnds

LEMMA WorkerFeedKeeps ==
  ASSUME ToolsInv, WorkerFeed
  PROVE  ToolsInv'
<1>0. job # 0 /\ UNCHANGED <<plan, units, body>>
  BY DEF WorkerFeed, Reads, clientVars
<1>1. PICK n \in 1 .. Len(socket) :
          LET c == Parsed(n)
          IN /\ socket' = Rest(n)
             /\ IF c.bad \/ c.large
                  THEN /\ conn' = GivenBack(Answered([c EXCEPT !.large = FALSE], job,
                                                     IF c.large THEN 413 ELSE 500))
                       /\ job' = 0
                  ELSE conn' = c /\ job' = job
  BY DEF WorkerFeed
<1>2. /\ conn.open /\ job = Latest /\ ToolsTypes /\ TokenInv(conn, socket, Received)
      /\ Received = body /\ body \in Seq(Tokens)
  BY <1>0, WorkerHas
<1> DEFINE c == Parsed(n)
<1>3. TokenInv(c, Rest(n), body) /\ Begun(c) /\ Rest(n) \in Seq(Tokens)
  BY <1>2, ParsedKeeps, HttpToolsAssumption
<1>4. /\ socket' = Rest(n)
      /\ IF c.bad \/ c.large
           THEN /\ conn' = GivenBack(Answered([c EXCEPT !.large = FALSE], job,
                                              IF c.large THEN 413 ELSE 500))
                /\ job' = 0
           ELSE conn' = c /\ job' = job
  BY <1>1
<1> HIDE DEF c
<1>5. c \in ConnRecord /\ c.open /\ OutInv(c) /\ HandInv(c) /\ StreamInv(c, Rest(n))
  BY <1>0, <1>3 DEF TokenInv, OpenInv, BrokenInv
<1>6. /\ InHand(c) /\ Pending(c) /\ c.deferred = 0 /\ ~c.bad /\ ~Coming(Rest(n))
      /\ \A k \in DOMAIN Rest(n) : Rest(n)[k] = Unit(Latest)
      /\ c.need = Len(Rest(n)) + Owed /\ ~c.tracked
  BY <1>0, <1>5 DEF HandInv, InHand, StreamInv
<1>7. CASE c.large
  <2> DEFINE e == [c EXCEPT !.large = FALSE]
  <2>1. conn' = GivenBack(Answered(e, job, 413)) /\ job' = 0
    BY <1>4, <1>7
  <2>2. /\ e \in ConnRecord /\ e.out = c.out /\ e.need = c.need /\ e.bad = c.bad
        /\ ~e.large /\ e.deferred = c.deferred /\ e.open = c.open
    BY <1>5 DEF ConnRecord
  <2> HIDE DEF e
  <2>3. OutInv(e) /\ Pending(e)
    BY <1>5, <1>6, <2>2 DEF OutInv, Pending
  <2>4. /\ 413 \in Nat /\ 413 # 200 /\ socket' = Rest(n) /\ body' \in Seq(Tokens)
        /\ e.need = Len(Rest(n)) + Owed /\ ~e.bad /\ e.deferred = 0 /\ e.open
    BY <1>0, <1>2, <1>4, <1>5, <1>6, <2>2
  <2>5. QED
    BY <1>0, <1>2, <1>3, <1>6, <2>1, <2>2, <2>3, <2>4, AnswerKeeps
<1>8. CASE ~c.large
  <2>1. conn' = c /\ job' = job
    BY <1>4, <1>6, <1>8
  <2>2. Received' = body
    BY <1>0, <2>1 DEF Received
  <2>3. conn'.tracked = (job' = 0)
    BY <1>5, <2>1 DEF HandInv
  <2>4. QED
    BY <1>0, <1>2, <1>3, <1>4, <1>5, <1>6, <1>8, <2>1, <2>2, <2>3, FeedGoesOn
<1>9. QED
  BY <1>7, <1>8

\* All steps together.
LEMMA ToolsInvNext ==
  ToolsInv /\ ~Pipelining /\ [ToolsNext]_tvars => ToolsInv'
<1> SUFFICES ASSUME ToolsInv, ~Pipelining, [ToolsNext]_tvars
             PROVE  ToolsInv'
  OBVIOUS
<1>1. CASE Enter \/ Leave \/ ClientCloses \/ UNCHANGED tvars
  BY <1>1, ToolsQuiet DEF Enter, Leave, ClientCloses, clientVars, tvars
<1>2. CASE PeerIsGone \/ Sweep
  <2>1. /\ conn.tracked /\ UNCHANGED <<plan, units, socket, job, body>>
        /\ conn' = Closed(conn) \/ conn' = Closed(IF conn.idle THEN conn ELSE Canned(conn, 408))
    BY <1>2 DEF PeerIsGone, Sweep, clientVars
  <2>2. conn.open /\ ToolsTypes /\ OutInv(conn) /\ conn \in ConnRecord
    BY <2>1 DEF ToolsInv, ToolsTypes
  <2>3. HandInv(conn) /\ StageInv(conn) /\ ~conn.bad /\ ~conn.large /\ conn.deferred = 0 /\ job = 0
    BY <2>1, <2>2, ToolsInvOpens DEF HandInv
  <2>4. ~conn.idle => conn.started
    BY <2>3 DEF StageInv, InHand
  <2>5. conn' = Closed(conn)
    BY <2>1, <2>4 DEF Canned
  <2>6. QED
    BY <2>1, <2>2, <2>3, <2>5, CloseKeeps DEF ToolsTypes
<1>3. CASE Reset
  BY <1>3, ResetKeeps
<1>4. CASE Feed
  BY <1>4, FeedKeeps
<1>5. CASE Continue \/ WorkerTakes \/ WorkerFeed
  BY <1>5, ContinueKeeps, TakesKeeps, WorkerFeedKeeps
<1>6. CASE WorkerEnds
  BY <1>6, EndsKeeps
<1>7. CASE ClientSendsHead \/ ClientSendsUnit
  BY <1>7, SendsHeadKeeps, SendsUnitKeeps
<1>8. QED
  BY <1>1, <1>2, <1>3, <1>4, <1>5, <1>6, <1>7
     DEF ToolsNext, SelectorStep, WorkerReads, ClientStep, ToolsOver

\* And the invariant says what the module promises.
LEMMA ToolsInvSafe == ToolsInv => ToolsSafe
<1> SUFFICES ASSUME ToolsInv PROVE ToolsSafe
  OBVIOUS
<1>1. AnswersMatch
  <2>1. OutInv(conn) /\ conn \in ConnRecord /\ plan \in Seq(Asked)
    BY DEF ToolsInv, ToolsTypes
  <2>2. Len(conn.out) \in Nat /\ Latest \in Nat
    BY <2>1 DEF ConnRecord, Latest
  <2>3. QED
    BY <2>1, <2>2 DEF OutInv, AnswersMatch, Pending, Latest
<1>2. BodyIsItsOwn
  <2>1. SUFFICES ASSUME job # 0, NEW k \in DOMAIN (body \o conn.buf)
                 PROVE  (body \o conn.buf)[k] = Unit(job) /\ k <= plan[job].body
    BY DEF BodyIsItsOwn
  <2>2. /\ job = Latest /\ conn \in ConnRecord /\ InHand(conn) /\ HeldInv(conn, body)
        /\ body \in Seq(Tokens) /\ plan \in Seq(Asked) /\ Pending(conn)
    BY <2>1, WorkerHas
  <2>3. /\ \A j \in DOMAIN body : body[j] = Unit(Latest)
        /\ \A j \in DOMAIN conn.buf : conn.buf[j] = Unit(Latest)
        /\ Len(body) + Len(conn.buf) + conn.need <= plan[Latest].body
        /\ conn.buf \in Seq(Tokens) /\ conn.need \in Nat /\ Len(conn.out) \in Nat
    BY <2>2 DEF HeldInv, ConnRecord
  <2>4. plan[Latest].body \in Nat
    <3>1. Latest \in DOMAIN plan
      BY <2>2, <2>3 DEF Pending, Latest
    <3>2. plan[Latest] \in Asked
      BY <2>2, <3>1
    <3>3. QED
      BY <3>2 DEF Asked
  <2>5. /\ body \o conn.buf \in Seq(Tokens) /\ Len(body \o conn.buf) = Len(body) + Len(conn.buf)
        /\ \A j \in 1 .. Len(body \o conn.buf) :
              (body \o conn.buf)[j] = IF j <= Len(body) THEN body[j] ELSE conn.buf[j - Len(body)]
    BY <2>2, <2>3, ConcatProperties
  <2>6. k \in 1 .. Len(body) + Len(conn.buf) /\ Len(body) \in Nat /\ Len(conn.buf) \in Nat
    BY <2>1, <2>2, <2>3, <2>5
  <2>7. k \in DOMAIN body \/ (~(k <= Len(body)) /\ k - Len(body) \in DOMAIN conn.buf)
    BY <2>2, <2>3, <2>6
  <2>8. (body \o conn.buf)[k] = Unit(Latest)
    BY <2>2, <2>3, <2>5, <2>6, <2>7
  <2>9. k <= plan[Latest].body
    BY <2>3, <2>4, <2>6
  <2>10. QED
    BY <2>2, <2>8, <2>9
<1>3. OneParserOwner
  BY WorkerHas DEF OneParserOwner
<1>4. QED
  BY <1>1, <1>2, <1>3 DEF ToolsSafe

-----------------------------------------------------------------------------
(***************************************************************************)
(* The parts together (FrontEnds).                                         *)
(***************************************************************************)

PartsInv == HostInv /\ WsgiInv /\ BodyInv /\ WireInv

LEMMA PartsInvInit == FrontEndsInit => PartsInv
  BY HostInvInit, WsgiInvInit, BodyInvInit, WireInvInit DEF FrontEndsInit, PartsInv

\* A step of one part is none of the others.
LEMMA PartsInvNext == PartsInv /\ [FrontEndsNext]_fvars => PartsInv'
<1> SUFFICES ASSUME PartsInv, [FrontEndsNext]_fvars PROVE PartsInv'
  OBVIOUS
<1>1. [Next]_vars /\ [WsgiNext]_wvars /\ [HostNext]_hvars
  BY DEF FrontEndsNext, OnBridge, OnHost, OnWsgi, OnTools, fvars
<1>2. QED
  BY <1>1, HostInvNext, WsgiInvNext, BodyInvNext, WireInvNext DEF PartsInv

\* The httptools way, if its client does not pipeline.
LEMMA ToolsWayIsSafe == ~Pipelining => (FrontEndsSpec => []ToolsInv)
<1> SUFFICES ASSUME ~Pipelining PROVE FrontEndsSpec => []ToolsInv
  OBVIOUS
<1>1. FrontEndsInit => ToolsInv
  BY ToolsInvInit DEF FrontEndsInit
<1>2. ToolsInv /\ [FrontEndsNext]_fvars => ToolsInv'
  <2> SUFFICES ASSUME ToolsInv, [FrontEndsNext]_fvars PROVE ToolsInv'
    OBVIOUS
  <2>1. [ToolsNext]_tvars
    BY DEF FrontEndsNext, OnBridge, OnHost, OnWsgi, OnTools, fvars
  <2>2. QED
    BY <2>1, ToolsInvNext
<1>3. QED
  BY <1>1, <1>2, PTL DEF FrontEndsSpec

LEMMA PartsAreSafe == FrontEndsSpec => []PartsInv
  BY PartsInvInit, PartsInvNext, PTL DEF FrontEndsSpec

\* No request is dispatched before every service beside it has started, unless
\* the only one there is has died: HostRSGIApp's gate, for any services.
THEOREM HostGateHolds ==
  /\ HostSpec => []NoHalfStartedHost
  /\ FrontEndsSpec => []NoHalfStartedHost
<1>1. HostSpec => []NoHalfStartedHost
  BY HostInvInit, HostInvNext, HostInvSafe, PTL DEF HostSpec
<1>2. PartsInv => NoHalfStartedHost
  BY HostInvSafe DEF PartsInv
<1>3. QED
  BY <1>1, <1>2, PartsAreSafe, PTL

\* wrap_wsgi sends every chunk its application yields and closes its iterable
\* once if anything of it was taken or committed, an error after the head aborts
\* the response, and to_wsgi answers only for a handler that has: for any body,
\* cap and number of chunks.
THEOREM WsgiBorderIsFaithful ==
  /\ WsgiSpec => []WsgiFaithful
  /\ FrontEndsSpec => []WsgiFaithful
<1>1. WsgiSpec => []WsgiFaithful
  BY WsgiInvInit, WsgiInvNext, WsgiInvSafe, PTL DEF WsgiSpec
<1>2. PartsInv => WsgiFaithful
  BY WsgiInvSafe DEF PartsInv
<1>3. QED
  BY <1>1, <1>2, PartsAreSafe, PTL

\* On the ASGI and RSGI bridges the handler reads the body in order and without
\* holes, can tell a lost peer from the end of the body under ASGI, and a
\* response that was started is closed once: for any body, sizes, caps and
\* number of chunks, however pump, watcher and handler interleave.
THEOREM BridgeBodyAndResponse ==
  /\ Spec => []BodyAndResponse
  /\ FrontEndsSpec => []BodyAndResponse
<1>1. Spec => [](BodyInv /\ WireInv)
  BY BodyInvInit, WireInvInit, BodyInvNext, WireInvNext, PTL DEF Spec
<1>2. PartsInv => BodyAndResponse
  BY BridgeInvSafe DEF PartsInv
<1>3. QED
  BY <1>1, <1>2, BridgeInvSafe, PartsAreSafe, PTL

\* On a connection of the httptools backend whose client waits for an answer
\* before it sends its next request, answer k is that to request k, whoever
\* gives it; a handler reads its own request's bytes and no others; and no
\* worker runs while the selector has the parser: for any number of requests,
\* bodies, caps, handlers and sizes of what one recv returns, and a client that
\* goes on without the body it announced (HTTPConn._feed, on_headers_complete).
THEOREM ToolsConnectionIsSafe ==
  /\ ~Pipelining => (ToolsSpec => []ToolsSafe)
  /\ ~Pipelining => (FrontEndsSpec => []ToolsSafe)
<1>1. ASSUME ~Pipelining PROVE ToolsSpec => []ToolsSafe
  <2>1. ToolsInv /\ [ToolsNext]_tvars => ToolsInv'
    BY <1>1, ToolsInvNext
  <2>2. QED
    BY <2>1, ToolsInvInit, ToolsInvSafe, PTL DEF ToolsSpec
<1>2. ASSUME ~Pipelining PROVE FrontEndsSpec => []ToolsSafe
  <2>1. FrontEndsSpec => []ToolsInv
    BY <1>2, ToolsWayIsSafe
  <2>2. QED
    BY <2>1, ToolsInvSafe, PTL
<1>3. QED
  BY <1>1, <1>2
=============================================================================
