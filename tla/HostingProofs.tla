---------------------------- MODULE HostingProofs ----------------------------
(***************************************************************************)
(* Proofs about Hosting, for any tree of services of any kinds.            *)
(***************************************************************************)
EXTENDS Hosting, TLAPS

PcValues == InBody \cup {"unborn", "new", "ended", "cleanup", "stopped"}

\* The part of TypeOK that the argument below needs.
PcOK == pc \in [Services -> PcValues]

-----------------------------------------------------------------------------
\* The steps of _run between its first and its last await: the service goes on,
\* and has not left its task group.
GoesOn(s) == \E v \in InBody \cup {"ended"} :
                pc[s] \in InBody /\ pc' = [pc EXCEPT ![s] = v]

\* Every step either leaves every pc alone, or moves one service in one of
\* four ways.
LEMMA PcCases ==
  ASSUME [Next]_vars
  PROVE  \/ UNCHANGED pc
         \/ \E s \in Services : Begin(s) \/ GoesOn(s) \/ TasksDone(s) \/ Stopped(s)
<1>1. ASSUME NEW s \in Services, CancelBody(s) PROVE GoesOn(s)
  BY <1>1 DEF CancelBody, GoesOn
<1>2. ASSUME NEW s \in Services, WaitAll(s) PROVE GoesOn(s)
  BY <1>2 DEF WaitAll, EndBody, GoesOn, InBody
<1>3. ASSUME NEW s \in Services, LeftServe(s) PROVE GoesOn(s)
  BY <1>3 DEF LeftServe, EndBody, GoesOn, InBody
<1>4. ASSUME NEW s \in Services, LeafEnds(s) PROVE GoesOn(s)
  BY <1>4 DEF LeafEnds, EndBody, GoesOn, InBody
<1>5. ASSUME NEW s \in Services, Entered(s) PROVE GoesOn(s)
  BY <1>5 DEF Entered, GoesOn, InBody
<1>6. ASSUME NEW s \in Services, LeaveServe(s) PROVE GoesOn(s)
  BY <1>6 DEF LeaveServe, GoesOn, InBody
<1>7. ASSUME NEW s \in Services,
             \/ Propagate(s) \/ Bind(s) \/ WatchEnds(s) \/ SetStarted(s)
             \/ ApplicationShutdown(s) \/ StartTimeout(s)
      PROVE  UNCHANGED pc
  BY <1>7 DEF Propagate, Bind, WatchEnds, SetStarted, ApplicationShutdown,
              StartTimeout, runVars
<1>8. HandleSignal => UNCHANGED pc
  BY DEF HandleSignal
<1>9. UNCHANGED vars => UNCHANGED pc
  BY DEF vars, runVars
<1>10. QED
  BY <1>1, <1>2, <1>3, <1>4, <1>5, <1>6, <1>7, <1>8, <1>9 DEF Next, LoopStep

-----------------------------------------------------------------------------
\* The first await of a service function is in its body.
LEMMA FirstAwaitInBody == \A s \in Services : FirstAwait(s) \in InBody
  BY DEF FirstAwait, InBody

\* A fresh tree is well typed.
LEMMA PcInit == Init => PcOK
  BY DEF Init, PcOK, PcValues

\* Every step of _run leads to a known place.
LEMMA PcStep == PcOK /\ [Next]_vars => PcOK'
<1> SUFFICES ASSUME PcOK, [Next]_vars PROVE PcOK'
  OBVIOUS
<1>1. ASSUME NEW s \in Services, Begin(s) PROVE PcOK'
  BY <1>1, FirstAwaitInBody DEF Begin, PcOK, PcValues
<1>2. ASSUME NEW s \in Services, GoesOn(s) PROVE PcOK'
  BY <1>2 DEF GoesOn, PcOK, PcValues
<1>3. ASSUME NEW s \in Services, TasksDone(s) PROVE PcOK'
  BY <1>3 DEF TasksDone, PcOK, PcValues
<1>4. ASSUME NEW s \in Services, Stopped(s) PROVE PcOK'
  BY <1>4 DEF Stopped, PcOK, PcValues
<1>5. UNCHANGED pc => PcOK'
  BY DEF PcOK
<1>6. QED
  BY <1>1, <1>2, <1>3, <1>4, <1>5, PcCases

\* No service is its own parent.
LEMMA ParentIsOther ==
  ASSUME NEW c \in Services \ {Root}
  PROVE  Parent[c] \in Services /\ Parent[c] # c
  BY HostingAssumption

\* ResourcesOutliveTasks is inductive: _run leaves its task group only when
\* every child has stopped, and starts children only while it is in it.
LEMMA ResourcesStep ==
  PcOK /\ ResourcesOutliveTasks /\ [Next]_vars => ResourcesOutliveTasks'
<1> SUFFICES ASSUME PcOK, ResourcesOutliveTasks, [Next]_vars,
                    NEW c \in Services \ {Root},
                    pc'[c] \notin {"unborn", "stopped"}
             PROVE  pc'[Parent[c]] \notin {"cleanup", "stopped"}
  BY DEF ResourcesOutliveTasks
<1>0. Parent[c] \in Services /\ Parent[c] # c /\ c \in Services
  BY ParentIsOther
<1>a. pc[c] \notin {"unborn", "stopped"} => pc[Parent[c]] \notin {"cleanup", "stopped"}
  BY DEF ResourcesOutliveTasks
<1>1. ASSUME NEW s \in Services, Begin(s)
      PROVE  pc'[Parent[c]] \notin {"cleanup", "stopped"}
  <2>1. s = Parent[c] => pc'[s] \in InBody
    BY <1>1, <1>0, FirstAwaitInBody DEF Begin
  <2>2. s # Parent[c] => c \notin Children(s)
    BY DEF Children
  <2>3. CASE s = Parent[c]
    BY <2>1, <2>3 DEF InBody
  <2>4. CASE s # Parent[c]
    <3>1. pc[c] \notin {"unborn", "stopped"}
      BY <1>1, <1>0, <2>2, <2>4 DEF Begin
    <3>2. pc'[Parent[c]] \in {"new", pc[Parent[c]]}
      BY <1>1, <1>0, <2>4 DEF Begin
    <3>3. QED
      BY <3>1, <3>2, <1>a
  <2>5. QED
    BY <2>3, <2>4
<1>2. ASSUME NEW s \in Services, GoesOn(s)
      PROVE  pc'[Parent[c]] \notin {"cleanup", "stopped"}
  BY <1>2, <1>0, <1>a DEF GoesOn, PcOK, InBody
<1>3. ASSUME NEW s \in Services, TasksDone(s)
      PROVE  pc'[Parent[c]] \notin {"cleanup", "stopped"}
  BY <1>3, <1>0, <1>a DEF TasksDone, AllStopped, Children, PcOK
<1>4. ASSUME NEW s \in Services, Stopped(s)
      PROVE  pc'[Parent[c]] \notin {"cleanup", "stopped"}
  BY <1>4, <1>0, <1>a DEF Stopped, PcOK
<1>5. UNCHANGED pc => pc'[Parent[c]] \notin {"cleanup", "stopped"}
  BY <1>a
<1>6. QED
  BY <1>1, <1>2, <1>3, <1>4, <1>5, PcCases

\* What a service deferred is released only after every service in its task
\* group has stopped (_run), whatever the shape of the tree and however
\* crashes, shutdowns, cancellations and timeouts fall.
THEOREM HostingResources == Spec => []ResourcesOutliveTasks
<1>1. Init => PcOK /\ ResourcesOutliveTasks
  <2>1. Init => PcOK
    BY PcInit
  <2>2. Init => ResourcesOutliveTasks
    BY HostingAssumption DEF Init, ResourcesOutliveTasks
  <2>3. QED
    BY <2>1, <2>2
<1>2. PcOK /\ ResourcesOutliveTasks /\ [Next]_vars
        => PcOK' /\ ResourcesOutliveTasks'
  BY PcStep, ResourcesStep
<1>3. QED
  BY <1>1, <1>2, PTL DEF Spec

-----------------------------------------------------------------------------
\* shutdown keeps the events Boolean.
LEMMA ShutDownType ==
  ASSUME NEW ss, TypeOK, ShutDown(ss)
  PROVE  shutting_down' \in [Services -> BOOLEAN]
  BY DEF ShutDown, TypeOK

\* So does the end of a service function.
LEMMA EndBodyType ==
  ASSUME NEW s \in Services, NEW f \in BOOLEAN, TypeOK, EndBody(s, f),
         shutting_down' \in [Services -> BOOLEAN]
  PROVE  TypeOK'
<1>1. raised' \in [Services -> BOOLEAN]
  BY DEF EndBody, TypeOK
<1>2. cancelled' \in [Services -> BOOLEAN]
  BY DEF EndBody, TypeOK
<1>3. QED
  BY <1>1, <1>2 DEF EndBody, TypeOK, taskVars, sigVars

\* TypeOK is inductive.
LEMMA TypeStep == TypeOK /\ [Next]_vars => TypeOK'
<1> SUFFICES ASSUME TypeOK, [Next]_vars PROVE TypeOK'
  OBVIOUS
<1>1. ASSUME NEW s \in Services, Begin(s) PROVE TypeOK'
  <2>1. pc' \in [Services -> PcValues]
    BY <1>1, FirstAwaitInBody DEF Begin, TypeOK, PcValues
  <2>2. helper' \in [Services -> BOOLEAN] /\ watch' \in [Services -> BOOLEAN]
    BY <1>1 DEF Begin, TypeOK
  <2>3. QED
    BY <1>1, <2>1, <2>2 DEF Begin, TypeOK, PcValues, eventVars
<1>2. ASSUME NEW s \in Services, CancelBody(s) PROVE TypeOK'
  <2>1. helper' \in [Services -> BOOLEAN]
    BY <1>2 DEF CancelBody, TypeOK
  <2>2. QED
    BY <1>2, <2>1 DEF CancelBody, TypeOK, eventVars, sigVars
<1>3. ASSUME NEW s \in Services, WaitAll(s) PROVE TypeOK'
  BY <1>3, EndBodyType DEF WaitAll, TypeOK
<1>4. ASSUME NEW s \in Services, Propagate(s) PROVE TypeOK'
  BY <1>4, ShutDownType DEF Propagate, TypeOK, runVars, sigVars
<1>5. ASSUME NEW s \in Services, Entered(s) PROVE TypeOK'
  BY <1>5 DEF Entered, TypeOK, InBody, taskVars, sigVars
<1>6. ASSUME NEW s \in Services, Bind(s) PROVE TypeOK'
  BY <1>6, ShutDownType DEF Bind, TypeOK, runVars, sigVars
<1>7. ASSUME NEW s \in Services, LeaveServe(s) PROVE TypeOK'
  BY <1>7, ShutDownType DEF LeaveServe, TypeOK, InBody, sigVars
<1>8. ASSUME NEW s \in Services, LeftServe(s) PROVE TypeOK'
  BY <1>8, EndBodyType DEF LeftServe, TypeOK
<1>9. ASSUME NEW s \in Services, WatchEnds(s) PROVE TypeOK'
  BY <1>9 DEF WatchEnds, TypeOK, eventVars, runVars, sigVars
<1>10. ASSUME NEW s \in Services, TasksDone(s) PROVE TypeOK'
  BY <1>10 DEF TasksDone, TypeOK, eventVars
<1>11. ASSUME NEW s \in Services, Stopped(s) PROVE TypeOK'
  <2>1. Outcomes(s) \subseteq {"none", "cancelled", "error"}
    BY DEF Outcomes
  <2>2. exception' \in [Services -> {"none", "cancelled", "error"}]
    BY <1>11, <2>1 DEF Stopped, TypeOK
  <2>3. QED
    BY <1>11, <2>2 DEF Stopped, TypeOK, eventVars, taskVars, sigVars
<1>12. ASSUME NEW s \in Services, SetStarted(s) PROVE TypeOK'
  BY <1>12 DEF SetStarted, TypeOK, runVars, taskVars, sigVars
<1>13. ASSUME NEW s \in Services, LeafEnds(s) PROVE TypeOK'
  BY <1>13, EndBodyType DEF LeafEnds, TypeOK
<1>14. ASSUME NEW s \in Services, ApplicationShutdown(s) PROVE TypeOK'
  BY <1>14, ShutDownType DEF ApplicationShutdown, TypeOK, runVars, taskVars, sigVars
<1>15. ASSUME NEW s \in Services, StartTimeout(s) PROVE TypeOK'
  BY <1>15 DEF StartTimeout, TypeOK, eventVars, sigVars
<1>16. ASSUME HandleSignal PROVE TypeOK'
  <2>1. shutting_down' \in [Services -> BOOLEAN] /\ cancelled' \in [Services -> BOOLEAN]
    BY <1>16, ShutDownType, HostingAssumption, ZenonT(60) DEF HandleSignal, TypeOK
  <2>2. QED
    BY <1>16, <2>1 DEF HandleSignal, TypeOK, taskVars
<1>17. UNCHANGED vars => TypeOK'
  BY DEF vars, TypeOK, eventVars, runVars, taskVars, sigVars
<1>18. QED
  BY <1>1, <1>2, <1>3, <1>4, <1>5, <1>6, <1>7, <1>8, <1>9, <1>10, <1>11, <1>12,
     <1>13, <1>14, <1>15, <1>16, <1>17 DEF Next, LoopStep

\* Every reachable state is well typed; lt.exception has no value that _run
\* does not set.
THEOREM HostingTypeOK == Spec => []TypeOK
<1>1. Init => TypeOK
  BY DEF Init, TypeOK
<1>2. QED
  BY <1>1, TypeStep, PTL DEF Spec

-----------------------------------------------------------------------------
\* Each wait belongs to one kind of service.
KindsOK ==
    \A s \in Services :
        /\ pc[s] = "body" => Kind[s] = "leaf"
        /\ pc[s] \in {"wait_started", "inside", "leaving"} => Kind[s] = "serve"

\* The children of the root are started by its own first step.
RootFirst ==
    pc[Root] = "new" => \A c \in Children(Root) : pc[c] = "unborn"

\* Why the scope of a _run_many root may be cancelled.
RootCancelled ==
    Kind[Root] = "many" /\ cancelled[Root] =>
        forced \/ raised[Root] \/ AllStopped(Root)

SInv == TypeOK /\ KindsOK /\ RootFirst /\ RootCancelled /\ SiblingsSurvive

\* Every step keeps each wait with its kind.
LEMMA KindsStep == TypeOK /\ KindsOK /\ [Next]_vars => KindsOK'
<1> SUFFICES ASSUME TypeOK, KindsOK, [Next]_vars, NEW t \in Services
             PROVE  /\ pc'[t] = "body" => Kind[t] = "leaf"
                    /\ pc'[t] \in {"wait_started", "inside", "leaving"}
                         => Kind[t] = "serve"
  BY DEF KindsOK
<1> DEFINE G == /\ pc'[t] = "body" => Kind[t] = "leaf"
                /\ pc'[t] \in {"wait_started", "inside", "leaving"}
                     => Kind[t] = "serve"
<1>0. /\ pc \in [Services -> PcValues]
      /\ Kind[t] \in {"many", "serve", "leaf"}
      /\ pc[t] = "body" => Kind[t] = "leaf"
      /\ pc[t] \in {"wait_started", "inside", "leaving"} => Kind[t] = "serve"
  BY HostingAssumption DEF TypeOK, PcValues, KindsOK
<1>1. ASSUME NEW s \in Services, Begin(s) PROVE G
  BY <1>0, <1>1 DEF Begin, FirstAwait
<1>2. ASSUME NEW s \in Services,
             pc' = [pc EXCEPT ![s] = "ended"] \/ pc' = [pc EXCEPT ![s] = "cleanup"]
               \/ pc' = [pc EXCEPT ![s] = "stopped"] \/ UNCHANGED pc
      PROVE  G
  BY <1>0, <1>2
<1>3. ASSUME NEW s \in Services, Entered(s) PROVE G
  BY <1>0, <1>3 DEF Entered
<1>4. ASSUME NEW s \in Services, LeaveServe(s) PROVE G
  BY <1>0, <1>4 DEF LeaveServe
<1>5. ASSUME NEW s \in Services, LoopStep(s) PROVE G
  BY <1>1, <1>2, <1>3, <1>4, <1>5
     DEF LoopStep, CancelBody, WaitAll, Propagate, Bind, LeftServe, EndBody,
         WatchEnds, TasksDone, Stopped, runVars
<1>6. ASSUME NEW s \in Services,
             SetStarted(s) \/ LeafEnds(s) \/ ApplicationShutdown(s) \/ StartTimeout(s)
      PROVE  G
  BY <1>2, <1>6
     DEF SetStarted, LeafEnds, EndBody, ApplicationShutdown, StartTimeout, runVars
<1>7. HandleSignal \/ UNCHANGED vars => G
  BY <1>0 DEF HandleSignal, vars, runVars
<1>8. QED
  BY <1>5, <1>6, <1>7 DEF Next

\* The root's children stay unborn until it begins, and then stopped is for
\* ever: nobody starts them a second time.
LEMMA RootFirstStep ==
  ASSUME TypeOK, RootFirst, [Next]_vars
  PROVE  RootFirst' /\ (AllStopped(Root) => AllStopped(Root)')
<1>0. /\ pc \in [Services -> PcValues] /\ Root \in Services
      /\ Children(Root) \subseteq Services \ {Root}
      /\ \A s : Root \notin Children(s)
      /\ \A s \in Services : \A c \in Children(s) : Parent[c] = s
  BY HostingAssumption DEF TypeOK, PcValues, Children
<1>1. ASSUME NEW s \in Services, Begin(s)
      PROVE  RootFirst' /\ (AllStopped(Root) => AllStopped(Root)')
  <2>1. CASE s = Root
    <3>1. pc'[Root] # "new"
      BY <1>0, <1>1, <2>1, FirstAwaitInBody DEF Begin, InBody
    <3>2. AllStopped(Root) => Children(Root) = {}
      BY <1>1, <2>1 DEF Begin, RootFirst, AllStopped
    <3>3. QED
      BY <3>1, <3>2 DEF RootFirst, AllStopped
  <2>2. CASE s # Root
    <3>1. /\ pc[s] = "new" /\ pc'[Root] = pc[Root]
          /\ \A c \in Children(Root) : c # s => pc'[c] = pc[c]
      BY <1>0, <1>1, <2>2 DEF Begin
    <3>2. AllStopped(Root) => AllStopped(Root)'
      BY <3>1 DEF AllStopped
    <3>3. RootFirst'
      BY <3>1 DEF RootFirst
    <3>4. QED
      BY <3>2, <3>3
  <2>3. QED
    BY <2>1, <2>2
<1>2. ASSUME NEW s \in Services, GoesOn(s)
      PROVE  RootFirst' /\ (AllStopped(Root) => AllStopped(Root)')
  BY <1>0, <1>2 DEF GoesOn, RootFirst, AllStopped, InBody
<1>3. ASSUME NEW s \in Services, TasksDone(s)
      PROVE  RootFirst' /\ (AllStopped(Root) => AllStopped(Root)')
  <2>1. pc[s] = "ended" /\ pc' = [pc EXCEPT ![s] = "cleanup"]
    BY <1>3 DEF TasksDone
  <2>2. QED
    BY <1>0, <2>1 DEF RootFirst, AllStopped
<1>4. ASSUME NEW s \in Services, Stopped(s)
      PROVE  RootFirst' /\ (AllStopped(Root) => AllStopped(Root)')
  BY <1>0, <1>4 DEF Stopped, RootFirst, AllStopped
<1>5. UNCHANGED pc => RootFirst' /\ (AllStopped(Root) => AllStopped(Root)')
  BY DEF RootFirst, AllStopped
<1>6. QED
  BY <1>1, <1>2, <1>3, <1>4, <1>5, PcCases

\* What becomes of the flags of the root in one step.
LEMMA RootFlags ==
  ASSUME TypeOK, [Next]_vars
  PROVE  /\ forced => forced'
         /\ raised[Root] => raised'[Root]
         /\ \/ cancelled'[Root] = cancelled[Root]
            \/ WaitAll(Root) \/ LeftServe(Root) \/ LeafEnds(Root)
            \/ raised'[Root] \/ forced'
<1> DEFINE G == /\ forced => forced'
                /\ raised[Root] => raised'[Root]
                /\ \/ cancelled'[Root] = cancelled[Root]
                   \/ WaitAll(Root) \/ LeftServe(Root) \/ LeafEnds(Root)
                   \/ raised'[Root] \/ forced'
<1>0. /\ raised \in [Services -> BOOLEAN] /\ cancelled \in [Services -> BOOLEAN]
      /\ Root \in Services
  BY HostingAssumption DEF TypeOK
<1>1. ASSUME NEW s \in Services, NEW f \in BOOLEAN, EndBody(s, f)
      PROVE  /\ forced' = forced
             /\ raised[Root] => raised'[Root]
             /\ s # Root => cancelled'[Root] = cancelled[Root]
  BY <1>0, <1>1 DEF EndBody, sigVars
<1>2. ASSUME NEW s \in Services, WaitAll(s) \/ LeftServe(s) \/ LeafEnds(s) PROVE G
  <2>1. PICK f \in BOOLEAN : EndBody(s, f)
    BY <1>2 DEF WaitAll, LeftServe, LeafEnds
  <2>2. QED
    BY <1>1, <1>2, <2>1
<1>3. ASSUME NEW s \in Services, StartTimeout(s) PROVE G
  BY <1>0, <1>3 DEF StartTimeout, sigVars
<1>4. HandleSignal => G
  BY DEF HandleSignal
<1>5. ASSUME UNCHANGED <<cancelled, raised, forced>> PROVE G
  BY <1>5
<1>6. ASSUME NEW s \in Services, LoopStep(s) PROVE G
  BY <1>2, <1>5, <1>6
     DEF LoopStep, Begin, CancelBody, Propagate, Entered, Bind, LeaveServe,
         WatchEnds, TasksDone, Stopped, runVars, sigVars
<1>7. ASSUME NEW s \in Services, SetStarted(s) \/ ApplicationShutdown(s) PROVE G
  BY <1>5, <1>7 DEF SetStarted, ApplicationShutdown, runVars, sigVars
<1>8. UNCHANGED vars => G
  BY <1>5 DEF vars, runVars, sigVars
<1>9. QED
  BY <1>2, <1>3, <1>4, <1>6, <1>7, <1>8 DEF Next

\* Only Stopped sets lt.exception.
LEMMA ExceptionCases ==
  ASSUME [Next]_vars
  PROVE  UNCHANGED exception \/ \E s \in Services : Stopped(s)
  BY DEF Next, LoopStep, Begin, CancelBody, WaitAll, Propagate, Entered, Bind,
         LeaveServe, LeftServe, WatchEnds, TasksDone, SetStarted, LeafEnds,
         ApplicationShutdown, StartTimeout, HandleSignal, EndBody, vars, runVars

\* A child of the root runs in the root's scope and in no other.
LEMMA ScopeOfChild ==
  ASSUME NEW c \in Children(Root)
  PROVE  c \in Services /\ (CancelledAround(c) => cancelled[Root])
  BY HostingAssumption DEF Children, CancelledAround

\* SInv is inductive.
LEMMA SiblingsStep == SInv /\ [Next]_vars => SInv'
<1> SUFFICES ASSUME SInv, [Next]_vars PROVE SInv'
  OBVIOUS
<1>1. TypeOK' /\ KindsOK' /\ RootFirst' /\ (AllStopped(Root) => AllStopped(Root)')
  BY TypeStep, KindsStep, RootFirstStep DEF SInv
<1>2. RootCancelled'
  <2> SUFFICES ASSUME Kind[Root] = "many", cancelled'[Root]
               PROVE  forced' \/ raised'[Root] \/ AllStopped(Root)'
    BY DEF RootCancelled
  <2>1. CASE cancelled[Root]
    BY <1>1, <2>1, RootFlags DEF SInv, RootCancelled
  <2>2. CASE WaitAll(Root)
    BY <1>1, <2>2 DEF WaitAll
  <2>3. ~LeftServe(Root) /\ ~LeafEnds(Root)
    BY HostingAssumption DEF LeftServe, LeafEnds, SInv, KindsOK
  <2>4. QED
    BY <2>1, <2>2, <2>3, RootFlags DEF SInv
<1>3. SiblingsSurvive'
  <2> SUFFICES ASSUME Kind[Root] = "many", NEW c \in Children(Root),
                      exception'[c] = "cancelled"
               PROVE  forced' \/ raised'[Root]
    BY DEF SiblingsSurvive
  <2>1. CASE exception[c] = "cancelled"
    BY <2>1, RootFlags DEF SInv, SiblingsSurvive
  <2>2. CASE exception[c] # "cancelled"
    <3>1. PICK s \in Services : Stopped(s)
      BY <2>2, ExceptionCases
    <3>2. s = c
      BY <2>2, <3>1, ScopeOfChild DEF Stopped, SInv, TypeOK
    <3>3. "cancelled" \in Outcomes(c)
      BY <3>1, <3>2, ScopeOfChild DEF Stopped, SInv, TypeOK
    <3>4. CancelledAround(c)
      BY <3>3 DEF Outcomes
    <3>5. cancelled[Root] /\ pc[c] = "cleanup"
      BY <3>1, <3>2, <3>4, ScopeOfChild DEF Stopped
    <3>6. ~AllStopped(Root)
      BY <3>5 DEF AllStopped
    <3>7. QED
      BY <3>5, <3>6, RootFlags DEF SInv, RootCancelled
  <2>3. QED
    BY <2>1, <2>2
<1>4. QED
  BY <1>1, <1>2, <1>3 DEF SInv

\* The end of one service under _run_many, crash or not, never cancels its
\* siblings: only a forced stop or the root's own failure does.
THEOREM HostingSiblings == Spec => []SiblingsSurvive
<1>1. Init => SInv
  <2>1. Init => TypeOK
    BY DEF Init, TypeOK
  <2>2. Init => KindsOK /\ RootFirst /\ RootCancelled
    BY HostingAssumption DEF Init, KindsOK, RootFirst, RootCancelled, Children
  <2>3. Init => SiblingsSurvive
    BY DEF Init, SiblingsSurvive, Children
  <2>4. QED
    BY <2>1, <2>2, <2>3 DEF SInv
<1>2. SInv => SiblingsSurvive
  BY DEF SInv
<1>3. QED
  BY <1>1, <1>2, SiblingsStep, PTL DEF Spec
=============================================================================
