------------------------------ MODULE HostRsgi -------------------------------
(***************************************************************************)
(* A whole host inside a Granian worker: localpost/hosting/rsgi.py, over   *)
(* serve() of hosting/_host.py, which the module Hosting describes in full.*)
(*                                                                         *)
(* Granian calls __rsgi_init__ and __rsgi_del__ without awaiting; requests *)
(* wait at a gate, _ready, that the lifecycle task opens.  The services    *)
(* are leaves here, and several of them run under _compose_started.        *)
(***************************************************************************)
EXTENDS Integers, FiniteSets

CONSTANTS
    Background,     \* the services that may be passed to HostRSGIApp
    Requests,       \* the requests of one worker
    MayFailToStart  \* services that may end before they have started

ASSUME HostRsgiAssumption == MayFailToStart \subseteq Background

VARIABLES
    services,   \* the services of this application
    lifecycle,  \* "none", "entering", "held", "exiting", "over"
    ready,      \* the event _ready; TRUE where there is none
    signal,     \* the event _shutdown_signal
    up,         \* per service: it has called set_started
    ended,      \* per service: it has stopped
    told,       \* shutdown() of the root has reached the services
    rootUp,     \* the root has started
    rootEnded,  \* the root has stopped
    request     \* "coming", "waiting" or "dispatched"

svcVars  == <<up, ended, told>>
rootVars == <<rootUp, rootEnded>>
hvars == <<services, lifecycle, ready, signal, svcVars, rootVars, request>>

Composed == Cardinality(services) > 1

-----------------------------------------------------------------------------
\* After __rsgi_init__.  An application without services has no gate.
HostInit ==
    /\ services \in SUBSET Background
    /\ lifecycle = IF services = {} THEN "none" ELSE "entering"
    /\ ready = (services = {}) /\ signal = FALSE /\ told = FALSE
    /\ up = [s \in Background |-> FALSE] /\ ended = [s \in Background |-> FALSE]
    /\ rootUp = FALSE /\ rootEnded = FALSE
    /\ request = [r \in Requests |-> "coming"]

ServiceStarts(s) ==
    /\ s \in services /\ ~up[s] /\ ~ended[s]
    /\ up' = [up EXCEPT ![s] = TRUE]
    /\ UNCHANGED <<services, lifecycle, ready, signal, ended, told, rootVars, request>>

\* A service ends by itself, or because it was told to.
ServiceEnds(s) ==
    /\ s \in services /\ ~ended[s]
    /\ up[s] \/ s \in MayFailToStart
    /\ ended' = [ended EXCEPT ![s] = TRUE]
    /\ UNCHANGED <<services, lifecycle, ready, signal, up, told, rootVars, request>>

ServiceObeys(s) == told /\ ServiceEnds(s)

\* A single service is the root itself.  _compose_started marks its parent as
\* started once every child has reported.
RootStarts ==
    /\ lifecycle # "none" /\ ~rootUp /\ \A s \in services : up[s]
    /\ rootUp' = TRUE
    /\ UNCHANGED <<services, lifecycle, ready, signal, svcVars, rootEnded, request>>

\* The root has stopped with its services.  _compose_started gets so far only
\* past its wait for the started events.
RootEnds ==
    /\ lifecycle # "none" /\ ~rootEnded
    /\ \A s \in services : ended[s]
    /\ Composed => rootUp
    /\ rootEnded' = TRUE
    /\ UNCHANGED <<services, lifecycle, ready, signal, svcVars, rootUp, request>>

\* _lifecycle: serve() has been entered, for the root has started or stopped.
GateOpensEarly ==   \* mutant: the gate opens before serve() is entered
    /\ lifecycle = "entering"
    /\ ready' = TRUE
    /\ lifecycle' = IF rootUp \/ rootEnded THEN "held" ELSE lifecycle
    /\ UNCHANGED <<services, signal, svcVars, rootVars, request>>

GateOpens ==
    /\ lifecycle = "entering" /\ (rootUp \/ rootEnded)
    /\ ready' = TRUE /\ lifecycle' = "held"
    /\ UNCHANGED <<services, signal, svcVars, rootVars, request>>

\* __rsgi_del__, at any time.
Del ==
    /\ lifecycle # "none" /\ ~signal /\ signal' = TRUE
    /\ UNCHANGED <<services, lifecycle, ready, svcVars, rootVars, request>>

\* The end of "async with serve(root)": shutdown, propagated to the services,
\* and the wait for stopped.
ExitSilently ==     \* mutant: nothing propagates the shutdown to the children
    /\ lifecycle = "held" /\ signal
    /\ lifecycle' = "exiting" /\ told' = ~Composed
    /\ UNCHANGED <<services, ready, signal, up, ended, rootVars, request>>

Exit ==
    /\ lifecycle = "held" /\ signal
    /\ lifecycle' = "exiting" /\ told' = TRUE
    /\ UNCHANGED <<services, ready, signal, up, ended, rootVars, request>>

Over ==
    /\ lifecycle = "exiting" /\ rootEnded
    /\ lifecycle' = "over" /\ ready' = TRUE
    /\ UNCHANGED <<services, signal, svcVars, rootVars, request>>

\* __rsgi__: the request waits at the gate, and is dispatched.
Arrive(r) ==
    /\ request[r] = "coming"
    /\ request' = [request EXCEPT ![r] = IF ready THEN "dispatched" ELSE "waiting"]
    /\ UNCHANGED <<services, lifecycle, ready, signal, svcVars, rootVars>>

PassGate(r) ==
    /\ request[r] = "waiting" /\ ready
    /\ request' = [request EXCEPT ![r] = "dispatched"]
    /\ UNCHANGED <<services, lifecycle, ready, signal, svcVars, rootVars>>

-----------------------------------------------------------------------------
HostStep == RootStarts \/ RootEnds \/ GateOpens \/ Exit \/ Over
HostNext ==
    \/ HostStep \/ Del
    \/ \E s \in Background : ServiceStarts(s) \/ ServiceEnds(s)
    \/ \E r \in Requests : Arrive(r) \/ PassGate(r)

\* The loop runs what can go on; each service starts or ends, and ends once it
\* is told to.
HostSpec ==
    /\ HostInit /\ [][HostNext]_hvars
    /\ WF_hvars(HostStep)
    /\ \A s \in Background : /\ WF_hvars(ServiceStarts(s) \/ (~up[s] /\ ServiceEnds(s)))
                              /\ WF_hvars(ServiceObeys(s))
    /\ \A r \in Requests : WF_hvars(PassGate(r))

-----------------------------------------------------------------------------
\* A request is dispatched only when every service has started, or when the
\* only one there is has died (__rsgi_init__, "requests never see a half-started
\* host").
NoHalfStartedHost ==
    \A r \in Requests : lifecycle # "none" /\ request[r] = "dispatched" =>
        (\A s \in services : up[s]) \/ (~Composed /\ rootEnded)

\* No request waits at the gate for ever, unless one of several services never
\* started; and a host that is told to stop while it runs comes to its end.
HostComesAndGoes ==
    /\ \A r \in Requests : request[r] = "waiting" ~>
          \/ request[r] = "dispatched"
          \/ Composed /\ \E s \in services : ended[s] /\ ~up[s]
    /\ (lifecycle = "held" /\ signal) ~> lifecycle = "over"

\* What _lifecycle's comment says: "if startup failed before we set it, requests
\* pile up; release so they fail fast".
GateAlwaysOpens == \A r \in Requests : request[r] = "waiting" ~> request[r] = "dispatched"
=============================================================================
