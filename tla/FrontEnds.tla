------------------------------ MODULE FrontEnds ------------------------------
(***************************************************************************)
(* The ways a request reaches a localpost handler other than through the   *)
(* h11 backend (module HttpSelector): an async request on the ASGI or RSGI *)
(* bridge, behind the gate of the host that may run beside it              *)
(* (HostRSGIApp.__rsgi__ awaits _ready, then calls the bridge's _dispatch),*)
(* a request across the WSGI border, or the requests of a connection of    *)
(* the httptools backend.                                                  *)
(***************************************************************************)
EXTENDS AsyncBridge, WsgiBridge, HostRsgi, HttpTools

CONSTANT TheRequest

ASSUME FrontEndsAssumption == Requests = {TheRequest}

VARIABLE way        \* how requests come in: "async", "wsgi" or "httptools"

fvars == <<way, vars, wvars, hvars, tvars>>

\* ASGI knows no host.  The ways that are not taken start in one state only.
FrontEndsInit ==
    /\ way \in {"async", "wsgi", "httptools"}
    /\ Init /\ WsgiInit /\ HostInit /\ ToolsInit
    /\ bridge = "asgi" => services = {}
    /\ way # "async" => bridge = "asgi" /\ whole = <<>>
    /\ way # "wsgi" => side = "to" /\ scoped

\* The bridge runs once the request has passed the gate.
OnBridge(Step) ==
    /\ way = "async" /\ request[TheRequest] = "dispatched" /\ Step
    /\ UNCHANGED <<way, wvars, hvars, tvars>>

OnHost(Step) == way = "async" /\ Step /\ UNCHANGED <<way, vars, wvars, tvars>>

OnWsgi(Step) == way = "wsgi" /\ Step /\ UNCHANGED <<way, vars, hvars, tvars>>

OnTools(Step) == way = "httptools" /\ Step /\ UNCHANGED <<way, vars, wvars, hvars>>

FrontEndsNext ==
    OnBridge(Next) \/ OnHost(HostNext) \/ OnWsgi(WsgiNext) \/ OnTools(ToolsNext)

\* The fairness of the parts.  A behaviour takes one way, so that steps on different
\* ways share a condition.
FrontEndsSpec ==
    /\ FrontEndsInit /\ [][FrontEndsNext]_fvars
    /\ WF_fvars(OnBridge(PumpStep) \/ OnTools(SelectorStep))
    /\ WF_fvars(OnBridge(Watch) \/ OnTools(Sweep))
    /\ WF_fvars(OnBridge(HandlerStep) \/ OnTools(WorkerEnds))
    /\ WF_fvars(OnHost(HostStep))
    /\ \A s \in Background :
          /\ WF_fvars(OnHost(ServiceStarts(s) \/ (~up[s] /\ ServiceEnds(s))))
          /\ WF_fvars(OnHost(ServiceObeys(s)))
    /\ \A r \in Requests : WF_fvars(OnHost(PassGate(r)))

-----------------------------------------------------------------------------
\* A request that has passed the gate ends, whatever the services beside it do
\* (_handle_http, _dispatch, HostRSGIApp.__rsgi__).
DispatchedRequestEnds ==
    way = "async" /\ request[TheRequest] = "dispatched" ~> handler = "done"

\* Whichever way a request takes, it ends or its connection does.
EveryRequestEnds == DispatchedRequestEnds /\ RequestsEnd
=============================================================================
