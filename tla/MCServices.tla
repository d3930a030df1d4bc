------------------------------ MODULE MCServices -----------------------------
(***************************************************************************)
(* A small instance of Services: two threads in a request, a third in the  *)
(* scope of the application; a configuration, a pool made from it, and a   *)
(* session per request made from both.                                     *)
(***************************************************************************)
EXTENDS Services, TLC

CONSTANTS th1, th2, th3, q1

SmallDeps == ("config" :> <<>>) @@ ("pool" :> <<"config">>)
             @@ ("session" :> <<"pool", "config">>) @@ ("handler" :> <<"session">>)
SmallScopes == (th1 :> q1) @@ (th2 :> q1) @@ (th3 :> App)
SmallTypes == DOMAIN SmallDeps
=============================================================================
