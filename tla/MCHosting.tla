------------------------------ MODULE MCHosting ------------------------------
(***************************************************************************)
(* A small instance of Hosting: run_app with two services, one of which    *)
(* serves a third.                                                         *)
(***************************************************************************)
EXTENDS Hosting, TLC

CONSTANTS app, shell, inner, side

MCParent == (shell :> app) @@ (side :> app) @@ (inner :> shell)
MCAncestors == (app :> {}) @@ (shell :> {app}) @@ (side :> {app})
                 @@ (inner :> {shell, app})
MCKind == (app :> "many") @@ (shell :> "serve") @@ (inner :> "leaf")
            @@ (side :> "leaf")
=============================================================================
