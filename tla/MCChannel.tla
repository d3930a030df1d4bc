------------------------------ MODULE MCChannel ------------------------------
(***************************************************************************)
(* Small instances of Channel: every thread with a handle of its own, or   *)
(* the two receivers sharing one.                                          *)
(***************************************************************************)
EXTENDS Channel, TLC

CONSTANTS s1, s2, r1, r2, tx1, tx2, rx1, rx2

OwnHandles   == (s1 :> tx1) @@ (s2 :> tx2) @@ (r1 :> rx1) @@ (r2 :> rx2)
SharedHandle == (s1 :> tx1) @@ (s2 :> tx2) @@ (r1 :> rx1) @@ (r2 :> rx1)
=============================================================================
