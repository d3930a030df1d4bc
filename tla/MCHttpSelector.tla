---------------------------- MODULE MCHttpSelector ----------------------------
(***************************************************************************)
(* Small instances of HttpSelector.                                        *)
(***************************************************************************)
EXTENDS HttpSelector, TLC

Symmetry == Permutations(Conns) \cup Permutations(Fds) \cup Permutations(Workers)

=============================================================================
