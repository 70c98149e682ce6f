------------------------- MODULE MCTunnelProvider -------------------------
(* Two networks and two clients, which are interchangeable. *)
EXTENDS TunnelProvider, TLC

\* Sound for safety properties only: the liveness runs have one client.
ConnSymmetry == Permutations(Conns)

=============================================================================
