------------------------------- MODULE MCMcp -------------------------------
(* An instance of Mcp for TLC: two servers. *)
EXTENDS Mcp, TLC

CONSTANTS c1, c2, c3, s1, s2

\* Two calls reach the first server, one the second.
TwoServers == c1 :> s1 @@ c2 :> s1 @@ c3 :> s2
=============================================================================
