-------------------------- MODULE MCHubConnections --------------------------
(***************************************************************************)
(* HubConnections for TLC: one agent, two connections with a handler at a   *)
(* time, one break or failing write, one rotation, a queue of one frame.    *)
(***************************************************************************)
EXTENDS HubConnections, FiniteSets

\* Reachable interesting cases, each to be refuted when tried as an invariant.
NeverAstray == ~astray
NeverSlipped == \A c \in Conns : hub.conn = c => ~handler[c].slipped
NeverAllHandlers == Cardinality(Unused) > 0
=============================================================================
