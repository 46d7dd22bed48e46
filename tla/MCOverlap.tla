----------------------------- MODULE MCOverlap ------------------------------
(***************************************************************************)
(* OverlapHistory on small instances.                                      *)
(***************************************************************************)
EXTENDS OverlapHistory, MCDataplane

\* An update replaces the VIP's one backend.
MCOneTarget == {<<b>> : b \in Backends}

\* FIN+ACK carries a connection through Established, FinWait1, TimeWait and Closed.
MCEndingHeaders == {{"FIN", "ACK"}, {"RST"}}

OverlapSymmetry ==
    Permutations(Cpus) \cup Permutations(TcpClients) \cup Permutations(Backends)
=============================================================================
