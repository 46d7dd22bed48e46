----------------------------- MODULE MCTcpFlow ------------------------------
(***************************************************************************)
(* TcpFlow on small instances.                                             *)
(***************************************************************************)
EXTENDS TcpFlow, TLC

MCHeaders == {Header(kind) : kind \in Kinds}

Symmetry == Permutations(Cpus)
=============================================================================
