---------------------------- MODULE MCDataplane -----------------------------
(***************************************************************************)
(* Dataplane on small instances: constants that a cfg cannot write down.   *)
(***************************************************************************)
EXTENDS Dataplane, TLC

CONSTANTS b1, b2

\* Two lists of different length: each of the VIP's shrinks and grows.
MCTargetLists == {<<b1, b2>>, <<b2>>}

\* Also one that overflows an array of 2, and an unroutable one.
MCAllTargetLists == {<<b1>>, <<b1, b2>>, <<b1, b1, b1>>}

\* SYN, ACK, FIN+ACK and RST+ACK, the headers of a connection's life.
MCHeaders == {{}, {"ACK"}, {"FIN", "ACK"}, {"RST", "ACK"}}

Symmetry == Permutations(Cpus)
=============================================================================
