---------------------------- MODULE GatewayStatus ---------------------------
(***************************************************************************)
(* What the control plane promises of the status of a Gateway: every       *)
(* status is a verdict on one generation of the spec, no older than the    *)
(* one before it; a valid spec is accepted, and programmed or not yet, an  *)
(* invalid one is neither.                                                 *)
(***************************************************************************)
EXTENDS Naturals, Sequences

VARIABLES
    generation,  \* the Gateway's generation
    valid,       \* for each generation so far, whether its spec was valid
    observed,    \* the generation that the status is about, 0 for none
    accepted,    \* the status of the condition Accepted
    programmed   \* the status of the condition Programmed

statusVars == <<generation, valid, observed, accepted, programmed>>

Init ==
    /\ generation = 1
    /\ valid \in {<<TRUE>>, <<FALSE>>}
    /\ observed = 0
    /\ accepted = "Unknown"
    /\ programmed = "Unknown"

Edit ==
    /\ generation' = generation + 1
    /\ \E v \in BOOLEAN : valid' = Append(valid, v)
    /\ UNCHANGED <<observed, accepted, programmed>>

Report ==
    /\ \E g \in 1 .. generation :
          /\ observed <= g
          /\ observed' = g
          /\ accepted' = IF valid[g] THEN "True" ELSE "False"
          /\ programmed' \in IF valid[g] THEN {"True", "False"} ELSE {"False"}
    /\ UNCHANGED <<generation, valid>>

Next == Edit \/ Report

Spec == Init /\ [][Next]_statusVars
=============================================================================
