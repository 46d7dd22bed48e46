------------------------------ MODULE TcpState ------------------------------
(***************************************************************************)
(* The connection states the dataplane tracks and the transition function  *)
(* that the packets of a connection, in either direction, drive.  A TCP    *)
(* header is the set of those of its flags that the dataplane reads.       *)
(***************************************************************************)

Flags == {"FIN", "ACK", "RST"}

TCPState == {"Established", "FinWait1", "FinWait2", "Closing", "TimeWait", "Closed"}

\* Defect: a retransmitted FIN starts the termination anew.
transition_restarts(hdr, state) ==
    IF "FIN" \in hdr /\ state \in {"Established", "TimeWait"} THEN "FinWait1"
    ELSE IF "ACK" \in hdr /\ state = "FinWait1" THEN "TimeWait"
    ELSE IF "ACK" \in hdr /\ state = "TimeWait" THEN "Closed" ELSE state

\* The successor of `state` on a packet with header `hdr`.  The code also
\* returns whether the state changed, which is whether the result differs.
process_tcp_state_transition(hdr, state) ==
    LET fin == "FIN" \in hdr
        ack == "ACK" \in hdr
    IN  CASE state = "Established" /\ fin              -> "FinWait1"
          [] state = "FinWait1" /\ fin /\ ack          -> "TimeWait"
          [] state = "FinWait1" /\ fin /\ ~ack         -> "Closing"
          [] state = "FinWait1" /\ ~fin /\ ack         -> "FinWait2"
          [] state \in {"FinWait2", "Closing"} /\ ack  -> "TimeWait"
          [] state = "TimeWait" /\ ack                 -> "Closed"
          [] OTHER                                     -> state
=============================================================================
