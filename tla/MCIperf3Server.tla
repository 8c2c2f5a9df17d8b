--------------------------- MODULE MCIperf3Server ---------------------------
(* Instances of Iperf3Server for TLC. *)
EXTENDS Iperf3Server

CONSTANTS t1, t2, d1, d2

VARIABLE used  \* the connections the clients open

\* The data connections are those of the first test.
MCTestOf == [d \in Datas |-> t1]

\* One test with two data connections, or two tests that compete for the
\* slots and for the UDP port.
MCInit == Init /\ used \in {{t1, d1, d2}, {t1, t2, d1}}

MCNext ==
  /\ Next
  /\ \A c \in Conns \ used : pc'[c] = "closed"
  /\ UNCHANGED used

MCSpec == MCInit /\ [][MCNext]_<<vars, used>> /\ ServerFair /\ ClientFair
=============================================================================
