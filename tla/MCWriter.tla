------------------------------ MODULE MCWriter ------------------------------
(***************************************************************************)
(* Instances of DirectWriter for TLC.                                      *)
(***************************************************************************)
EXTENDS DirectWriter

\* Servers on two hosts with one port, an address with port 0, and one whose port is no
\* number.
Unreadable == [ip |-> 3, port |-> 0]
Servers == {[ip |-> 1, port |-> 3], [ip |-> 0, port |-> 3], [ip |-> 2, port |-> 0], Unreadable}
GarbledServers == {Unreadable}
=============================================================================
