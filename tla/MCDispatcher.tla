---------------------------- MODULE MCDispatcher ----------------------------
(***************************************************************************)
(* Instances of Dispatcher for TLC.                                        *)
(***************************************************************************)
EXTENDS Dispatcher, TLC

CONSTANTS c1, c2, c3

\* c1 and c2 belong to one session, c3 to another.
Sessions == [c \in Conn |-> IF c = c3 THEN 1 ELSE 0]

\* Only sessions tell connections apart.
Symmetry == Permutations({c1, c2})
=============================================================================
