------------------------------ MODULE MCTimer -------------------------------
(***************************************************************************)
(* Small instances of TimerLoop: a worker process with an accepted and an  *)
(* outgoing connection, and one with an accepted connection only.          *)
(***************************************************************************)
EXTENDS TimerLoop, TLC

CONSTANTS c1, c2, m1, m2, t

\* FPNodeServer: one connection manager, and the DirectWriter for outgoing ones.
WorkerKind == (c1 :> "server") @@ (c2 :> "client")
WorkerManager == (c1 :> m1) @@ (c2 :> m2)

\* The accepted connections alone.
OneManager == [c \in Conn |-> m1]
ServerKind == [c \in Conn |-> "server"]
=============================================================================
