--------------------------- MODULE MCPairingStore ---------------------------
(* Small instances of PairingStore for TLC.                                 *)
EXTENDS PairingStore, TLC

CONSTANTS server, cli, t1, t2, t3

\* Two request threads of the resident server.
OneServer == (t1 :> server) @@ (t2 :> server)
\* A server thread and the QR command, a process of its own.
ServerAndCli == (t1 :> server) @@ (t2 :> cli)

PidSymmetry == Permutations(Pid)
=============================================================================
