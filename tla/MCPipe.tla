------------------------------- MODULE MCPipe -------------------------------
(* Two threads on a pipe of two bytes. *)
EXTENDS Pipe

CONSTANTS t1, t2

MCThreads == {t1, t2}

=============================================================================
