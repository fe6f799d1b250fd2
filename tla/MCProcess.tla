----------------------------- MODULE MCProcess -----------------------------
(* An ELF task with children and a PE task with a worker. *)
EXTENDS Process

\* init, a child and a grandchild (or a PE task): descriptors, exec and wait4.
MCCodes == {126}

=============================================================================
