------------------------------ MODULE MCSched ------------------------------
(* Small instances of Sched: two CPUs, their idle threads and a few threads. *)
EXTENDS Sched, TLC

CONSTANTS cpu0, cpu1, boot, t1, t2, idle0, idle1

MCCpus == {cpu0, cpu1}
MCThreads == {boot, t1, t2}
MCIdleOf == (cpu0 :> idle0) @@ (cpu1 :> idle1)
============================================================================
