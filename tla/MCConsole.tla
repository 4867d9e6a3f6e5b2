------------------------------ MODULE MCConsole -----------------------------
(* Instances of Console for TLC. *)
EXTENDS Console, TLC

\* What a step can depend on.  Nothing looks at the slots of the ring from e
\* on, at intena while ncli is 0, at the locals of a call that has returned,
\* or at the intena that sched() kept once its process runs again.
InCall(p) == pc[p] \notin {"user", "exited"}
View ==
  <<[k \in 0..Used - 1 |-> buf[Slot(r + k)]], r, w, e,
    [c \in Cpus |-> IF cpu[c].ncli = 0 THEN <<cpu[c].fl>> ELSE <<cpu[c]>>],
    lk, panicked, pc, run, inTrap, killed,
    [p \in Procs |-> IF InCall(p) THEN <<op[p], n[p], target[p]>> ELSE <<>>],
    [p \in Procs |-> saved[p] /\ \A c \in Cpus : run[c] # p]>>
=============================================================================
