---------------------------- MODULE MCToolJobs ----------------------------
(* ToolJobs for TLC: request threads that compete for one slot. *)
EXTENDS ToolJobs, TLC

CONSTANTS th1, th2, ta

MCThreads == {th1, th2}
MCOneThread == {th1}
MCTenants == {ta}
\* No definition tells two threads apart.
MCSymmetry == Permutations(MCThreads)
===========================================================================
