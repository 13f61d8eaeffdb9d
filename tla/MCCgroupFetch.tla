---------------------------- MODULE MCCgroupFetch ----------------------------
(* Small instances of CgroupFetch for TLC.                                 *)
EXTENDS CgroupFetch

CONSTANTS c1, c2   \* the containers

\* Stat reads the pids as it does the others; one more of them adds no case.
AllOrNot == {Controllers \ {"pids"}, Controllers \ {"cpu", "cpuset"}}
=============================================================================
