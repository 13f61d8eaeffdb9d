---------------------------- MODULE MCMemorySample ----------------------------
(* Small instances of MemorySample for TLC.                                 *)
EXTENDS MemorySample

EveryHost == [version : {1, 2}, useDockerAPI : BOOLEAN]
CgroupV2  == {[version |-> 2, useDockerAPI |-> FALSE]}
=============================================================================
