---------------------------- MODULE MCWindowsCpu ----------------------------
(* Small instances of WindowsCpu for TLC.                                   *)
EXTENDS WindowsCpu
=============================================================================
