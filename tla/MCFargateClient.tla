--------------------------- MODULE MCFargateClient ---------------------------
(* Small instances of FargateClient for TLC.                                 *)
EXTENDS FargateClient

CONSTANTS c1, c2, c3   \* the containers
=============================================================================
