------------------------- MODULE MCContainerSampler -------------------------
(* Small instances of ContainerSampler for TLC.                            *)
EXTENDS ContainerSamplerLedger

CONSTANTS c1, c2   \* the containers
=============================================================================
