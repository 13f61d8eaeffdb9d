--------------------------- MODULE MCCounterRates ---------------------------
(* Small instances of CounterRates for TLC.                                *)
EXTENDS CounterRates

CONSTANTS lo, eth0, eth1,   \* interfaces
          sda, sdb          \* devices
=============================================================================
