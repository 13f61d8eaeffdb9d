----------------------------- MODULE MCCpuUsage -----------------------------
(* Small instances of CpuUsage for TLC.                                    *)
EXTENDS CpuUsage

\* The host has just booted.
Booted == {[f \in Fields |-> 0]}

\* Or the product in ReadUsage is about to pass the modulus, by one field.
BootedOrNearTurn ==
    Booted \cup {[f \in Fields |-> IF f = "system"
                                   THEN Modulus \div Hz - 2 ELSE 0]}

Load(u, k, spent) == [user |-> u, kernel |-> k, spent |-> [f \in Fields |-> spent[f]]]

\* The host idles, the container works on one CPU and then on both, the CPUs work
\* for others, or all is stolen.
FewLoads ==
    LET c == CHOOSE x \in Cpuset : TRUE IN
    { Load({}, {}, [user |-> 0, system |-> 0, idle |-> Cardinality(CPUs)]),
      Load({c}, {}, [user |-> 1, system |-> 0, idle |-> Cardinality(CPUs) - 1]),
      Load({c}, Cpuset \ {c}, [user |-> 1, system |-> Cardinality(CPUs) - 1, idle |-> 0]),
      Load({}, {}, [user |-> 0, system |-> 0, idle |-> 0]) }
=============================================================================
