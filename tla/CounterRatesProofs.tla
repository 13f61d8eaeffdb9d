------------------------- MODULE CounterRatesProofs -------------------------
(***************************************************************************)
(* Theorems of CounterRates, for every set of interfaces and devices.      *)
(*                                                                         *)
(* What a sum of counters lacks of all that they were to count, Lost, only *)
(* grows, and only when the container stops or is disconnected.  A reading *)
(* is as much behind as was lost at its time, so that the difference of    *)
(* two readings is at most what was counted between them.                  *)
(***************************************************************************)
EXTENDS CounterRates, SumTheorems, TLAPS

(***************************************************************************)
(* The counters.                                                           *)
(***************************************************************************)

\* There are finitely many counters.
LEMMA CountersFinite == IsFiniteSet(Counter)
<1>1. IsFiniteSet(Op)
  <2>1. IsFiniteSet({"read"}) /\ IsFiniteSet({"write"}) /\ IsFiniteSet({"other"})
    BY FS_Singleton
  <2>2. IsFiniteSet({"read"} \cup {"write"})
    BY <2>1, FS_Union
  <2>3. IsFiniteSet(({"read"} \cup {"write"}) \cup {"other"})
    BY <2>1, <2>2, FS_Union
  <2>4. Op = ({"read"} \cup {"write"}) \cup {"other"}
    BY DEF Op
  <2>5. QED
    BY <2>3, <2>4
<1>2. IsFiniteSet(Device \X Op)
  BY <1>1, RatesAssumption, FS_Product
<1>3. QED
  BY <1>2, RatesAssumption, FS_Union DEF Counter

\* The counters read are numbers, finitely many.
CountersType ==
    /\ Relevant \subseteq Existing /\ Existing \subseteq Counter
    /\ IsFiniteSet(Relevant) /\ IsFiniteSet(Existing)
    /\ \A c \in Existing : count[c] \in Nat

\* It is so in every state of the type.
LEMMA RelevantType == TypeOK => CountersType
<1> SUFFICES ASSUME TypeOK PROVE CountersType
  OBVIOUS
<1>1. Relevant \subseteq Existing /\ Existing \subseteq Counter
  BY DEF Relevant, Networks, Existing
<1>2. IsFiniteSet(Existing)
  BY <1>1, CountersFinite, FS_Subset
<1>3. \A c \in Existing : count[c] \in Nat
  BY RatesAssumption DEF Existing, TypeOK
<1>4. IsFiniteSet(Relevant)
  BY <1>1, <1>2, FS_Subset
<1>5. QED
  BY <1>1, <1>2, <1>3, <1>4 DEF CountersType

\* And so in the next.
LEMMA RelevantTypeNext == TypeOK' => CountersType'
BY RelevantType, PTL

\* What the fetchers sum, in this state and in the next.
LEMMA CountedIs ==
    /\ Counted = SumOver(count, Relevant)
    /\ Counted' = SumOver(count', Relevant')
<1>1. Counted = SumOver(count, Relevant)
  BY DEF Counted, Sum, SumOver, MapThenSumSet, MapThenFoldSet
<1>2. Counted' = SumOver(count', Relevant')
  BY DEF Counted, Sum, SumOver, MapThenSumSet, MapThenFoldSet
<1>3. QED
  BY <1>1, <1>2

\* The sum is a natural number.
LEMMA CountedType ==
    ASSUME TypeOK
    PROVE  Counted \in Nat
<1>1. IsFiniteSet(Relevant) /\ \A c \in Relevant : count[c] \in Nat
  BY RelevantType DEF CountersType
<1>2. QED
  BY <1>1, SumType, CountedIs

(***************************************************************************)
(* The container's steps.                                                  *)
(***************************************************************************)

\* A step of the container's leaves the execution as it is; what was counted
\* is not taken back, and more of it is lost only when the container stops or
\* is disconnected.
Moves ==
    /\ TypeOK' /\ KernelInv'
    /\ UNCHANGED <<metric, execution>>
    /\ done <= done' /\ epoch <= epoch'
    /\ Lost <= Lost' /\ (epoch' = epoch => Lost' = Lost)

\* What is lost follows from one counter when only it moves.
LEMMA OneCounter ==
    ASSUME TypeOK, TypeOK', NEW e, Relevant \ {e} = Relevant' \ {e},
           \A c \in Relevant \ {e} : count'[c] = count[c]
    PROVE  Counted' = Counted - (IF e \in Relevant THEN count[e] ELSE 0)
                              + (IF e \in Relevant' THEN count'[e] ELSE 0)
<1>1. IsFiniteSet(Relevant) /\ \A c \in Relevant : count[c] \in Nat
  BY RelevantType DEF CountersType
<1>2. IsFiniteSet(Relevant') /\ \A c \in Relevant' : count'[c] \in Nat
  BY RelevantTypeNext DEF CountersType
<1>3. QED
  BY <1>1, <1>2, SumOfOthers, CountedIs

\* A container starts with its interfaces at zero.
LEMMA StartMoves == ASSUME TypeOK, KernelInv, Start PROVE Moves
<1>1. TypeOK'
  <2>1. count' \in [Counter -> 0..MaxCount \cup {None}]
    BY RatesAssumption DEF Start
  <2>2. QED
    BY <2>1 DEF Start, TypeOK, execution
<1>2. \A c \in Counter : count'[c] \in {0, None} /\ (count'[c] = 0 => metric = "networkRxBytes" /\ c \in Interface)
  BY NoneAssumption DEF Start
<1>3. KernelInv'
  <2>1. Existing' \subseteq IF metric' = "networkRxBytes" THEN Interface ELSE Device \X Op
    BY <1>2 DEF Start, Existing
  <2>2. \A d \in Device, op \in Op : count'[<<d, op>>] = None
    <3> SUFFICES ASSUME NEW d \in Device, NEW op \in Op PROVE count'[<<d, op>>] = None
      OBVIOUS
    <3>1. <<d, op>> \in Counter /\ <<d, op>> \notin Interface
      BY CounterAssumption DEF Counter
    <3>2. QED
      BY <1>2, <3>1
  <2>3. running'
    BY DEF Start
  <2>4. QED
    BY <2>1, <2>2, <2>3 DEF KernelInv
<1>4. Counted = 0
  <2>1. Relevant = {}
    BY RelevantType DEF CountersType, KernelInv, Start
  <2>2. QED
    BY <2>1, SumEmpty, CountedIs
<1>5. Counted' = 0
  <2>1. IsFiniteSet(Relevant') /\ Relevant' \subseteq Existing' /\ Existing' \subseteq Counter
    BY <1>1, RelevantTypeNext DEF CountersType
  <2>2. \A c \in Relevant' : count'[c] = 0
    BY <1>2, <2>1 DEF Existing
  <2>3. QED
    BY <2>1, <2>2, SumZero, CountedIs
<1>6. QED
  BY <1>1, <1>3, <1>4, <1>5 DEF Moves, Start, Lost, TypeOK

\* A container that stops loses all its counters.
LEMMA StopMoves == ASSUME TypeOK, KernelInv, Stop PROVE Moves
<1>1. TypeOK'
  <2>1. count' \in [Counter -> 0..MaxCount \cup {None}]
    BY DEF Stop, NoCounter
  <2>2. epoch' \in 0..MaxEpoch
    BY RatesAssumption DEF Stop, TypeOK
  <2>3. QED
    BY <2>1, <2>2 DEF Stop, TypeOK, execution
<1>2. \A c \in Counter : count'[c] = None
  BY DEF Stop, NoCounter
<1>3. Existing' = {}
  BY <1>2 DEF Existing
<1>4. KernelInv'
  <2>1. \A d \in Device, op \in Op : count'[<<d, op>>] = None
    BY <1>2 DEF Counter
  <2>2. QED
    BY <1>3, <2>1 DEF KernelInv
<1>5. Counted' = 0
  <2>1. Relevant' = {}
    BY <1>1, <1>3, RelevantTypeNext DEF CountersType
  <2>2. QED
    BY <2>1, SumEmpty, CountedIs
<1>6. Counted \in Nat
  BY CountedType
<1>7. QED
  BY <1>1, <1>4, <1>5, <1>6, RatesAssumption DEF Moves, Stop, Lost, TypeOK

\* Only network counters have interfaces, and only they move with one.
LEMMA InterfaceMoves ==
    ASSUME TypeOK, KernelInv, NEW i \in Interface, NEW n \in 0..MaxCount \cup {None},
           metric = "networkRxBytes", running,
           count' = [count EXCEPT ![i] = n], metric' = metric, running' = running
    PROVE  /\ count' \in [Counter -> 0..MaxCount \cup {None}]
           /\ KernelInv'
           /\ Relevant \ {i} = Relevant' \ {i}
           /\ \A c \in Relevant \ {i} : count'[c] = count[c]
           /\ i \in Relevant <=> i # Loopback /\ count[i] # None
           /\ i \in Relevant' <=> i # Loopback /\ n # None
<1>1. i \in Counter /\ count \in [Counter -> 0..MaxCount \cup {None}]
  BY DEF Counter, TypeOK
<1>2. count' \in [Counter -> 0..MaxCount \cup {None}]
  BY <1>1
<1>3. count'[i] = n /\ \A c \in Counter \ {i} : count'[c] = count[c]
  BY <1>1
<1>4. /\ Relevant = {c \in Counter : c # Loopback /\ count[c] # None}
      /\ Relevant' = {c \in Counter : c # Loopback /\ count'[c] # None}
  BY DEF Relevant, Networks, Existing
<1>5. KernelInv'
  <2>1. Existing' \subseteq Interface
    BY <1>3 DEF KernelInv, Existing
  <2>2. \A d \in Device, op \in Op : <<d, op>> \in Counter \ {i}
    BY CounterAssumption DEF Counter
  <2>3. \A d \in Device, op \in Op : count'[<<d, op>>] = count[<<d, op>>]
    BY <1>3, <2>2
  <2>4. "other" \in Op
    BY DEF Op
  <2>5. QED
    BY <2>1, <2>3, <2>4 DEF KernelInv
<1>6. QED
  BY <1>1, <1>2, <1>3, <1>4, <1>5

\* An interface that exists is one of a running container's.
LEMMA InterfaceExists ==
    ASSUME TypeOK, KernelInv, NEW i \in Interface, count[i] # None
    PROVE  metric = "networkRxBytes" /\ running /\ count[i] \in Nat
<1>1. i \in Counter /\ i \in Existing
  BY DEF Counter, Existing
<1>2. i \notin Device \X Op
  BY CounterAssumption
<1>3. QED
  BY <1>1, <1>2, RelevantType DEF CountersType, KernelInv

\* An interface taken away loses what it counted.
LEMMA DisconnectMoves ==
    ASSUME TypeOK, KernelInv, NEW i \in Interface, Disconnect(i)
    PROVE  Moves
<1>1. metric = "networkRxBytes" /\ running /\ count[i] \in Nat
  BY InterfaceExists DEF Disconnect
<1>2. /\ count' \in [Counter -> 0..MaxCount \cup {None}] /\ KernelInv'
      /\ Relevant \ {i} = Relevant' \ {i} /\ \A c \in Relevant \ {i} : count'[c] = count[c]
      /\ i \in Relevant /\ i \notin Relevant'
  BY <1>1, InterfaceMoves DEF Disconnect
<1>3. TypeOK'
  <2>1. epoch' \in 0..MaxEpoch
    BY RatesAssumption DEF Disconnect, TypeOK
  <2>2. QED
    BY <1>2, <2>1 DEF Disconnect, TypeOK, execution
<1>4. Counted' = Counted - count[i] /\ Counted \in Nat
  BY <1>1, <1>2, <1>3, OneCounter, CountedType
<1>5. QED
  BY <1>1, <1>2, <1>3, <1>4, RatesAssumption DEF Moves, Disconnect, Lost, TypeOK

\* A network connected counts from zero.
LEMMA ConnectMoves ==
    ASSUME TypeOK, KernelInv, NEW i \in Interface, Connect(i)
    PROVE  Moves
<1>1. /\ count' \in [Counter -> 0..MaxCount \cup {None}] /\ KernelInv'
      /\ Relevant \ {i} = Relevant' \ {i} /\ \A c \in Relevant \ {i} : count'[c] = count[c]
      /\ i \notin Relevant
  <2>1. 0 \in 0..MaxCount \cup {None}
    BY RatesAssumption
  <2>2. QED
    BY <2>1, InterfaceMoves DEF Connect
<1>2. TypeOK'
  BY <1>1 DEF Connect, TypeOK, execution
<1>3. count'[i] = 0
  BY DEF Connect, TypeOK, Counter
<1>4. Counted' = Counted /\ Counted \in Nat
  BY <1>1, <1>2, <1>3, OneCounter, CountedType
<1>5. QED
  BY <1>1, <1>2, <1>4, RatesAssumption DEF Moves, Connect, Lost, TypeOK

\* What is received is counted, unless over the loopback.
LEMMA ReceiveMoves ==
    ASSUME TypeOK, KernelInv, NEW i \in Interface, Receive(i)
    PROVE  Moves
<1>1. /\ count[i] \in Nat /\ count[i] + 1 \in 0..MaxCount /\ count[i] # None
      /\ count[i] + 1 # None
  BY RatesAssumption, NoneAssumption DEF Receive
<1>2. metric = "networkRxBytes" /\ running
  BY <1>1, InterfaceExists
<1>3. count' = [count EXCEPT ![i] = count[i] + 1]
  BY DEF Receive
<1>4. /\ count' \in [Counter -> 0..MaxCount \cup {None}] /\ KernelInv'
      /\ Relevant \ {i} = Relevant' \ {i} /\ \A c \in Relevant \ {i} : count'[c] = count[c]
      /\ i \in Relevant <=> i # Loopback
      /\ i \in Relevant' <=> i # Loopback
  <2> DEFINE n == count[i] + 1
  <2>1. n \in 0..MaxCount \cup {None} /\ n # None /\ count' = [count EXCEPT ![i] = n]
    BY <1>1, <1>3
  <2> HIDE DEF n
  <2>2. metric' = metric /\ running' = running
    BY DEF Receive
  <2>3. QED
    BY <1>1, <1>2, <2>1, <2>2, InterfaceMoves
<1>5. done' \in Nat /\ done' = IF i = Loopback THEN done ELSE done + 1
  BY DEF Receive, TypeOK
<1>6. TypeOK'
  BY <1>4, <1>5 DEF Receive, TypeOK, execution
<1>7. count'[i] = count[i] + 1
  BY <1>3 DEF TypeOK, Counter
<1>8. Counted' = (IF i = Loopback THEN Counted ELSE Counted + 1) /\ Counted \in Nat
  BY <1>1, <1>4, <1>6, <1>7, OneCounter, CountedType
<1>9. QED
  BY <1>4, <1>5, <1>6, <1>8, RatesAssumption DEF Moves, Receive, Lost, TypeOK

\* A device's operation is counted with those of its kind and in the total.
LEMMA OperateMoves ==
    ASSUME TypeOK, KernelInv, NEW d \in Device, NEW op \in Op, Operate(d, op)
    PROVE  Moves
<1> DEFINE Now(o) == IF count[<<d, o>>] = None THEN 0 ELSE count[<<d, o>>]
           One(o) == IF o \in {op, "other"} THEN 1 ELSE 0
           e == <<d, "read">>
<1>1. metric = "ioReadCount" /\ metric # "networkRxBytes" /\ running /\ op # "other"
  BY DEF Operate
<1>2. "read" \in Op /\ "other" \in Op
  BY DEF Op
<1>3. \A c \in Device \X Op : c \in Counter
  BY DEF Counter
<1>4. \A o \in Op : Now(o) \in Nat /\ Now(o) <= Now("other")
  <2> SUFFICES ASSUME NEW o \in Op PROVE Now(o) \in Nat /\ Now(o) <= Now("other")
    OBVIOUS
  <2>1. <<d, o>> \in Counter /\ <<d, "other">> \in Counter
    BY <1>2, <1>3
  <2>2. Now(o) \in Nat /\ Now("other") \in Nat
    BY <2>1, RatesAssumption DEF TypeOK
  <2>3. CASE count[<<d, o>>] = None
    BY <2>2, <2>3
  <2>4. CASE count[<<d, o>>] # None
    BY <2>2, <2>4 DEF KernelInv
  <2>5. QED
    BY <2>2, <2>3, <2>4
<1>5. Now("other") + 1 <= MaxCount
  <2>1. count[<<d, "other">>] = None \/ count[<<d, "other">>] \in 0..MaxCount - 1
    BY DEF Operate
  <2>2. QED
    BY <2>1, RatesAssumption, NoneAssumption
<1>6. \A c \in Counter : c \notin {d} \X Op => count'[c] = count[c]
  <2>1. <<d, op>> \in {d} \X Op /\ <<d, "other">> \in {d} \X Op
    BY <1>2
  <2>2. QED
    BY <2>1 DEF Operate
<1>7. \A o \in Op : count'[<<d, o>>] = Now(o) + One(o)
  <2> SUFFICES ASSUME NEW o \in Op PROVE count'[<<d, o>>] = Now(o) + One(o)
    OBVIOUS
  <2> DEFINE c == <<d, o>>
  <2>1. c \in Counter /\ c[2] = o /\ c \in {d} \X Op
    BY <1>3
  <2>2. c = <<d, op>> \/ c = <<d, "other">> <=> o \in {op, "other"}
    OBVIOUS
  <2>3. count'[c] = IF o \in {op, "other"} THEN Now(o) + 1 ELSE Now(o)
    <3>1. count'[c] = CASE c = <<d, op>> \/ c = <<d, "other">> -> Now(c[2]) + 1
                        [] c \in {d} \X Op \ {<<d, op>>, <<d, "other">>} -> Now(c[2])
                        [] OTHER -> count[c]
      <4> HIDE DEF c
      <4> QED
        BY <2>1 DEF Operate
    <3>2. CASE o \in {op, "other"}
      <4>1. count'[c] = Now(c[2]) + 1
        <5> HIDE DEF c, Now
        <5> QED
          BY <2>2, <3>1, <3>2
      <4>2. QED
        BY <2>1, <3>2, <4>1
    <3>3. CASE o \notin {op, "other"}
      <4>1. ~(c = <<d, op>> \/ c = <<d, "other">>) /\ c \in {d} \X Op \ {<<d, op>>, <<d, "other">>}
        BY <2>1, <2>2, <3>3
      <4>2. count'[c] = Now(c[2])
        <5> HIDE DEF c, Now
        <5> QED
          BY <3>1, <4>1
      <4>3. QED
        BY <2>1, <3>3, <4>2
    <3>4. QED
      BY <3>2, <3>3
  <2>4. QED
    BY <1>4, <2>3
<1>8. \A o \in Op : /\ count'[<<d, o>>] \in 0..MaxCount /\ count'[<<d, o>>] # None
                    /\ count'[<<d, o>>] <= count'[<<d, "other">>]
  <2> SUFFICES ASSUME NEW o \in Op
               PROVE  /\ count'[<<d, o>>] \in 0..MaxCount /\ count'[<<d, o>>] # None
                      /\ count'[<<d, o>>] <= count'[<<d, "other">>]
    OBVIOUS
  <2>1. count'[<<d, o>>] = Now(o) + One(o) /\ count'[<<d, "other">>] = Now("other") + One("other")
    BY <1>2, <1>7
  <2>2. Now(o) \in Nat /\ Now(o) <= Now("other") /\ Now("other") \in Nat
    BY <1>2, <1>4
  <2>3. One(o) \in 0..1 /\ One("other") = 1
    OBVIOUS
  <2> HIDE DEF Now, One
  <2>4. QED
    BY <1>5, <2>1, <2>2, <2>3, RatesAssumption, NoneAssumption
<1>9. \A c \in Device \X Op : c \in {d} \X Op => \E o \in Op : c = <<d, o>>
  OBVIOUS
<1>10. TypeOK'
  <2>1. \A c \in Counter : count'[c] \in 0..MaxCount \cup {None}
    <3> SUFFICES ASSUME NEW c \in Counter PROVE count'[c] \in 0..MaxCount \cup {None}
      OBVIOUS
    <3>1. CASE c \in {d} \X Op
      BY <1>8, <3>1
    <3>2. CASE c \notin {d} \X Op
      BY <1>6, <3>2 DEF TypeOK
    <3>3. QED
      BY <3>1, <3>2
  <2>2. count' \in [Counter -> 0..MaxCount \cup {None}]
    <3>1. count' = [c \in Counter |-> count'[c]]
      BY DEF Operate
    <3>2. QED
      BY <2>1, <3>1
  <2>3. done' \in Nat
    BY DEF Operate, TypeOK
  <2>4. QED
    BY <2>2, <2>3 DEF Operate, TypeOK, execution
<1>11. KernelInv'
  <2>1. Existing' \subseteq Device \X Op
    <3> SUFFICES ASSUME NEW c \in Counter, count'[c] # None, c \notin {d} \X Op PROVE c \in Device \X Op
      BY DEF Existing
    <3>1. c \in Existing
      BY <1>6 DEF Existing
    <3>2. QED
      BY <1>1, <3>1 DEF KernelInv
  <2>2. ASSUME NEW d2 \in Device, NEW o \in Op, count'[<<d2, o>>] # None
        PROVE  count'[<<d2, "other">>] # None /\ count'[<<d2, o>>] <= count'[<<d2, "other">>]
    <3>1. CASE d2 = d
      BY <1>2, <1>8, <3>1
    <3>2. CASE d2 # d
      <4>1. <<d2, o>> \in Counter /\ <<d2, "other">> \in Counter
        BY <1>2, <1>3
      <4>2. <<d2, o>> \notin {d} \X Op /\ <<d2, "other">> \notin {d} \X Op
        BY <3>2
      <4>3. count'[<<d2, o>>] = count[<<d2, o>>] /\ count'[<<d2, "other">>] = count[<<d2, "other">>]
        BY <1>6, <4>1, <4>2
      <4>4. QED
        BY <2>2, <4>3 DEF KernelInv
    <3>3. QED
      BY <3>1, <3>2
  <2>3. metric' = metric /\ running' = running
    BY DEF Operate
  <2>4. QED
    BY <1>1, <2>1, <2>2, <2>3 DEF KernelInv
<1>12. /\ Relevant = {c \in Counter : count[c] # None /\ c[2] = "read"}
       /\ Relevant' = {c \in Counter : count'[c] # None /\ c[2] = "read"}
  BY <1>1 DEF Relevant, Existing, Operate
<1>13. e \in Counter /\ e[2] = "read"
  BY <1>2, <1>3
<1>14. Relevant \ {e} = Relevant' \ {e} /\ \A c \in Relevant \ {e} : count'[c] = count[c]
  <2>1. \A c \in {d} \X Op : c[2] = "read" => c = e
    OBVIOUS
  <2> HIDE DEF e
  <2>2. QED
    BY <1>6, <1>12, <2>1
<1>15. e \in Relevant' /\ (e \in Relevant <=> count[e] # None)
  <2>1. count'[e] # None
    BY <1>2, <1>8
  <2> HIDE DEF e
  <2>2. QED
    BY <1>12, <1>13, <2>1
<1>16. Counted' = Counted - (IF e \in Relevant THEN count[e] ELSE 0) + count'[e]
  <2> HIDE DEF e
  <2> QED
    BY <1>10, <1>14, <1>15, OneCounter
<1>17. count'[e] = Now("read") + One("read") /\ Now("read") = IF e \in Relevant THEN count[e] ELSE 0
  BY <1>2, <1>7, <1>15
<1>18. Counted' = Counted + One("read") /\ Counted \in Nat /\ Now("read") \in Nat
  <2>1. Counted \in Nat /\ Now("read") \in Nat /\ One("read") \in Nat
    BY <1>2, <1>4, CountedType
  <2> HIDE DEF Now, One, e
  <2>2. QED
    BY <1>16, <1>17, <2>1
<1>19. done' = done + One("read") /\ One("read") \in Nat
  <2>1. done' = IF op = "read" THEN done + 1 ELSE done
    BY DEF Operate
  <2>2. QED
    BY <2>1 DEF TypeOK
<1>20. Lost' = Lost
  <2> HIDE DEF One
  <2> QED
    BY <1>18, <1>19 DEF Lost, TypeOK
<1>21. Lost \in Int /\ done \in Nat /\ epoch \in Nat
  BY CountedType, RatesAssumption DEF Lost, TypeOK
<1>22. done <= done' /\ epoch' = epoch /\ UNCHANGED <<metric, execution>>
  BY <1>19, <1>21 DEF Operate
<1>23. QED
  BY <1>10, <1>11, <1>20, <1>21, <1>22 DEF Moves

(***************************************************************************)
(* The readings.                                                           *)
(***************************************************************************)

\* A step of the container's leaves all readings older than its counters.
LEMMA ContainerKeeps == ASSUME RatesInv, Moves PROVE RatesInv'
<1> USE DEF RatesInv, Moves, execution
<1>1. Lost \in Int /\ Lost' \in Int
  <2>1. Counted \in Nat /\ done \in Nat
    BY CountedType DEF TypeOK
  <2>2. Counted' \in Nat /\ done' \in Nat
    <3>1. IsFiniteSet(Relevant') /\ \A c \in Relevant' : count'[c] \in Nat
      BY RelevantTypeNext DEF CountersType
    <3>2. QED
      BY <3>1, SumType, CountedIs DEF TypeOK
  <2>3. QED
    BY <2>1, <2>2 DEF Lost
<1>2. ASSUME NEW r \in Reading, Older(r, done, epoch, Lost)
      PROVE  Older(r, done, epoch, Lost)'
  <2>1. r.value \in Nat /\ r.done \in Nat /\ r.epoch \in Nat
    BY DEF Reading
  <2>2. done \in Nat /\ done' \in Nat /\ epoch \in Nat /\ epoch' \in Nat
    BY RatesAssumption DEF TypeOK
  <2>3. r.done <= done' /\ r.epoch <= epoch'
    BY <1>2, <2>1, <2>2 DEF Older
  <2>4. ASSUME ~r.failed PROVE r.done - r.value <= Lost' /\ (r.epoch = epoch' => r.done - r.value = Lost')
    <3>1. r.done - r.value <= Lost /\ (r.epoch = epoch => r.done - r.value = Lost) /\ r.epoch <= epoch
      BY <1>2, <2>4 DEF Older
    <3>2. r.epoch = epoch' => epoch' = epoch /\ r.epoch = epoch
      BY <2>1, <2>2, <3>1
    <3>3. QED
      BY <1>1, <2>1, <3>1, <3>2
  <2>5. QED
    BY <1>2, <2>3, <2>4 DEF Older
<1>3. ReadingsInv'
  <2>1. pc = "processed" /\ sample # None => SampleReading \in Reading
    BY DEF TypeOK, SampleReading, Reading
  <2>2. (disk # None => Older(disk, done, epoch, Lost))'
    BY <1>2 DEF ReadingsInv, TypeOK
  <2>3. (store # None => Older(store, done, epoch, Lost))'
    BY <1>2 DEF ReadingsInv, TypeOK
  <2>4. ASSUME pc = "processed", sample # None PROVE Older(SampleReading, done, epoch, Lost)'
    <3>1. Older(SampleReading, done, epoch, Lost) /\ SampleReading' = SampleReading
      BY <2>4 DEF ReadingsInv, SampleReading
    <3>2. QED
      BY <1>2, <2>1, <2>4, <3>1 DEF Older
  <2>5. ASSUME pc = "processed", sample # None, store # None
        PROVE  /\ store.done <= sampled.done
               /\ ~sampled.failed => Older(store, sampled.done, sampled.epoch, sampled.done - sample)'
    BY <2>5 DEF ReadingsInv, Older
  <2>6. QED
    BY <2>2, <2>3, <2>4, <2>5 DEF ReadingsInv
<1>4. QED
  BY <1>3 DEF NetworkWithinTraffic, BlkioWithinTraffic, RateExact

\* An execution changes none of the counters.
LEMMA ExecutionKeeps ==
    ASSUME TypeOK, UNCHANGED kernel
    PROVE  Lost' = Lost /\ Lost \in Int /\ (KernelInv => KernelInv')
<1>1. Existing' = Existing /\ Relevant' = Relevant
  BY DEF kernel, Relevant, Networks, Existing
<1>2. Counted' = Counted
  <2>1. count' = count
    BY DEF kernel
  <2>2. SumOver(count', Relevant') = SumOver(count, Relevant)
    BY <1>1, <2>1, Zenon
  <2>3. QED
    BY <2>2, CountedIs
<1>3. Counted \in Nat /\ done \in Nat
  BY CountedType DEF TypeOK
<1>4. QED
  BY <1>1, <1>2, <1>3 DEF Lost, kernel, KernelInv

\* The end of an execution forgets what it had read, and keeps the file.
LEMMA EndsKeeps ==
    ASSUME RatesInv, disk' \in {disk, store}, Ends
    PROVE  RatesInv'
<1> USE DEF RatesInv
<1>1. Lost' = Lost /\ KernelInv'
  BY ExecutionKeeps DEF Ends
<1>2. TypeOK'
  <2>1. UNCHANGED <<metric, source, running, count, done, epoch>>
    BY DEF Ends, kernel
  <2>2. wasRunning' \in BOOLEAN
    BY DEF Ends
  <2>3. sampled' \in [done : Nat, epoch : Nat, failed : BOOLEAN]
    BY DEF Ends, NothingSampled
  <2>4. sample' \in Nat \cup {None} /\ (metric = "networkRxBytes" => sample' # None)
    BY NoneAssumption DEF Ends, Zero
  <2>5. pc' = "idle" /\ store' = None /\ rate' = None /\ disk' \in Reading \cup {None}
    BY DEF Ends, TypeOK
  <2>6. QED
    BY <2>1, <2>2, <2>3, <2>4, <2>5 DEF TypeOK
<1>3. ReadingsInv'
  BY <1>1 DEF Ends, ReadingsInv, Older, kernel
<1>4. QED
  BY <1>1, <1>2, <1>3 DEF Ends, NetworkWithinTraffic, BlkioWithinTraffic, RateExact

\* A sample stands for the counters at the time of the fetch.
LEMMA SampledKeeps ==
    ASSUME RatesInv, pc = "listed", NEW value, NEW failed \in BOOLEAN, Sampled(value, failed),
           value \in {Counted, None} \/ (failed /\ value = 0),
           metric = "networkRxBytes" => value # None,
           failed => metric = "networkRxBytes" \/ value = None
    PROVE  RatesInv'
<1> USE DEF RatesInv
<1>1. Lost' = Lost /\ KernelInv' /\ Lost \in Int
  BY ExecutionKeeps DEF Sampled
<1>2. Counted \in Nat /\ done \in Nat /\ epoch \in Nat
  BY CountedType, RatesAssumption DEF TypeOK
<1>3. TypeOK'
  BY <1>2 DEF Sampled, TypeOK, kernel
<1>4. ASSUME value # None
      PROVE  Older([value |-> value, done |-> done, epoch |-> epoch, failed |-> failed], done, epoch, Lost)
  BY <1>2, <1>4 DEF Older, Lost
<1>5. ReadingsInv'
  <2>1. UNCHANGED <<metric, done, epoch, disk, store>>
    BY DEF Sampled, kernel
  <2>2. ASSUME value # None PROVE Older(SampleReading, done, epoch, Lost)'
    BY <1>1, <1>4, <2>1, <2>2 DEF Older, SampleReading, Sampled
  <2>3. ASSUME value # None, store # None
        PROVE  /\ store.done <= sampled'.done
               /\ ~failed => Older(store, sampled'.done, sampled'.epoch, sampled'.done - value)
    <3>1. Older(store, done, epoch, Lost)
      BY <2>3 DEF ReadingsInv
    <3>2. sampled'.done = done /\ sampled'.epoch = epoch
      BY DEF Sampled
    <3>3. ~failed => value = Counted
      BY <2>3
    <3>4. QED
      BY <3>1, <3>2, <3>3 DEF Older, Lost
  <2>4. sample' = value /\ sampled'.failed = failed
    BY DEF Sampled
  <2>5. (disk # None => Older(disk, done, epoch, Lost))'
    BY <1>1, <2>1 DEF ReadingsInv, Older
  <2>6. (store # None => Older(store, done, epoch, Lost))'
    BY <1>1, <2>1 DEF ReadingsInv, Older
  <2>7. QED
    BY <2>1, <2>2, <2>3, <2>4, <2>5, <2>6 DEF ReadingsInv, Older
<1>6. QED
  BY <1>1, <1>3, <1>5 DEF Sampled, NetworkWithinTraffic, BlkioWithinTraffic, RateExact, kernel

\* The API's answer of a container that does not run has no counters.
LEMMA ZeroIsCounted ==
    ASSUME TypeOK, KernelInv, ~running, metric = "networkRxBytes"
    PROVE  Counted = 0
<1>1. Relevant = {}
  BY RelevantType DEF CountersType, KernelInv
<1>2. QED
  BY <1>1, SumEmpty, CountedIs

\* What a fetch returns is the metric's counters, or a nil pointer.
LEMMA ReadIsCounted ==
    ASSUME TypeOK, KernelInv
    PROVE  /\ metric = "networkRxBytes" => networkMetrics = Counted /\ NetDev = Counted
           /\ metric = "ioReadCount" => TotalReadCount(BlkioEntries) \in {Counted, None}
           /\ TotalReadCount({}) = None
<1>1. ASSUME metric = "networkRxBytes" PROVE networkMetrics = Counted /\ NetDev = Counted
  <2>1. Relevant = Networks
    BY <1>1 DEF Relevant
  <2>2. {i \in Existing : ~Ignored(i)} = Networks
    BY DEF Ignored, Networks
  <2>3. NetDev = networkMetrics
    BY <2>2, Zenon DEF NetDev, networkMetrics
  <2>4. networkMetrics = Counted
    BY <2>1, Zenon DEF networkMetrics, Counted
  <2>5. QED
    BY <2>3, <2>4
<1>2. ASSUME metric = "ioReadCount" PROVE TotalReadCount(BlkioEntries) \in {Counted, None}
  <2> DEFINE reads == {c \in BlkioEntries : c[2] = "read"}
  <2>1. reads = Relevant \/ reads = {}
    <3>1. Relevant = {c \in Existing : c[2] = "read"}
      BY <1>2 DEF Relevant
    <3>2. \/ BlkioEntries = Existing \/ BlkioEntries = {c \in Existing : c[2] # "other"}
          \/ BlkioEntries = {}
      BY DEF BlkioEntries, TypeOK, Sources
    <3>3. QED
      BY <3>1, <3>2
  <2>2. TotalReadCount(BlkioEntries) = IF reads = {} THEN None ELSE Sum(reads)
    BY Zenon DEF TotalReadCount
  <2>3. reads # {} => Sum(reads) = Counted
    <3> HIDE DEF reads
    <3> QED
      BY <2>1, Zenon DEF Counted
  <2> HIDE DEF reads
  <2>4. QED
    BY <2>2, <2>3
<1>3. TotalReadCount({}) = None
  <2>1. {c \in {} : c[2] = "read"} = {}
    OBVIOUS
  <2>2. QED
    BY <2>1 DEF TotalReadCount
<1>4. QED
  BY <1>1, <1>2, <1>3

\* The rate of two samples shows what was counted between them.
LEMMA PopulateKeeps == ASSUME RatesInv, Populate PROVE RatesInv'
<1> USE DEF RatesInv
<1>1. Lost' = Lost /\ KernelInv' /\ Lost \in Int
  BY ExecutionKeeps DEF Populate
<1>2. /\ UNCHANGED <<metric, source, running, count, done, epoch, wasRunning, sample, disk, sampled>>
      /\ pc = "processed" /\ pc' = "populated"
  BY DEF Populate, kernel
<1>3. CASE UNCHANGED <<store, rate>>
  <2>1. TypeOK'
    BY <1>2, <1>3 DEF TypeOK
  <2>2. ReadingsInv'
    BY <1>1, <1>2, <1>3 DEF ReadingsInv, Older
  <2>3. QED
    BY <1>1, <1>2, <1>3, <2>1, <2>2 DEF NetworkWithinTraffic, BlkioWithinTraffic, RateExact
<1>4. CASE sample # None /\ Positive(sample)
  <2>1. /\ SampleReading \in Reading /\ SampleReading # None /\ sample \in Nat
        /\ sampled.done \in Nat /\ sampled.epoch \in Nat /\ sampled.failed \in BOOLEAN
    BY <1>4, NoneAssumption DEF TypeOK, SampleReading, Reading
  <2>2. store' = SampleReading
    BY <1>4 DEF Positive, SampleReading
  <2>3. Older(SampleReading, done, epoch, Lost)
    BY <1>2, <1>4 DEF ReadingsInv
  <2>4. ReadingsInv'
    <3>1. Older(store, done, epoch, Lost)'
      BY <1>1, <1>2, <2>2, <2>3 DEF Older
    <3>2. (disk # None => Older(disk, done, epoch, Lost))'
      BY <1>1, <1>2 DEF ReadingsInv, Older
    <3>3. QED
      BY <1>2, <3>1, <3>2 DEF ReadingsInv
  <2>5. CASE rate' = None
    <3>1. TypeOK'
      BY <1>2, <2>1, <2>2, <2>5 DEF TypeOK
    <3>2. QED
      BY <1>1, <2>4, <2>5, <3>1 DEF NetworkWithinTraffic, BlkioWithinTraffic, RateExact
  <2>6. CASE /\ store # None
             /\ rate' = [diff |-> sample - store.value, done |-> sampled.done - store.done,
                         steady |-> sampled.epoch = store.epoch,
                         failed |-> sampled.failed \/ store.failed]
    <3>1. /\ store.value \in Nat /\ store.done \in Nat /\ store.epoch \in Nat
          /\ store.failed \in BOOLEAN
      BY <2>6 DEF TypeOK, Reading
    <3>2. /\ store.done <= sampled.done
          /\ ~sampled.failed => Older(store, sampled.done, sampled.epoch, sampled.done - sample)
      BY <1>2, <1>4, <2>6 DEF ReadingsInv
    <3>3. rate' \in Rate
      <4>1. sample - store.value \in Int /\ sampled.done - store.done \in Nat
        BY <2>1, <3>1, <3>2
      <4>2. (sampled.epoch = store.epoch) \in BOOLEAN /\ (sampled.failed \/ store.failed) \in BOOLEAN
        OBVIOUS
      <4>3. QED
        BY <2>6, <4>1, <4>2 DEF Rate
    <3>4. TypeOK'
      BY <1>2, <2>1, <2>2, <3>3 DEF TypeOK
    <3>5. /\ rate'.diff = sample - store.value /\ rate'.done = sampled.done - store.done
          /\ rate'.steady <=> sampled.epoch = store.epoch
          /\ rate'.failed <=> sampled.failed \/ store.failed
      BY <2>6
    <3>6. ASSUME ~sampled.failed, ~store.failed
          PROVE  /\ rate'.diff <= rate'.done
                 /\ rate'.steady => rate'.diff = rate'.done
      <4>1. /\ store.done - store.value <= sampled.done - sample
            /\ store.epoch = sampled.epoch => store.done - store.value = sampled.done - sample
        BY <3>2, <3>6 DEF Older
      <4>2. QED
        BY <2>1, <3>1, <3>5, <4>1
    <3>7. metric = "ioReadCount" => ~sampled.failed /\ ~store.failed
      <4>1. Older(store, done, epoch, Lost)
        BY <2>6 DEF ReadingsInv
      <4>2. QED
        BY <2>3, <4>1 DEF Older, SampleReading
    <3>8. NetworkWithinTraffic' /\ BlkioWithinTraffic' /\ RateExact'
      BY <1>2, <3>5, <3>6, <3>7 DEF NetworkWithinTraffic, BlkioWithinTraffic, RateExact
    <3>9. QED
      BY <1>1, <2>4, <3>4, <3>8
  <2>7. QED
    BY <1>4, <2>5, <2>6 DEF Positive
<1>5. QED
  BY <1>3, <1>4 DEF Populate

\* What a reading is behind by never passes what was lost since.
THEOREM RatesInvCorrect == Spec => []RatesInv
<1>1. Init => RatesInv
  <2> SUFFICES ASSUME Init PROVE RatesInv
    OBVIOUS
  <2>1. TypeOK
    <3>1. count \in [Counter -> 0..MaxCount \cup {None}]
      BY DEF Init, NoCounter
    <3>2. running \in BOOLEAN /\ wasRunning \in BOOLEAN
      BY DEF Init
    <3>3. sampled \in [done : Nat, epoch : Nat, failed : BOOLEAN]
      BY DEF Init, NothingSampled
    <3>4. sample \in Nat \cup {None} /\ (metric = "networkRxBytes" => sample # None)
      BY NoneAssumption DEF Init, Zero
    <3>5. epoch \in 0..MaxEpoch /\ done \in Nat
      BY RatesAssumption DEF Init
    <3>6. QED
      BY <3>1, <3>2, <3>3, <3>4, <3>5 DEF Init, TypeOK
  <2>2. \A c \in Counter : count[c] = None
    BY DEF Init, NoCounter
  <2>3. KernelInv
    BY <2>2 DEF KernelInv, Existing, Counter
  <2>4. QED
    BY <2>1, <2>3 DEF Init, RatesInv, ReadingsInv, NetworkWithinTraffic, BlkioWithinTraffic, RateExact
<1>2. RatesInv /\ [Next]_vars => RatesInv'
  <2> SUFFICES ASSUME RatesInv, [Next]_vars PROVE RatesInv'
    OBVIOUS
  <2>1. TypeOK /\ KernelInv
    BY DEF RatesInv
  <2>2. CASE Container
    <3>1. Moves
      BY <2>1, <2>2, StartMoves, StopMoves, DisconnectMoves, ConnectMoves, ReceiveMoves, OperateMoves
         DEF Container
    <3>2. QED
      BY <3>1, ContainerKeeps
  <2>3. CASE Launch
    <3>1. Lost' = Lost /\ KernelInv'
      BY <2>1, <2>3, ExecutionKeeps DEF Launch
    <3>2. TypeOK'
      BY <2>1, <2>3 DEF Launch, TypeOK, kernel
    <3>3. ReadingsInv'
      BY <2>3, <3>1 DEF Launch, RatesInv, ReadingsInv, Older, kernel
    <3>4. QED
      BY <2>3, <3>1, <3>2, <3>3
         DEF Launch, RatesInv, NetworkWithinTraffic, BlkioWithinTraffic, RateExact, kernel
  <2>4. CASE ContainerList
    <3>1. Lost' = Lost /\ KernelInv'
      BY <2>1, <2>4, ExecutionKeeps DEF ContainerList
    <3>2. TypeOK'
      BY <2>1, <2>4 DEF ContainerList, TypeOK, kernel
    <3>3. ReadingsInv'
      BY <2>4, <3>1 DEF ContainerList, RatesInv, ReadingsInv, Older, kernel
    <3>4. QED
      BY <2>4, <3>1, <3>2, <3>3
         DEF ContainerList, RatesInv, NetworkWithinTraffic, BlkioWithinTraffic, RateExact, kernel
  <2>5. CASE ProcessFails
    <3>1. metric = "networkRxBytes" \/ metric = "ioReadCount"
      BY <2>1 DEF TypeOK, Metrics
    <3>2. Zero \in {Counted, None} \/ (running /\ Zero = 0)
      BY <2>1, ZeroIsCounted DEF Zero
    <3>3. /\ metric = "networkRxBytes" => Zero # None
          /\ running => metric = "networkRxBytes" \/ Zero = None
      BY NoneAssumption DEF Zero
    <3>4. pc = "listed" /\ Sampled(Zero, running) /\ running \in BOOLEAN
      BY <2>1, <2>5 DEF ProcessFails, TypeOK
    <3>5. QED
      BY <3>2, <3>3, <3>4, SampledKeeps
  <2>6. CASE Process
    <3> DEFINE value == IF source = "api" THEN networkMetrics ELSE NetDev
    <3>1. pc = "listed"
      BY <2>6 DEF Process
    <3>2. CASE metric = "networkRxBytes"
      <4>1. value = Counted /\ Counted \in Nat
        BY <2>1, <3>2, ReadIsCounted, CountedType
      <4>2. Sampled(value, FALSE)
        BY <2>6, <3>2 DEF Process
      <4> HIDE DEF value
      <4>3. QED
        BY <3>1, <4>1, <4>2, NoneAssumption, SampledKeeps
    <3>3. CASE metric = "ioReadCount"
      <4>1. Sampled(TotalReadCount(BlkioEntries), FALSE) \/ Sampled(TotalReadCount({}), FALSE)
        BY <2>6, <3>3 DEF Process
      <4>2. TotalReadCount(BlkioEntries) \in {Counted, None} /\ TotalReadCount({}) \in {Counted, None}
        BY <2>1, <3>3, ReadIsCounted
      <4>3. QED
        BY <3>1, <3>3, <4>1, <4>2, SampledKeeps
    <3>4. QED
      BY <2>1, <3>2, <3>3 DEF TypeOK, Metrics
  <2>7. CASE Populate
    BY <2>7, PopulateKeeps
  <2>8. CASE Publish
    BY <2>8, EndsKeeps DEF Publish
  <2>9. CASE Abort
    BY <2>9, EndsKeeps DEF Abort
  <2>10. CASE UNCHANGED vars
    <3>1. Lost' = Lost /\ KernelInv'
      BY <2>1, <2>10, ExecutionKeeps DEF vars
    <3>2. TypeOK'
      BY <2>1, <2>10 DEF vars, TypeOK, kernel, execution
    <3>3. ReadingsInv'
      BY <2>10, <3>1 DEF vars, RatesInv, ReadingsInv, SampleReading, Older, kernel, execution
    <3>4. QED
      BY <2>10, <3>1, <3>2, <3>3
         DEF vars, RatesInv, NetworkWithinTraffic, BlkioWithinTraffic, RateExact, kernel, execution
  <2>11. QED
    BY <2>2, <2>3, <2>4, <2>5, <2>6, <2>7, <2>8, <2>9, <2>10 DEF Next, Execution
<1>3. QED
  BY <1>1, <1>2, PTL DEF Spec

\* Every variable keeps its type: the counters within their bound, and no rate
\* counts from a later sample to an earlier one.
THEOREM TypeCorrect == Spec => []TypeOK
<1>1. RatesInv => TypeOK
  BY DEF RatesInv
<1>2. QED
  BY <1>1, RatesInvCorrect, PTL

\* Whatever interfaces a container has and loses, the network rate shows no more
\* than it received between the two samples, unless a failed fetch was published
\* as zero.
THEOREM NetworkWithinTrafficCorrect == Spec => []NetworkWithinTraffic
<1>1. RatesInv => NetworkWithinTraffic
  BY DEF RatesInv
<1>2. QED
  BY <1>1, RatesInvCorrect, PTL

\* Whatever its devices and whatever fails, the block I/O rate shows no more
\* than the container read between the two samples.
THEOREM BlkioWithinTrafficCorrect == Spec => []BlkioWithinTraffic
<1>1. RatesInv => BlkioWithinTraffic
  BY DEF RatesInv
<1>2. QED
  BY <1>1, RatesInvCorrect, PTL

\* While the container runs and keeps its networks the rate is exact, however
\* many interfaces and devices are summed and however many executions are lost.
THEOREM RateExactCorrect == Spec => []RateExact
<1>1. RatesInv => RateExact
  BY DEF RatesInv
<1>2. QED
  BY <1>1, RatesInvCorrect, PTL
=============================================================================
