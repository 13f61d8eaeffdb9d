--------------------------- MODULE CpuLedgerProofs ---------------------------
(* Theorems of CpuLedger: what every implementation of it may rely on.     *)
EXTENDS CpuLedger, TLAPS

\* Every variable of the ledger keeps its type: executions are numbered, and every
\* baseline, draft and bill is of one.
THEOREM LedgerType == Spec => []TypeOK
<1>0. Nothing \in [Container -> Nat]
  BY DEF Nothing
<1>1. Init => TypeOK
  <2>1. Init => open \in BOOLEAN
    BY DEF Init
  <2>2. QED
    BY <1>0, <2>1 DEF Init, TypeOK
<1>2. TypeOK /\ [Next]_vars => TypeOK'
  <2> SUFFICES ASSUME TypeOK, [Next]_vars PROVE TypeOK'
    OBVIOUS
  <2> USE DEF TypeOK, vars
  <2>1. CASE Begin
    BY <2>1 DEF Begin
  <2>2. ASSUME NEW c \in Container, Read(c) PROVE TypeOK'
    BY <2>2 DEF Read
  <2>3. CASE Settle
    BY <2>3 DEF Settle, Drafts
  <2>4. CASE Fail
    BY <1>0, <2>4 DEF Fail, Drafts
  <2>5. CASE Bill
    BY <1>0, <2>5 DEF Bill
  <2>6. CASE Drop
    BY <1>0, <2>6 DEF Drop
  <2>7. CASE UNCHANGED vars
    BY <2>7
  <2>8. QED
    BY <2>1, <2>2, <2>3, <2>4, <2>5, <2>6, <2>7 DEF Next
<1>3. QED
  BY <1>1, <1>2, PTL DEF Spec

\* Baselines and drafts are never older than the last billing, unless the
\* execution that billed is known to have failed.
THEOREM BilledInvCorrect == Spec => []BilledInv
<1>1. Init => BilledInv
  BY DEF Init, BilledInv, BilledOnce, Nothing
<1>2. TypeOK /\ BilledInv /\ [Next]_vars => BilledInv'
  <2> SUFFICES ASSUME TypeOK, BilledInv, [Next]_vars PROVE BilledInv'
    OBVIOUS
  <2> USE DEF TypeOK, BilledInv, BilledOnce, vars
  <2>1. CASE Begin
    BY <2>1 DEF Begin, Nothing
  <2>2. ASSUME NEW c \in Container, Read(c) PROVE BilledInv'
    BY <2>2 DEF Read
  <2>3. CASE Settle
    <3>1. ASSUME NEW c \in Container
          PROVE  /\ draft'[c] # 0 => draft'[c] = base[c] /\ base'[c] = n
                 /\ base'[c] \in {0, base[c], n}
      BY <2>3 DEF Settle, Drafts
    <3>2. UNCHANGED <<n, billed, failed>> /\ ~open'
      BY <2>3 DEF Settle
    <3>3. QED
      BY <3>1, <3>2
  <2>4. CASE Fail
    <3>1. ASSUME NEW c \in Container
          PROVE  /\ draft'[c] # 0 => draft'[c] = base[c]
                 /\ base'[c] \in {0, base[c]}
      BY <2>4 DEF Fail, Drafts, Nothing
    <3>2. UNCHANGED <<n, billed>> /\ failed' = failed \cup {n} /\ ~open'
      BY <2>4 DEF Fail
    <3>3. QED
      BY <3>1, <3>2
  <2>5. CASE Bill
    BY <2>5 DEF Bill, Nothing
  <2>6. CASE Drop
    BY <2>6 DEF Drop, Nothing
  <2>7. CASE UNCHANGED vars
    BY <2>7
  <2>8. QED
    BY <2>1, <2>2, <2>3, <2>4, <2>5, <2>6, <2>7 DEF Next
<1>3. QED
  BY <1>1, <1>2, LedgerType, PTL DEF Spec

\* CPU time is billed once: what every implementation of the ledger inherits.
THEOREM BilledOnceCorrect == Spec => []BilledOnce
<1>1. BilledInv => BilledOnce
  BY DEF BilledInv
<1>2. QED
  BY <1>1, BilledInvCorrect, PTL
=============================================================================
