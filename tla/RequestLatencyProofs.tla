------------------------ MODULE RequestLatencyProofs ------------------------
(***************************************************************************)
(* The proof of LatencyBound, for any bounds: the awaits of a request are  *)
(* paid for by its failed attempts and by where it is in the current one.  *)
(***************************************************************************)
EXTENDS RequestLatency, GrpcChannelProofs

Allowance(n) == n * WaitsPerAttempt

(* The awaits the current attempt may have cost so far. *)
Spent(r) ==
  IF pc[r] \in {"idle", "get", "url"} THEN 0
  ELSE IF pc[r] = "connect" THEN connectNo[r]
  ELSE IF pc[r] \in {"set", "call"} THEN LastConnectAttempt + 2
  ELSE WaitsPerAttempt

Paid(r) ==
  /\ waits[r] \in Nat
  /\ pc[r] = "done" => waits[r] <= Allowance(Budget)
  /\ pc[r] # "done" => waits[r] <= Allowance(attemptNo[r]) + Spent(r)

LInv ==
  /\ waits = [r \in Requests |-> waits[r]]
  /\ \A r \in Requests : Paid(r)

LEMMA WaitsValue == WaitsPerAttempt \in Nat /\ WaitsPerAttempt = LastConnectAttempt + 3
BY ConstantsAssumption DEF ConstantsAssumption, WaitsPerAttempt

LEMMA Allowances ==
  /\ \A n \in Nat : Allowance(n) \in Nat
  /\ \A m, n \in Nat : n = m + 1 => Allowance(n) = Allowance(m) + WaitsPerAttempt
  /\ \A m, n \in Nat : m < n => Allowance(m) + WaitsPerAttempt <= Allowance(n)
<1>1. \A k, n \in Nat : n * k \in Nat /\ (n + 1) * k = n * k + k
  OBVIOUS
<1>2. \A k, m, n \in Nat : m < n => m * k + k <= n * k
  <2> SUFFICES ASSUME NEW k \in Nat, NEW m \in Nat, NEW n \in Nat, m < n
               PROVE  m * k + k <= n * k
    OBVIOUS
  <2>1. PICK d \in Nat : n = m + 1 + d
    <3>1. n - m - 1 \in Nat /\ n = m + 1 + (n - m - 1)
      OBVIOUS
    <3> QED
      BY <3>1
  <2>2. n * k = m * k + k + d * k /\ d * k \in Nat /\ m * k \in Nat
    BY <2>1
  <2> QED
    BY <2>2
<1> QED
  BY <1>1, <1>2, WaitsValue DEF Allowance

-----------------------------------------------------------------------------
(* What the step costs a request. *)
Cost(q) == IF EndsAwait(q) THEN 1 ELSE 0

LEMMA CostCounted ==
  ASSUME LInv, TimedNext, NEW q \in Requests
  PROVE  Cost(q) \in {0, 1} /\ waits[q] \in Nat /\ waits'[q] = waits[q] + Cost(q)
<1>1. waits[q] \in Nat
  BY DEF LInv, Paid
<1>2. CASE EndsAwait(q)
  BY <1>1, <1>2 DEF TimedNext, Cost, EndsAwait
<1>3. CASE ~EndsAwait(q)
  BY <1>1, <1>3 DEF TimedNext, Cost, EndsAwait
<1> QED
  BY <1>2, <1>3, <1>1

LEMMA SpentBounded ==
  ASSUME TypeOK, NEW q \in Requests
  PROVE  Spent(q) \in Nat /\ Spent(q) <= WaitsPerAttempt
BY WaitsValue, ConstantsAssumption DEF Spent, TypeOK, Procs, ConstantsAssumption

(* A request that the step does not move stays paid for. *)
LEMMA PaidFrame ==
  ASSUME LInv, TimedNext, NEW q \in Requests,
         pc'[q] = pc[q], connectNo'[q] = connectNo[q], attemptNo'[q] = attemptNo[q]
  PROVE  Paid(q)'
<1>1. waits'[q] = waits[q]
  BY DEF TimedNext, EndsAwait
<1> QED
  BY <1>1 DEF LInv, Paid, Spent

(* A failed attempt costs no more than one attempt's allowance. *)
LEMMA PaidFailure ==
  ASSUME IInv, LInv, TimedNext, NEW q \in Requests, NEW e \in Errors,
         AttemptFailed(q, e), pc[q] # "done",
         Spent(q) + Cost(q) <= WaitsPerAttempt
  PROVE  Paid(q)'
<1> DEFINE a == attemptNo[q]
<1>1. a \in Nat /\ a < Budget /\ Budget \in Nat
  BY BudgetExact DEF IInv, TypeOK, AttemptBound
<1>2. attemptNo'[q] = a + 1 /\ pc'[q] = IF a + 1 >= MaxAttempts THEN "done" ELSE "get"
  BY DEF AttemptFailed, Goto, IInv, TypeOK, Procs
<1>3. waits'[q] = waits[q] + Cost(q) /\ Cost(q) \in {0, 1}
  BY CostCounted
<1>4. waits[q] \in Nat /\ waits[q] <= Allowance(a) + Spent(q)
  BY DEF LInv, Paid
<1>5. Spent(q) \in Nat
  BY SpentBounded DEF IInv
<1>6. waits'[q] \in Nat /\ waits'[q] <= Allowance(a) + WaitsPerAttempt
  <2>1. Allowance(a) \in Nat
    BY <1>1, Allowances
  <2> QED
    BY <1>3, <1>4, <1>5, <2>1, WaitsValue
<1>7. /\ Allowance(a) + WaitsPerAttempt = Allowance(a + 1)
      /\ Allowance(a) + WaitsPerAttempt <= Allowance(Budget)
  BY <1>1, Allowances, SMTT(30)
<1>8. Allowance(attemptNo[q])' = Allowance(a + 1)
  BY <1>2 DEF Allowance, WaitsPerAttempt
<1>9. Allowance(Budget)' = Allowance(Budget) /\ (pc'[q] = "get" => Spent(q)' = 0)
  BY DEF Allowance, WaitsPerAttempt, Spent, Budget
<1>10. a + 1 \in Nat /\ Allowance(a + 1) \in Nat /\ Allowance(Budget) \in Nat
  BY <1>1, Allowances, SMTT(30)
<1> QED
  BY <1>2, <1>6, <1>7, <1>8, <1>9, <1>10 DEF Paid

(* A step inside an attempt is paid by the place it leads to. *)
LEMMA PaidMove ==
  ASSUME IInv, LInv, TimedNext, NEW q \in Requests, pc[q] # "done",
         attemptNo'[q] = attemptNo[q], Spent(q)' \in Nat,
         Spent(q) + Cost(q)
           <= IF pc'[q] = "done" THEN WaitsPerAttempt ELSE Spent(q)'
  PROVE  Paid(q)'
<1> DEFINE a == attemptNo[q]
<1>1. a \in Nat /\ a < Budget /\ Budget \in Nat
  BY BudgetExact DEF IInv, TypeOK, AttemptBound
<1>2. waits'[q] = waits[q] + Cost(q) /\ Cost(q) \in {0, 1}
  BY CostCounted
<1>3. waits[q] \in Nat /\ waits[q] <= Allowance(a) + Spent(q)
  BY DEF LInv, Paid
<1>4. Spent(q) \in Nat
  BY SpentBounded DEF IInv
<1>5. /\ Allowance(a) \in Nat /\ Allowance(Budget) \in Nat
      /\ Allowance(a) + WaitsPerAttempt <= Allowance(Budget)
  BY <1>1, Allowances
<1>6. Allowance(attemptNo[q])' = Allowance(a) /\ Allowance(Budget)' = Allowance(Budget)
  BY DEF Allowance, WaitsPerAttempt, Budget
<1>7. CASE pc'[q] = "done"
  BY <1>2, <1>3, <1>4, <1>5, <1>6, <1>7, WaitsValue DEF Paid
<1>8. CASE pc'[q] # "done"
  BY <1>2, <1>3, <1>4, <1>5, <1>6, <1>8 DEF Paid
<1> QED
  BY <1>7, <1>8

LEMMA LatencyStep ==
  ASSUME IInv, LInv, [TimedNext]_timedVars
  PROVE  LInv'
<1> USE ConstantsAssumption, WaitsValue DEF Procs
<1>0. TypeOK
  BY DEF IInv
<1>1. CASE UNCHANGED timedVars
  BY <1>1 DEF timedVars, vars, clientVars, LInv, Paid, Spent, Allowance, Budget, WaitsPerAttempt
<1>2. CASE TimedNext
  <2>1. waits' = [r \in Requests |-> waits'[r]]
    BY <1>2 DEF TimedNext
  <2>2. ASSUME NEW q \in Requests PROVE Paid(q)'
    <3> DEFINE Still == /\ pc'[q] = pc[q] /\ connectNo'[q] = connectNo[q]
                        /\ attemptNo'[q] = attemptNo[q]
    <3> DEFINE Moves == /\ pc[q] # "done" /\ attemptNo'[q] = attemptNo[q]
                        /\ Spent(q)' \in Nat
                        /\ Spent(q) + Cost(q)
                             <= IF pc'[q] = "done" THEN WaitsPerAttempt ELSE Spent(q)'
    <3>1. Still => Paid(q)'
      BY <1>2, PaidFrame
    <3>2. Moves => Paid(q)'
      BY <1>2, PaidMove
    <3>3. ASSUME NEW r \in Requests, Start(r) \/ CallOk(r) \/ CallFailed(r)
          PROVE  Still \/ Moves
      BY <1>0, <3>3
         DEF Start, CallOk, CallFailed, Goto, TypeOK, Spent, Cost, EndsAwait, ConstantsAssumption
    <3>4. ASSUME NEW r \in Requests, CallOtherStatus(r) PROVE Paid(q)'
      <4>1. CASE q = r
        BY <1>2, <3>4, <4>1, PaidFailure
           DEF CallOtherStatus, Spent, Cost, EndsAwait, Errors, ConstantsAssumption
      <4>2. CASE q # r
        BY <1>0, <3>1, <3>4, <4>2 DEF CallOtherStatus, AttemptFailed, Goto, TypeOK
      <4> QED
        BY <4>1, <4>2
    <3>5. ASSUME NEW p \in Procs, Connect(p) PROVE Paid(q)'
      <4>1. CASE GetHeld(p) \/ Set(p)
        <5>1. Still \/ Moves
          BY <1>0, <4>1
             DEF GetHeld, Set, Goto, TypeOK, Spent, Cost, EndsAwait, ConstantsAssumption
        <5> QED
          BY <5>1, <3>1, <3>2
      <4>2. CASE GetEmpty(p) \/ ReadUrl(p) \/ UrlPanic(p)
        <5>1. Still \/ Moves
          BY <1>0, <4>2
             DEF GetEmpty, ReadUrl, UrlPanic, Goto, TypeOK, Spent, Cost, EndsAwait,
                 ConstantsAssumption
        <5> QED
          BY <5>1, <3>1, <3>2
      <4>3. CASE Connected(p) \/ ConnectAgain(p)
        <5>1. Still \/ Moves
          BY <1>0, <4>3
             DEF Connected, ConnectAgain, Goto, TypeOK, Spent, Cost, EndsAwait, ConstantsAssumption
        <5> QED
          BY <5>1, <3>1, <3>2
      <4>4. CASE ConnectFailed(p) /\ p = q
        BY <1>0, <1>2, <4>4, PaidFailure
           DEF ConnectFailed, Failed, Spent, Cost, EndsAwait, Errors, TypeOK, ConstantsAssumption
      <4>5. CASE ConnectFailed(p) /\ p # q
        BY <1>0, <3>1, <4>5
           DEF ConnectFailed, Failed, PingErr, AttemptFailed, Goto, TypeOK,
               ConstantsAssumption
      <4> QED
        BY <3>5, <4>1, <4>2, <4>3, <4>4, <4>5 DEF Connect
    <3>6. ASSUME NEW p \in Procs, DropChannel(p) PROVE Paid(q)'
      <4>1. CASE p = q
        BY <1>2, <3>6, <4>1, PaidFailure
           DEF DropChannel, Failed, Spent, Cost, EndsAwait, Errors, ConstantsAssumption
      <4>2. CASE p # q
        BY <1>0, <3>1, <3>6, <4>2
           DEF DropChannel, Failed, PingErr, AttemptFailed, Goto, TypeOK,
               ConstantsAssumption
      <4> QED
        BY <4>1, <4>2
    <3>7. CASE PingWake \/ PingOk \/ PingFailed
      BY <1>0, <3>1, <3>7
         DEF PingWake, PingOk, PingFailed, Goto, TypeOK, ConstantsAssumption
    <3>8. CASE Environment
      BY <3>1, <3>8
         DEF Environment, Send, Execute, Outage, Recovery, Break, Reopen, Reconfigure, clientVars
    <3> QED
      BY <1>2, <3>1, <3>2, <3>3, <3>4, <3>5, <3>6, <3>7, <3>8, NextCases DEF TimedNext
  <2> QED
    BY <2>1, <2>2 DEF LInv
<1> QED
  BY <1>1, <1>2

(* A request with n attempts never keeps its caller waiting for more than   *)
(* n * (LastConnectAttempt + 3) awaits under request_timeout.               *)
THEOREM LatencyIsBounded == TimedSpec => []LatencyBound
<1>1. TimedInit => IInv /\ LInv
  <2> SUFFICES ASSUME TimedInit PROVE IInv /\ LInv
    OBVIOUS
  <2>1. Allowance(0) \in Nat
    BY Allowances
  <2>2. ASSUME NEW r \in Requests PROVE Paid(r)
    <3>1. waits[r] = 0 /\ attemptNo[r] = 0 /\ pc[r] = "idle"
      BY ConstantsAssumption DEF TimedInit, Init, Procs, ConstantsAssumption
    <3> QED
      BY <2>1, <3>1 DEF Paid, Spent
  <2> QED
    BY <2>2, InitIInv DEF TimedInit, LInv
<1>2. IInv /\ LInv /\ [TimedNext]_timedVars => IInv' /\ LInv'
  <2>1. IInv /\ [TimedNext]_timedVars => IInv'
    BY TypeStep, OwnershipStep DEF IInv, Ownership, TimedNext, timedVars
  <2> QED
    BY <2>1, LatencyStep
<1>3. IInv /\ LInv => LatencyBound
  <2> SUFFICES ASSUME IInv, LInv, NEW r \in Requests
               PROVE  waits[r] <= Budget * WaitsPerAttempt
    BY DEF LatencyBound
  <2>1. CASE pc[r] = "done"
    BY <2>1 DEF LInv, Paid, Allowance
  <2>2. CASE pc[r] # "done"
    <3>1. attemptNo[r] \in Nat /\ attemptNo[r] < Budget /\ Budget \in Nat
      BY <2>2, BudgetExact DEF IInv, TypeOK, AttemptBound
    <3>2. Spent(r) \in Nat /\ Spent(r) <= WaitsPerAttempt
      BY SpentBounded DEF IInv
    <3>3. waits[r] \in Nat /\ waits[r] <= Allowance(attemptNo[r]) + Spent(r)
      BY <2>2 DEF LInv, Paid
    <3>4. /\ Allowance(attemptNo[r]) \in Nat /\ Allowance(Budget) \in Nat
          /\ Allowance(attemptNo[r]) + WaitsPerAttempt <= Allowance(Budget)
      BY <3>1, Allowances
    <3>5. waits[r] <= Allowance(Budget)
      BY <3>2, <3>3, <3>4, WaitsValue
    <3> QED
      BY <3>5 DEF Allowance
  <2> QED
    BY <2>1, <2>2
<1> QED
  BY <1>1, <1>2, <1>3, PTL DEF TimedSpec

=============================================================================
