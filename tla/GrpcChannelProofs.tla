------------------------- MODULE GrpcChannelProofs -------------------------
(***************************************************************************)
(* Proofs about GrpcChannel, for any number of requests and channels and   *)
(* any bounds: its inductive invariant, and with it that a channel given   *)
(* up stays out of the holder.                                             *)
(***************************************************************************)
EXTENDS GrpcChannel, TLAPS

(* The loop of get_response runs at least once, and its exit test is exact: *)
(* while it goes on there is budget left, and it ends on the last attempt.  *)
LEMMA BudgetExact ==
  /\ Budget \in Nat
  /\ 0 < Budget
  /\ \A n \in Nat : n < Budget =>
       /\ ~(n + 1 >= MaxAttempts) => n + 1 < Budget
       /\ n + 1 >= MaxAttempts => n + 1 = Budget
BY ConstantsAssumption, SMT DEF ConstantsAssumption, Budget

LEMMA InitIInv == Init => IInv
<1> SUFFICES ASSUME Init PROVE IInv
  OBVIOUS
<1>1. TypeOK
  <2>1. pc \in [Procs -> Labels]
    BY DEF Init, Labels
  <2>2. /\ attemptNo \in [Requests -> 0 .. Budget]
        /\ connectNo \in [Procs -> 0 .. LastConnectAttempt + 1]
    BY BudgetExact, ConstantsAssumption DEF Init, ConstantsAssumption
  <2>3. /\ sent \in [Requests -> SUBSET Attempts]
        /\ executed \in [Requests -> SUBSET Attempts]
    BY DEF Init
  <2> QED
    BY <2>1, <2>2, <2>3 DEF Init, TypeOK
<1>2. AttemptBound
  BY BudgetExact DEF Init, AttemptBound
<1>3. \A p \in Procs : chan[p] = NoChannel /\ pc[p] # "set"
  BY DEF Init
<1> QED
  BY <1>1, <1>2, <1>3
     DEF IInv, PrivateChannel, NoChannelBeforeStart, FailedChannelStaysOut, Procs

-----------------------------------------------------------------------------
(* A failed attempt: what get_response and the ping loop change, and that a *)
(* request which goes on has budget left.                                   *)
LEMMA FailedEffect ==
  ASSUME TypeOK, AttemptBound,
         NEW p \in Procs, NEW e \in Errors, pc[p] # "done", Failed(p, e)
  PROVE  /\ pc' \in [Procs -> Labels]
         /\ chan' \in [Procs -> Channels \union {NoChannel}]
         /\ result' \in [Procs -> Errors \union {"none", "ok", "panic"}]
         /\ attemptNo' \in [Requests -> 0 .. Budget]
         /\ pc'[p] \in {"get", "sleep", "done"}
         /\ chan'[p] \in {chan[p], NoChannel}
         /\ result'[p] = e
         /\ p \in Requests /\ pc'[p] # "done" => attemptNo'[p] < Budget
         /\ \A q \in Procs \ {p} : pc'[q] = pc[q] /\ chan'[q] = chan[q]
         /\ \A q \in Procs \ {p} : result'[q] = result[q]
         /\ \A r \in Requests \ {p} : attemptNo'[r] = attemptNo[r]
<1>1. CASE p = Ping /\ PingErr(e)
  BY <1>1, ConstantsAssumption
     DEF PingErr, Goto, TypeOK, Labels, Procs, ConstantsAssumption
<1>2. CASE p \in Requests /\ AttemptFailed(p, e)
  <2>1. attemptNo[p] \in Nat /\ attemptNo[p] < Budget
    BY <1>2, BudgetExact DEF TypeOK, AttemptBound
  <2>2. /\ attemptNo[p] + 1 \in 0 .. Budget
        /\ ~(attemptNo[p] + 1 >= MaxAttempts) => attemptNo[p] + 1 < Budget
    BY <2>1, BudgetExact
  <2> QED
    BY <1>2, <2>2, ConstantsAssumption
       DEF AttemptFailed, Goto, TypeOK, Labels, Procs, ConstantsAssumption
<1> QED
  BY <1>1, <1>2 DEF Failed

(* A step of Next is a step of one of the tasks or of the environment. *)
LEMMA NextCases ==
  ASSUME Next
  PROVE  \/ \E r \in Requests : Start(r) \/ CallOk(r) \/ CallOtherStatus(r) \/ CallFailed(r)
         \/ \E p \in Procs : Connect(p) \/ DropChannel(p)
         \/ PingWake \/ PingOk \/ PingFailed
         \/ Environment
BY DEF Next, RequestStep, PingStep, Procs

LEMMA TypeStep ==
  ASSUME TypeOK, AttemptBound, [Next]_vars
  PROVE  TypeOK' /\ AttemptBound'
<1> USE ConstantsAssumption, BudgetExact DEF Procs
<1>1. CASE UNCHANGED vars
  BY <1>1 DEF vars, clientVars, envVars, TypeOK, AttemptBound
<1>2. ASSUME NEW r \in Requests, Start(r) PROVE TypeOK' /\ AttemptBound'
  BY <1>2 DEF Start, Goto, TypeOK, AttemptBound, Labels, envVars
<1>3. ASSUME NEW r \in Requests, CallOk(r) PROVE TypeOK' /\ AttemptBound'
  BY <1>3 DEF CallOk, Goto, TypeOK, AttemptBound, Labels, envVars
<1>4. ASSUME NEW r \in Requests, CallOtherStatus(r) PROVE TypeOK' /\ AttemptBound'
  <2>1. r \in Procs /\ "status" \in Errors /\ pc[r] # "done" /\ Failed(r, "status")
    BY <1>4 DEF CallOtherStatus, Failed, Errors
  <2> QED
    BY <1>4, <2>1, FailedEffect DEF CallOtherStatus, TypeOK, AttemptBound, envVars
<1>5. ASSUME NEW r \in Requests, CallFailed(r) PROVE TypeOK' /\ AttemptBound'
  BY <1>5 DEF CallFailed, Goto, TypeOK, AttemptBound, Labels, envVars
<1>6. ASSUME NEW p \in Procs, Connect(p) PROVE TypeOK' /\ AttemptBound'
  <2>1. CASE GetHeld(p)
    BY <1>6, <2>1 DEF GetHeld, Goto, TypeOK, AttemptBound, Labels, envVars
  <2>2. CASE GetEmpty(p)
    BY <1>6, <2>2 DEF GetEmpty, Goto, TypeOK, AttemptBound, Labels, envVars
  <2>3. CASE ReadUrl(p)
    BY <1>6, <2>3 DEF ReadUrl, Goto, TypeOK, AttemptBound, Labels, envVars
  <2>4. CASE UrlPanic(p)
    BY <1>6, <2>4 DEF UrlPanic, Goto, TypeOK, AttemptBound, Labels, envVars
  <2>5. CASE Connected(p)
    BY <1>6, <2>5 DEF Connected, Goto, TypeOK, AttemptBound, Labels, Free
  <2>6. CASE ConnectAgain(p)
    BY <1>6, <2>6 DEF ConnectAgain, TypeOK, AttemptBound, envVars
  <2>7. CASE ConnectFailed(p)
    <3>1. "lost" \in Errors /\ pc[p] # "done" /\ Failed(p, "lost")
      BY <2>7 DEF ConnectFailed, Errors
    <3> QED
      BY <2>7, <3>1, FailedEffect, SMTT(30) DEF ConnectFailed, TypeOK, AttemptBound, envVars
  <2>8. CASE Set(p)
    BY <1>6, <2>8 DEF Set, Goto, TypeOK, AttemptBound, Labels, envVars
  <2> QED
    BY <1>6, <2>1, <2>2, <2>3, <2>4, <2>5, <2>6, <2>7, <2>8 DEF Connect
<1>7. ASSUME NEW p \in Procs, DropChannel(p) PROVE TypeOK' /\ AttemptBound'
  <2>1. "lost" \in Errors /\ pc[p] # "done" /\ Failed(p, "lost")
    BY <1>7 DEF DropChannel, Errors
  <2> QED
    BY <1>7, <2>1, FailedEffect DEF DropChannel, TypeOK, AttemptBound, envVars
<1>8. CASE PingWake
  BY <1>8 DEF PingWake, Goto, TypeOK, AttemptBound, Labels, envVars
<1>9. CASE PingOk
  BY <1>9 DEF PingOk, Goto, TypeOK, AttemptBound, Labels, envVars
<1>10. CASE PingFailed
  BY <1>10 DEF PingFailed, Goto, TypeOK, AttemptBound, Labels, envVars
<1>11. CASE Environment
  <2>1. ASSUME NEW r \in Requests, Send(r) PROVE TypeOK' /\ AttemptBound'
    <3>1. attemptNo[r] \in Attempts
      BY <2>1 DEF Send, TypeOK, AttemptBound, Attempts
    <3> QED
      BY <2>1, <3>1 DEF Send, TypeOK, AttemptBound, envVars
  <2> QED
    BY <1>11, <2>1
       DEF Environment, Execute, Outage, Recovery, Break, Reopen, Reconfigure,
           clientVars, TypeOK, AttemptBound
<1> QED
  BY <1>1, <1>2, <1>3, <1>4, <1>5, <1>6, <1>7, <1>8, <1>9, <1>10, <1>11, NextCases

-----------------------------------------------------------------------------
(* What the tasks know of each other's channels. *)
Ownership == PrivateChannel /\ NoChannelBeforeStart /\ FailedChannelStaysOut

(* A task that only moves on to a place where it waits for nothing, with   *)
(* its channel or without one, endangers nobody's channel.                 *)
OthersStay(p) ==
  \A q \in Procs \ {p} : pc'[q] = pc[q] /\ chan'[q] = chan[q] /\ result'[q] = result[q]

SafeMove(p) ==
  /\ held' \in {held, NoChannel}
  /\ OthersStay(p)
  /\ chan'[p] \in {chan[p], NoChannel}
  /\ pc'[p] \notin {"set", "idle"}
  /\ \/ chan'[p] = NoChannel
     \/ held' # chan'[p]
     \/ pc'[p] \in {"call", "drop", "done"}
     \/ pc'[p] \in {"get", "sleep"} /\ result'[p] # "lost"

LEMMA OwnershipKept ==
  ASSUME IInv, TypeOK', NEW p \in Procs, SafeMove(p)
  PROVE  Ownership'
<1> USE ConstantsAssumption DEF Procs
<1>1. PrivateChannel'
  BY DEF IInv, PrivateChannel, TypeOK, SafeMove, OthersStay, ConstantsAssumption
<1>2. NoChannelBeforeStart'
  BY DEF IInv, NoChannelBeforeStart, SafeMove, OthersStay
<1>3. FailedChannelStaysOut'
  BY DEF IInv, FailedChannelStaysOut, TypeOK, SafeMove, OthersStay
<1> QED
  BY <1>1, <1>2, <1>3 DEF Ownership

LEMMA OwnershipStep ==
  ASSUME IInv, TypeOK', [Next]_vars
  PROVE  Ownership'
<1> USE ConstantsAssumption DEF Procs, OthersStay
<1>0. TypeOK /\ AttemptBound
  BY DEF IInv
<1>1. CASE UNCHANGED vars
  BY <1>1 DEF vars, clientVars, Ownership, IInv, PrivateChannel, NoChannelBeforeStart,
              FailedChannelStaysOut
<1>2. ASSUME NEW r \in Requests, Start(r) PROVE Ownership'
  <2>1. /\ held' = held /\ OthersStay(r)
        /\ chan'[r] = NoChannel /\ pc'[r] = "get"
    BY <1>0, <1>2 DEF Start, Goto, TypeOK, IInv, NoChannelBeforeStart
  <2> QED
    BY <2>1, OwnershipKept DEF SafeMove
<1>3. ASSUME NEW r \in Requests, CallOk(r) \/ CallFailed(r) PROVE Ownership'
  <2>1. /\ held' = held /\ OthersStay(r)
        /\ chan'[r] \in {chan[r], NoChannel} /\ pc'[r] \in {"done", "drop"}
    BY <1>0, <1>3 DEF CallOk, CallFailed, Goto, TypeOK
  <2> QED
    BY <2>1, OwnershipKept DEF SafeMove
<1>4. ASSUME NEW r \in Requests, CallOtherStatus(r) PROVE Ownership'
  <2>1. r \in Procs /\ "status" \in Errors /\ pc[r] # "done" /\ Failed(r, "status")
    BY <1>4 DEF CallOtherStatus, Failed, Errors
  <2>2. /\ held' = held /\ OthersStay(r)
        /\ chan'[r] \in {chan[r], NoChannel}
        /\ pc'[r] \in {"get", "sleep", "done"} /\ result'[r] # "lost"
    BY <1>0, <1>4, <2>1, FailedEffect DEF CallOtherStatus
  <2> QED
    BY <2>2, OwnershipKept DEF SafeMove
<1>5. ASSUME NEW p \in Procs, Connect(p) PROVE Ownership'
  <2>1. CASE GetHeld(p)
    BY <1>0, <2>1
       DEF GetHeld, Goto, TypeOK, Ownership, IInv, PrivateChannel,
           NoChannelBeforeStart, FailedChannelStaysOut
  <2>2. CASE GetEmpty(p) \/ ReadUrl(p)
    <3>1. /\ held' = held /\ OthersStay(p) /\ chan'[p] = chan[p]
          /\ pc'[p] \in {"url", "connect"}
          /\ chan[p] = NoChannel \/ held # chan[p]
      BY <1>0, <2>2
         DEF GetEmpty, ReadUrl, Goto, TypeOK, IInv, FailedChannelStaysOut
    <3> QED
      BY <3>1, OwnershipKept DEF SafeMove
  <2>3. CASE UrlPanic(p)
    <3>1. held' = held /\ OthersStay(p) /\ chan'[p] = NoChannel /\ pc'[p] = "done"
      BY <1>0, <2>3 DEF UrlPanic, Goto, TypeOK
    <3> QED
      BY <3>1, OwnershipKept DEF SafeMove
  <2>4. CASE Connected(p)
    <3>1. PICK c \in Free : chan' = [chan EXCEPT ![p] = c]
      BY <2>4 DEF Connected
    <3>2. c \in Channels /\ c # held /\ \A q \in Procs : c # chan[q]
      BY <3>1 DEF Free
    <3>3. held' = held /\ result' = result /\ pc' = [pc EXCEPT ![p] = "set"]
      BY <2>4 DEF Connected, Goto
    <3>4. pc[p] # "idle"
      BY <2>4 DEF Connected
    <3> QED
      BY <1>0, <3>1, <3>2, <3>3, <3>4
         DEF TypeOK, Ownership, IInv, PrivateChannel, NoChannelBeforeStart,
             FailedChannelStaysOut
  <2>5. CASE ConnectAgain(p)
    BY <1>0, <2>5
       DEF ConnectAgain, Ownership, IInv, PrivateChannel, NoChannelBeforeStart,
           FailedChannelStaysOut
  <2>6. CASE ConnectFailed(p)
    <3>1. "lost" \in Errors /\ pc[p] # "done" /\ Failed(p, "lost")
      BY <2>6 DEF ConnectFailed, Errors
    <3>2. chan[p] = NoChannel \/ held # chan[p]
      BY <2>6 DEF ConnectFailed, IInv, FailedChannelStaysOut
    <3>3. /\ held' = held /\ OthersStay(p)
          /\ chan'[p] \in {chan[p], NoChannel}
          /\ pc'[p] \in {"get", "sleep", "done"}
      BY <1>0, <2>6, <3>1, FailedEffect DEF ConnectFailed
    <3> QED
      BY <3>2, <3>3, OwnershipKept DEF SafeMove
  <2>7. CASE Set(p)
    <3>1. /\ held' = chan[p] /\ chan' = chan /\ result' = result
          /\ pc' = [pc EXCEPT ![p] = "call"]
      BY <2>7 DEF Set, Goto
    <3>2. \A q \in Procs \ {p} : chan[q] # chan[p]
      BY <2>7 DEF Set, IInv, PrivateChannel
    <3> QED
      BY <1>0, <3>1, <3>2
         DEF TypeOK, Ownership, IInv, PrivateChannel, NoChannelBeforeStart,
             FailedChannelStaysOut
  <2> QED
    BY <1>5, <2>1, <2>2, <2>3, <2>4, <2>5, <2>6, <2>7 DEF Connect
<1>6. ASSUME NEW p \in Procs, DropChannel(p) PROVE Ownership'
  <2>1. "lost" \in Errors /\ pc[p] # "done" /\ Failed(p, "lost")
    BY <1>6 DEF DropChannel, Errors
  <2>2. /\ held' = NoChannel /\ OthersStay(p)
        /\ chan'[p] \in {chan[p], NoChannel}
        /\ pc'[p] \in {"get", "sleep", "done"}
    BY <1>0, <1>6, <2>1, FailedEffect DEF DropChannel
  <2> QED
    BY <2>2, OwnershipKept DEF SafeMove
<1>7. CASE PingWake
  BY <1>0, <1>7
     DEF PingWake, Goto, TypeOK, Ownership, IInv, PrivateChannel, NoChannelBeforeStart,
         FailedChannelStaysOut, ConstantsAssumption
<1>8. CASE PingOk \/ PingFailed
  <2>1. /\ held' = held /\ OthersStay(Ping)
        /\ \/ chan'[Ping] = NoChannel /\ pc'[Ping] = "sleep"
           \/ chan'[Ping] = chan[Ping] /\ pc'[Ping] = "drop"
    BY <1>0, <1>8 DEF PingOk, PingFailed, Goto, TypeOK
  <2> QED
    BY <2>1, OwnershipKept DEF SafeMove
<1>9. CASE Environment
  BY <1>9
     DEF Environment, Send, Execute, Outage, Recovery, Break, Reopen, Reconfigure,
         clientVars, Ownership, IInv, PrivateChannel, NoChannelBeforeStart, FailedChannelStaysOut
<1> QED
  BY <1>1, <1>2, <1>3, <1>4, <1>5, <1>6, <1>7, <1>8, <1>9, NextCases

(* IInv holds in every reachable state: it is inductive. *)
THEOREM Invariance == Spec => []IInv
<1>1. IInv /\ [Next]_vars => IInv'
  BY TypeStep, OwnershipStep DEF IInv, Ownership
<1> QED
  BY InitIInv, <1>1, PTL DEF Spec

(* Every variable stays within its type: no request exceeds its budget of  *)
(* attempts and no connect loop exceeds its bound, whatever the bounds are. *)
THEOREM TypeCorrect == Spec => []TypeOK
BY Invariance, PTL DEF IInv

(* However many tasks share the holder, set it late and drop what they did *)
(* not use, a task never gets back a channel that it has given up.         *)
THEOREM FailedChannelNeverReturns == Spec => []FailedChannelStaysOut
BY Invariance, PTL DEF IInv

-----------------------------------------------------------------------------
(* The refinement: every step of the client is a step of RetriedCall.      *)

LEMMA StatusSame ==
  ASSUME \A r \in Requests : pc'[r] = pc[r] /\ result'[r] = result[r]
  PROVE  status' = status
BY DEF status

LEMMA StatusFrame ==
  ASSUME NEW r \in Requests,
         \A q \in Requests \ {r} : pc'[q] = pc[q] /\ result'[q] = result[q]
  PROVE  status' = [status EXCEPT ![r] = status'[r]]
BY DEF status

LEMMA FailedResolves ==
  ASSUME IInv, NEW r \in Requests, NEW e \in Errors, AttemptFailed(r, e),
         pc[r] \notin {"idle", "done"}, sent' = sent, executed' = executed
  PROVE  RC!Resolve(r)
<1> DEFINE a == attemptNo[r]
<1>1. a \in Nat /\ a < Budget
  BY BudgetExact DEF IInv, TypeOK, AttemptBound
<1>2. /\ pc' = [pc EXCEPT ![r] = IF a + 1 >= MaxAttempts THEN "done" ELSE "get"]
      /\ result' = [result EXCEPT ![r] = e]
      /\ attemptNo' = [attemptNo EXCEPT ![r] = @ + 1]
  BY DEF AttemptFailed, Goto
<1>3. r \in Procs /\ pc \in [Procs -> Labels] /\ DOMAIN result = Procs
  BY DEF IInv, TypeOK, Procs
<1>4. status[r] = "pending"
  BY DEF status
<1>5. status' = [status EXCEPT ![r] = status'[r]]
  BY <1>2, <1>3, StatusFrame DEF Procs
<1>6. CASE a + 1 >= MaxAttempts
  <2>1. status'[r] = "error" /\ a + 1 = Budget
    BY <1>1, <1>2, <1>3, <1>6, BudgetExact DEF status
  <2> QED
    BY <1>2, <1>4, <1>5, <2>1 DEF RC!Resolve, RC!Fail
<1>7. CASE ~(a + 1 >= MaxAttempts)
  <2>1. status'[r] = "pending" /\ a + 1 < Budget
    BY <1>1, <1>2, <1>3, <1>7, BudgetExact DEF status
  <2>2. status' = status
    BY <1>4, <1>5, <2>1 DEF status
  <2> QED
    BY <1>2, <1>4, <2>1, <2>2 DEF RC!Resolve, RC!Retry
<1> QED
  BY <1>6, <1>7

LEMMA RefinementStep ==
  ASSUME IInv, [Next]_vars
  PROVE  [RC!Next]_RC!vars
<1> USE ConstantsAssumption DEF Procs
<1>0. TypeOK
  BY DEF IInv
<1>1. CASE UNCHANGED vars
  BY <1>1, StatusSame DEF vars, clientVars, envVars, RC!vars
<1>2. ASSUME NEW r \in Requests, Start(r) PROVE [RC!Next]_RC!vars
  <2>1. status[r] = "idle" /\ status'[r] = "pending"
    BY <1>0, <1>2 DEF Start, Goto, status, TypeOK
  <2>2. status' = [status EXCEPT ![r] = status'[r]]
    BY <1>0, <1>2, StatusFrame DEF Start, Goto, TypeOK
  <2> QED
    BY <1>2, <2>1, <2>2 DEF Start, envVars, RC!Next, RC!Begin
<1>3. ASSUME NEW r \in Requests, CallOk(r) PROVE [RC!Next]_RC!vars
  <2>1. status[r] = "pending" /\ status'[r] = "ok"
    BY <1>0, <1>3 DEF CallOk, Goto, status, TypeOK, Errors
  <2>2. status' = [status EXCEPT ![r] = status'[r]]
    BY <1>0, <1>3, StatusFrame DEF CallOk, Goto, TypeOK
  <2> QED
    BY <1>3, <2>1, <2>2 DEF CallOk, envVars, RC!Next, RC!Resolve, RC!Succeed
<1>4. ASSUME NEW r \in Requests, CallOtherStatus(r) PROVE [RC!Next]_RC!vars
  BY <1>4, FailedResolves DEF CallOtherStatus, Errors, envVars, RC!Next
<1>5. ASSUME NEW r \in Requests, CallFailed(r) PROVE [RC!Next]_RC!vars
  <2>1. status' = status
    BY <1>0, <1>5 DEF CallFailed, Goto, TypeOK, status
  <2> QED
    BY <1>5, <2>1 DEF CallFailed, envVars, RC!vars
<1>6. ASSUME NEW p \in Procs, NEW e \in Errors, Failed(p, e),
             pc[p] \notin {"idle", "done"}, sent' = sent, executed' = executed
      PROVE  [RC!Next]_RC!vars
  <2>1. CASE p = Ping /\ PingErr(e)
    <3>1. status' = status
      BY <1>0, <2>1, StatusSame DEF PingErr, Goto, TypeOK, ConstantsAssumption
    <3> QED
      BY <1>6, <2>1, <3>1 DEF PingErr, RC!vars
  <2>2. CASE p \in Requests /\ AttemptFailed(p, e)
    BY <1>6, <2>2, FailedResolves DEF RC!Next
  <2> QED
    BY <1>6, <2>1, <2>2 DEF Failed
<1>7. ASSUME NEW p \in Procs, Connect(p) PROVE [RC!Next]_RC!vars
  <2>1. CASE GetHeld(p) \/ Set(p)
    <3>1. status' = status
      BY <1>0, <2>1 DEF GetHeld, Set, Goto, TypeOK, status
    <3> QED
      BY <2>1, <3>1 DEF GetHeld, Set, envVars, RC!vars
  <2>2. CASE GetEmpty(p) \/ ReadUrl(p) \/ Connected(p) \/ ConnectAgain(p)
    <3>1. status' = status
      BY <1>0, <2>2
         DEF GetEmpty, ReadUrl, Connected, ConnectAgain, Goto, TypeOK, status
    <3> QED
      BY <2>2, <3>1 DEF GetEmpty, ReadUrl, Connected, ConnectAgain, envVars, RC!vars
  <2>3. CASE UrlPanic(p)
    <3>1. CASE p = Ping
      <4>1. status' = status
        BY <1>0, <2>3, <3>1, StatusSame DEF UrlPanic, Goto, TypeOK, ConstantsAssumption
      <4> QED
        BY <2>3, <4>1 DEF UrlPanic, envVars, RC!vars
    <3>2. CASE p \in Requests
      <4>1. status[p] = "pending" /\ status'[p] = "panic"
        BY <1>0, <2>3, <3>2 DEF UrlPanic, Goto, status, TypeOK, Errors
      <4>2. status' = [status EXCEPT ![p] = status'[p]]
        BY <1>0, <2>3, <3>2, StatusFrame DEF UrlPanic, Goto, TypeOK
      <4> QED
        BY <2>3, <3>2, <4>1, <4>2
           DEF UrlPanic, envVars, RC!Next, RC!Resolve, RC!Panic
    <3> QED
      BY <3>1, <3>2
  <2>4. CASE ConnectFailed(p)
    BY <1>6, <2>4 DEF ConnectFailed, Errors, envVars
  <2> QED
    BY <1>7, <2>1, <2>2, <2>3, <2>4 DEF Connect
<1>8. ASSUME NEW p \in Procs, DropChannel(p) PROVE [RC!Next]_RC!vars
  BY <1>6, <1>8 DEF DropChannel, Errors, envVars
<1>9. CASE PingWake \/ PingOk \/ PingFailed
  <2>1. status' = status
    BY <1>0, <1>9, StatusSame
       DEF PingWake, PingOk, PingFailed, Goto, TypeOK, ConstantsAssumption
  <2> QED
    BY <1>9, <2>1 DEF PingWake, PingOk, PingFailed, envVars, RC!vars
<1>10. CASE Environment
  <2>1. CASE \E r \in Requests : Send(r)
    <3>1. PICK r \in Requests : Send(r)
      BY <2>1
    <3>2. status' = status /\ status[r] = "pending"
      BY <3>1, StatusSame DEF Send, status
    <3> QED
      BY <3>1, <3>2 DEF Send, envVars, RC!Next, RC!Issue
  <2>2. CASE ~\E r \in Requests : Send(r)
    <3>1. UNCHANGED clientVars /\ (executed' = executed \/ \E r \in Requests : Execute(r))
      BY <1>10, <2>2
         DEF Environment, Execute, Outage, Recovery, Break, Reopen, Reconfigure
    <3>2. status' = status
      BY <3>1, StatusSame DEF clientVars
    <3> QED
      BY <3>1, <3>2 DEF clientVars, Execute, RC!vars, RC!Next, RC!Execute
  <2> QED
    BY <2>1, <2>2
<1> QED
  BY <1>1, <1>2, <1>3, <1>4, <1>5, <1>7, <1>8, <1>9, <1>10, NextCases

(* Whatever the holder, the ping loop, the network and the settings do, the *)
(* requests behave as RetriedCall: at most Budget attempts, each executed   *)
(* at most once, success only of an executed attempt, an error only once    *)
(* the budget is spent.                                                     *)
THEOREM ClientImplementsRetriedCall == Spec => ImplementsRetriedCall
<1>1. Init => RC!Init
  BY ConstantsAssumption DEF Init, RC!Init, status, Procs, ConstantsAssumption
<1> QED
  BY <1>1, RefinementStep, Invariance, PTL DEF Spec, ImplementsRetriedCall, RC!Spec

=============================================================================
