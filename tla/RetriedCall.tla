---------------------------- MODULE RetriedCall ----------------------------
(***************************************************************************)
(* What a client method with retries promises its caller, with no channel, *)
(* connection, ping or timeout in sight: a call makes at most Budget       *)
(* attempts one after another, the server executes an attempt at most once *)
(* and possibly long after the client gave it up, success means that the   *)
(* current attempt was executed, and an error is reported only once the    *)
(* budget is spent.  Calls are executed at least once when they succeed,   *)
(* up to Budget times whatever they report.                                *)
(***************************************************************************)
EXTENDS Integers

CONSTANTS Requests, Budget

VARIABLES
  status,    \* "idle", "pending", "ok", "error" or "panic"
  attempt,   \* failed attempts so far
  issued,    \* attempts the server may have received
  executed   \* attempts the server has executed

vars == <<status, attempt, issued, executed>>

Init ==
  /\ status = [r \in Requests |-> "idle"]
  /\ attempt = [r \in Requests |-> 0]
  /\ issued = [r \in Requests |-> {}]
  /\ executed = [r \in Requests |-> {}]

Begin(r) ==
  /\ status[r] = "idle"
  /\ status' = [status EXCEPT ![r] = "pending"]
  /\ UNCHANGED <<attempt, issued, executed>>

Issue(r) ==
  /\ status[r] = "pending"
  /\ issued' = [issued EXCEPT ![r] = @ \union {attempt[r]}]
  /\ UNCHANGED <<status, attempt, executed>>

Execute(r) ==
  /\ \E a \in issued[r] \ executed[r] : executed' = [executed EXCEPT ![r] = @ \union {a}]
  /\ UNCHANGED <<status, attempt, issued>>

Retry(r) ==
  /\ status[r] = "pending"
  /\ attempt[r] + 1 < Budget
  /\ attempt' = [attempt EXCEPT ![r] = @ + 1]
  /\ UNCHANGED <<status, issued, executed>>

Succeed(r) ==
  /\ status[r] = "pending"
  /\ attempt[r] \in executed[r]
  /\ status' = [status EXCEPT ![r] = "ok"]
  /\ UNCHANGED <<attempt, issued, executed>>

Fail(r) ==
  /\ status[r] = "pending"
  /\ attempt[r] + 1 = Budget
  /\ status' = [status EXCEPT ![r] = "error"]
  /\ attempt' = [attempt EXCEPT ![r] = @ + 1]
  /\ UNCHANGED <<issued, executed>>

Panic(r) ==
  /\ status[r] = "pending"
  /\ status' = [status EXCEPT ![r] = "panic"]
  /\ UNCHANGED <<attempt, issued, executed>>

Resolve(r) == Retry(r) \/ Succeed(r) \/ Fail(r) \/ Panic(r)

Next == \E r \in Requests : Begin(r) \/ Issue(r) \/ Execute(r) \/ Resolve(r)

Spec == Init /\ [][Next]_vars

(* A pending call is always resolved, attempt by attempt. *)
FairSpec == Spec /\ \A r \in Requests : WF_vars(Resolve(r))
=============================================================================
