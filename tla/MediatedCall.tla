----------------------------- MODULE MediatedCall -----------------------------
(***************************************************************************)
(* What a caller of the core session is promised, with no circuit, retry   *)
(* policy, deadline or evidence in sight: an accepted call is given a      *)
(* budget of downstream runs, spends at most that budget, and ends with    *)
(* one outcome that never changes.  A success is only reported for a call  *)
(* whose tool did run.                                                     *)
(***************************************************************************)
EXTENDS Naturals

CONSTANTS Calls,    \* calls made through the session
          MaxBudget \* the largest budget of any call

VARIABLES outcome,  \* outcome[c]: "none", "pending", "ok" or "failed"
          budget,   \* budget[c]: downstream runs call c may cause
          runs      \* runs[c]: downstream runs call c has caused

vars == <<outcome, budget, runs>>

Init ==
  /\ outcome = [c \in Calls |-> "none"]
  /\ budget = [c \in Calls |-> 0]
  /\ runs = [c \in Calls |-> 0]

\* The session takes the call.  A caller that ran the tool itself and only
\* hands over the output arrives with its one run already spent.
Accept(c) ==
  /\ outcome[c] = "none"
  /\ outcome' = [outcome EXCEPT ![c] = "pending"]
  /\ \E b \in 0 .. MaxBudget, spent \in {0, 1} :
       /\ spent <= b
       /\ budget' = [budget EXCEPT ![c] = b]
       /\ runs' = [runs EXCEPT ![c] = spent]

\* The downstream tool is started once more on behalf of the call.
Run(c) ==
  /\ outcome[c] = "pending"
  /\ runs[c] < budget[c]
  /\ runs' = [runs EXCEPT ![c] = @ + 1]
  /\ UNCHANGED <<outcome, budget>>

\* The caller gets its answer: a result, or a Failure Card or exception.
Succeed(c) ==
  /\ outcome[c] = "pending"
  /\ runs[c] > 0
  /\ outcome' = [outcome EXCEPT ![c] = "ok"]
  /\ UNCHANGED <<budget, runs>>

Fail(c) ==
  /\ outcome[c] = "pending"
  /\ outcome' = [outcome EXCEPT ![c] = "failed"]
  /\ UNCHANGED <<budget, runs>>

Next == \E c \in Calls : Accept(c) \/ Run(c) \/ Succeed(c) \/ Fail(c)

Spec == Init /\ [][Next]_vars
===============================================================================
