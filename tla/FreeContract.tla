---------------------------- MODULE FreeContract ----------------------------
(***************************************************************************)
(* What freeCall promises its caller, whatever the pool, the cursor, the    *)
(* cooldowns and the order of the steps of the requests are: every request  *)
(* makes a bounded number of upstream calls, each with a pair of a member   *)
(* and a session identity it has not used before, gets one final verdict,   *)
(* and is given up only when there was a reason to.                         *)
(***************************************************************************)
EXTENDS Naturals, FiniteSets

CONSTANTS Requests, Members, Identities, MaxAttempts, BreakerLimit

VARIABLES
    used,     \* the pairs every request has used
    calls,    \* the upstream calls it has made
    verdict   \* what the caller is told

cvars == <<used, calls, verdict>>

Init ==
    /\ used = [r \in Requests |-> {}]
    /\ calls = [r \in Requests |-> 0]
    /\ verdict = [r \in Requests |-> "pending"]

Call(r) ==
    /\ verdict[r] = "pending"
    /\ calls[r] < MaxAttempts
    /\ \E p \in (Members \X Identities) \ used[r] :
          used' = [used EXCEPT ![r] = @ \cup {p}]
    /\ calls' = [calls EXCEPT ![r] = @ + 1]
    /\ UNCHANGED verdict

(* An answer of the upstream, good or final, ends the request.              *)
Answer(r) ==
    /\ verdict[r] = "pending"
    /\ calls[r] > 0
    /\ \E v \in {"served", "rejected"} : verdict' = [verdict EXCEPT ![r] = v]
    /\ UNCHANGED <<used, calls>>

(* Giving up takes the whole budget, enough failures for the breaker, or a  *)
(* complete grid of members and identities tried.                           *)
Spent(r) ==
    \/ calls[r] = MaxAttempts
    \/ calls[r] >= BreakerLimit
    \/ \E M \in SUBSET Members, S \in SUBSET Identities : used[r] = M \X S

GiveUp(r) ==
    /\ verdict[r] = "pending"
    /\ Spent(r)
    /\ verdict' = [verdict EXCEPT ![r] = "exhausted"]
    /\ UNCHANGED <<used, calls>>

Next == \E r \in Requests : Call(r) \/ Answer(r) \/ GiveUp(r)

Spec == Init /\ [][Next]_cvars
=============================================================================
