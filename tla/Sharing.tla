------------------------------ MODULE Sharing ------------------------------
(***************************************************************************)
(* FreeCall with a history variable: which sessions a request could have    *)
(* had.  Requests that collect sessions at the same time share one cursor,  *)
(* and freeSessions ends its list as soon as a pick repeats a session, so   *)
(* it is not plain that a request ends up with the sessions nobody else     *)
(* took.                                                                    *)
(***************************************************************************)
EXTENDS FreeCall

VARIABLE
    waiting   \* history: for a request that collects, the sessions that were
              \* usable all the while and that no pick has given to anyone

wvars == <<vars, waiting>>

WInit == Init /\ waiting = [r \in Requests |-> {}]

(* The step is a pick, by whichever request, and s is what it brought.      *)
Handed(s) ==
    /\ s = rr'
    /\ \E q \in Requests :
          pc[q] = "collect" /\ (pc'[q] # "collect" \/ sess'[q] # sess[q])

WNext ==
    /\ Next
    /\ waiting' =
          [r \in Requests |->
              IF pc'[r] # "collect" THEN {}
              ELSE {s \in IF pc[r] = "collect" THEN waiting[r] ELSE Sessions :
                       Usable(pool'[s], now') /\ ~Handed(s)}]

(* Fair as FreeCall is: the history variable holds no step back.            *)
WSpec == WInit /\ [][WNext]_wvars /\ \A r \in Requests : WF_vars(Step(r))

(* A request whose list is shorter than sessionCoverage has left no session *)
(* behind: every one that stayed usable while it collected was given to it  *)
(* or to another request meanwhile (pick's cursor, freeSessions' seen map).  *)
NobodyIsPassedOver ==
    [][\A r \in Requests :
          pc[r] = "collect" /\ pc'[r] = "route" /\ Len(sess'[r]) < Coverage =>
              waiting[r] = {}]_wvars

(***************************************************************************)
(* The inductive invariant behind it: from a session on the list of a       *)
(* request the cursor has not yet come to any session that waits for it.    *)
(***************************************************************************)

(* Going up the ring from s, and round its end, c comes before x.           *)
Before(s, c, x) ==
    \/ s <= c /\ c < x
    \/ x < s /\ s <= c
    \/ c < x /\ x < s

(* What waits for a request is still usable, and lies ahead of the cursor   *)
(* as seen from any session of its list (pick, freeSessions).               *)
SharingInv ==
    /\ waiting \in [Requests -> SUBSET Sessions]
    /\ NumSessions > 0 => rr \in Sessions
    /\ \A r \in Requests : pc[r] = "collect" =>
          \A x \in waiting[r] :
              /\ Usable(pool[x], now)
              /\ \A s \in Elements(sess[r]) : Before(s, rr, x)
=============================================================================
