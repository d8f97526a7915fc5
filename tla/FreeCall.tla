------------------------------ MODULE FreeCall ------------------------------
(***************************************************************************)
(* The free tier's failover loop (src/free.go, freeCall and what it calls): *)
(* requests that run at the same time, each on a goroutine of its own,      *)
(* share the session pool and the egress members, choose up to Coverage     *)
(* sessions and an order of the members, and try the pairs one after the    *)
(* other.                                                                   *)
(*                                                                          *)
(* A step is one section of code under a mutex (a pick, a report, the       *)
(* choice of the order, the cooling of a member) or one exchange with the   *)
(* upstream; the local code around it belongs to the step.  The upstream    *)
(* may give any answer to any attempt.                                      *)
(***************************************************************************)
EXTENDS SessionPool, Sequences, FiniteSets

CONSTANTS
    Members,         \* egress members that are not disabled
    Requests,        \* requests that may run at the same time
    Malformed,       \* requests whose payload no body can be built from
    Coverage,        \* sessionCoverage: 6
    MaxAttempts,     \* 12
    BreakerLimit,    \* 3
    Cooldown,        \* seconds a failing session or member rests: 300
    BurnedCooldown,  \* seconds a session that answered 403 rests: 6 hours
    InitialHealth,   \* health records the pool file may hold when it is loaded
    MaxTime          \* bound on the clock

ASSUME FreeCallAssumption ==
    /\ Malformed \subseteq Requests
    /\ IsFiniteSet(Members)
    /\ Coverage \in Nat \ {0}
    /\ MaxAttempts \in Nat \ {0}
    /\ BreakerLimit \in Nat \ {0}
    /\ Cooldown \in Nat \ {0}
    /\ BurnedCooldown \in Nat \ {0}
    /\ InitialHealth \subseteq Health
    /\ MaxTime \in Nat

VARIABLES
    pool,       \* health of every session, in memory
    rr,         \* round-robin cursor of the pool
    coolUntil,  \* end of the cooldown of every member
    now,        \* the clock
    pc,         \* where each request is
    sess,       \* the sessions the request may try, in order
    ord,        \* the members the request may try, in order
    mi, si,     \* loop positions in ord and sess
    attempts,   \* attempts made
    consec,     \* the breaker's counter: failures other than 403
    tried       \* history: the (member, session) pairs attempted

pools  == <<pool, rr, coolUntil>>
plan   == <<sess, ord>>
place  == <<mi, si>>
counts == <<attempts, consec, tried>>
vars   == <<pools, now, pc, plan, place, counts>>

Running == {"collect", "route", "try", "wait", "cool_burned", "cool_flaky"}
Done    == {"served", "rejected", "exhausted"}
Labels  == {"idle"} \cup Running \cup Done

Session(r) == sess[r][si[r]]
Member(r)  == ord[r][mi[r]]

(* Lists without repetition whose elements are exactly those of S.          *)
Orderings(S) == {q \in [1 .. Cardinality(S) -> S] :
                    \A i, j \in DOMAIN q : q[i] = q[j] => i = j}

(* order: the members whose cooldown is over, in any weighted-random order. *)
Healthy == {m \in Members : coolUntil[m] <= now}

TypeOK ==
    /\ pool \in [Sessions -> Health]
    /\ rr \in Nat
    /\ coolUntil \in [Members -> Nat]
    /\ now \in Nat
    /\ pc \in [Requests -> Labels]
    /\ sess \in [Requests -> Seq(Sessions \cup {NoSession})]
    /\ ord \in [Requests -> Seq(Members)]
    /\ mi \in [Requests -> Nat]
    /\ si \in [Requests -> Nat]
    /\ attempts \in [Requests -> Nat]
    /\ consec \in [Requests -> Nat]
    /\ tried \in [Requests -> SUBSET (Members \X (Sessions \cup {NoSession}))]

Init ==
    /\ pool \in [Sessions -> InitialHealth]
    /\ rr = 0
    /\ coolUntil = [m \in Members |-> 0]
    /\ now = 0
    /\ pc = [r \in Requests |-> "idle"]
    /\ sess = [r \in Requests |-> <<>>]
    /\ ord = [r \in Requests |-> <<>>]
    /\ mi = [r \in Requests |-> 1]
    /\ si = [r \in Requests |-> 1]
    /\ attempts = [r \in Requests |-> 0]
    /\ consec = [r \in Requests |-> 0]
    /\ tried = [r \in Requests |-> {}]

Goto(r, label) == pc' = [pc EXCEPT ![r] = label]

(***************************************************************************)
(* freeSessions                                                            *)
(***************************************************************************)

(* sessionUsable: the stamp names a session of the pool that is usable.     *)
(* A deliberate fault: the stamp is not checked again on arrival.           *)
StampTrusted(stamp) == stamp \in Sessions
StampHolds(stamp) == stamp \in Sessions /\ Usable(pool[stamp], now)

(* The seen map of the loop that collects sessions.                         *)
(* A deliberate fault: the seen map is missing.                             *)
NeverSeen(r, s) == FALSE
Seen(r, s) == \E i \in 1 .. Len(sess[r]) : sess[r][i] = s

Full(q) == Len(q) >= Coverage

(* A request arrives with the session the interceptor stamped on it earlier *)
(* (or none).  A stamp that is still usable is the only session it tries;   *)
(* a systemone request without one goes out anonymously; any other goes on  *)
(* to collect sessions from the pool.                                       *)
Arrive(r, stamp, systemone) ==
    /\ pc[r] = "idle"
    /\ \/ /\ StampHolds(stamp)
          /\ sess' = [sess EXCEPT ![r] = <<stamp>>]
          /\ Goto(r, "route")
       \/ /\ ~StampHolds(stamp) /\ systemone
          /\ sess' = [sess EXCEPT ![r] = <<NoSession>>]
          /\ Goto(r, "route")
       \/ /\ ~StampHolds(stamp) /\ ~systemone
          /\ sess' = [sess EXCEPT ![r] = <<>>]
          /\ Goto(r, "collect")
    /\ UNCHANGED <<pools, now, ord, place, counts>>

(* A round-robin pick that brings a session the request does not have yet.  *)
Collect(r) ==
    /\ pc[r] = "collect"
    /\ \E s \in Sessions :
          /\ Picked(pool, rr, now, s)
          /\ ~Seen(r, s)
          /\ sess' = [sess EXCEPT ![r] = Append(@, s)]
          /\ rr' = CursorAfter(rr, s)
          /\ Goto(r, IF Full(Append(sess[r], s)) THEN "route" ELSE "collect")
    /\ UNCHANGED <<pool, coolUntil, now, ord, place, counts>>

(* A deliberate fault: a session picked twice does not end the list.        *)
CollectEndOnEmpty(r) ==
    /\ pc[r] = "collect"
    /\ Picked(pool, rr, now, NoSession)
    /\ sess' = [sess EXCEPT ![r] = IF @ = <<>> THEN <<NoSession>> ELSE @]
    /\ Goto(r, "route")
    /\ UNCHANGED <<pools, now, ord, place, counts>>

(* A pick that finds nothing, or a session the request already has, ends    *)
(* the list; an empty one becomes the anonymous request.                    *)
CollectEnd(r) ==
    /\ pc[r] = "collect"
    /\ \E s \in Sessions \cup {NoSession} :
          /\ Picked(pool, rr, now, s)
          /\ s = NoSession \/ Seen(r, s)
          /\ rr' = CursorAfter(rr, s)
    /\ sess' = [sess EXCEPT ![r] = IF @ = <<>> THEN <<NoSession>> ELSE @]
    /\ Goto(r, "route")
    /\ UNCHANGED <<pool, coolUntil, now, ord, place, counts>>

(***************************************************************************)
(* freeCall                                                                *)
(***************************************************************************)

(* The order of the members is drawn once, before the first attempt.        *)
Route(r) ==
    /\ pc[r] = "route"
    /\ \E q \in Orderings(Healthy) : ord' = [ord EXCEPT ![r] = q]
    /\ mi' = [mi EXCEPT ![r] = 1]
    /\ si' = [si EXCEPT ![r] = 1]
    /\ Goto(r, "try")
    /\ UNCHANGED <<pools, now, sess, counts>>

(* A deliberate fault: the attempts are compared with <=.                   *)
CanTryOneMore(r) ==
    /\ mi[r] <= Len(ord[r])
    /\ attempts[r] <= MaxAttempts
    /\ consec[r] < BreakerLimit

CanTry(r) ==
    /\ mi[r] <= Len(ord[r])
    /\ attempts[r] < MaxAttempts
    /\ consec[r] < BreakerLimit

(* The head of the two loops, and the call to freeAttempt.                  *)
Send(r) ==
    /\ pc[r] = "try"
    /\ CanTry(r)
    /\ attempts' = [attempts EXCEPT ![r] = @ + 1]
    /\ tried' = [tried EXCEPT ![r] = @ \cup {<<Member(r), Session(r)>>}]
    /\ Goto(r, "wait")
    /\ UNCHANGED <<pools, now, plan, place, consec>>

(* Both loops end without an answer: the caller turns to the paid tier.     *)
GiveUp(r) ==
    /\ pc[r] = "try"
    /\ ~CanTry(r)
    /\ Goto(r, "exhausted")
    /\ UNCHANGED <<pools, now, plan, place, counts>>

(* A 2xx answer clears the record of the session that got it.               *)
Served(r) ==
    /\ pc[r] = "wait"
    /\ r \notin Malformed
    /\ pool' = Report(pool, Session(r), TRUE, 0, now)
    /\ Goto(r, "served")
    /\ UNCHANGED <<rr, coolUntil, now, plan, place, counts>>

(* 400, 404 or 422 without a transient hint in the body: not retried, and   *)
(* nobody is blamed.                                                        *)
Rejected(r) ==
    /\ pc[r] = "wait"
    /\ r \notin Malformed
    /\ Goto(r, "rejected")
    /\ UNCHANGED <<pools, now, plan, place, counts>>

(* 403: the session is burned.  The breaker does not count it.              *)
Burned(r) ==
    /\ pc[r] = "wait"
    /\ r \notin Malformed
    /\ pool' = Report(pool, Session(r), FALSE, BurnedCooldown, now)
    /\ Goto(r, "cool_burned")
    /\ UNCHANGED <<rr, coolUntil, now, plan, place, counts>>

(* Any other failure: a transport error, a timeout, a status or a body that *)
(* asks for another try, and also a body that could not be built, which is  *)
(* the only outcome a malformed request has.                                *)
Flaky(r) ==
    /\ pc[r] = "wait"
    /\ pool' = Report(pool, Session(r), FALSE, Cooldown, now)
    /\ Goto(r, "cool_flaky")
    /\ UNCHANGED <<rr, coolUntil, now, plan, place, counts>>

(* A deliberate fault: the inner loop leaves out its last session.          *)
LastSessionEarly(r) == si[r] + 1 >= Len(sess[r])
LastSession(r) == si[r] >= Len(sess[r])

(* After the session the member is cooled, under its own mutex, and the     *)
(* loops move on to the next pair.                                          *)
Cool(r) ==
    /\ pc[r] \in {"cool_burned", "cool_flaky"}
    /\ coolUntil' = [coolUntil EXCEPT ![Member(r)] = now + Cooldown]
    /\ consec' = [consec EXCEPT ![r] = IF pc[r] = "cool_flaky" THEN @ + 1 ELSE @]
    /\ si' = [si EXCEPT ![r] = IF LastSession(r) THEN 1 ELSE @ + 1]
    /\ mi' = [mi EXCEPT ![r] = IF LastSession(r) THEN @ + 1 ELSE @]
    /\ Goto(r, "try")
    /\ UNCHANGED <<pool, rr, now, plan, attempts, tried>>

Step(r) ==
    \/ Collect(r) \/ CollectEnd(r) \/ Route(r)
    \/ Send(r) \/ GiveUp(r)
    \/ Served(r) \/ Rejected(r) \/ Burned(r) \/ Flaky(r)
    \/ Cool(r)

Tick ==
    /\ now < MaxTime
    /\ now' = now + 1
    /\ UNCHANGED <<pools, pc, plan, place, counts>>

Next ==
    \/ Tick
    \/ \E r \in Requests :
          \/ \E stamp \in Sessions \cup {NoSession}, systemone \in BOOLEAN :
                Arrive(r, stamp, systemone)
          \/ Step(r)

(* A goroutine that can run does, and every exchange with the upstream ends: *)
(* the clients freePool builds time out after 20 seconds, and the host's     *)
(* client is assumed to.                                                     *)
Spec == Init /\ [][Next]_vars /\ \A r \in Requests : WF_vars(Step(r))

(***************************************************************************)
(* Properties                                                              *)
(***************************************************************************)

Elements(q)  == {q[i] : i \in DOMAIN q}
Holds(r, s)  == pc[r] \in Running /\ s \in Elements(sess[r])
AllTried(r)  == Elements(ord[r]) \X Elements(sess[r]) \subseteq tried[r]

OutOfChances(r) ==
    \/ attempts[r] = MaxAttempts
    \/ consec[r] = BreakerLimit
    \/ AllTried(r)

(* The budget of a request: MaxAttempts attempts, BreakerLimit failures     *)
(* that are not a 403, and no (member, session) pair is ever tried twice,   *)
(* however the other requests move the cursor while it collects sessions    *)
(* (freeSessions' seen map, freeCall's two guards).                         *)
Budget ==
    \A r \in Requests :
        /\ attempts[r] <= MaxAttempts
        /\ consec[r] <= BreakerLimit
        /\ attempts[r] = Cardinality(tried[r])

(* freeCall gives the free tier up, and money may be spent, only when it    *)
(* has used its attempts, the breaker has tripped, or every member of its   *)
(* order was tried with every one of its sessions.                          *)
GivesUpOnlyWhenSpent ==
    \A r \in Requests : pc[r] = "exhausted" => OutOfChances(r)

(***************************************************************************)
(* The inductive invariant behind Budget, GivesUpOnlyWhenSpent and the      *)
(* refinement: where the two loops are tells exactly which pairs have been  *)
(* tried, because neither list holds anything twice.                        *)
(***************************************************************************)
Busy    == {"wait", "cool_burned", "cool_flaky"}
Looping == {"try"} \cup Busy

Distinct(q) == \A i, j \in 1 .. Len(q) : q[i] = q[j] => i = j

Passed(r, i, j) == i < mi[r] \/ (i = mi[r] /\ j < si[r])

ListsInv(r) ==
    /\ Distinct(sess[r])
    /\ Distinct(ord[r])
    /\ pc[r] \in {"route"} \cup Looping => sess[r] # <<>>

PlaceInv(r) ==
    /\ pc[r] \in Looping => mi[r] >= 1 /\ si[r] \in 1 .. Len(sess[r])
    /\ pc[r] \in Busy => mi[r] <= Len(ord[r])

TriedInv(r) ==
    /\ pc[r] \in {"idle", "collect", "route"} => tried[r] = {}
    /\ pc[r] \in Looping => tried[r] \subseteq Elements(ord[r]) \X Elements(sess[r])
    /\ pc[r] \in Looping =>
          \A i \in 1 .. Len(ord[r]), j \in 1 .. Len(sess[r]) :
              <<ord[r][i], sess[r][j]>> \in tried[r] <=>
                  \/ Passed(r, i, j)
                  \/ pc[r] \in Busy /\ i = mi[r] /\ j = si[r]

CountInv(r) ==
    /\ IsFiniteSet(tried[r])
    /\ attempts[r] = Cardinality(tried[r])
    /\ attempts[r] <= MaxAttempts
    /\ consec[r] <= BreakerLimit
    /\ consec[r] <= attempts[r]
    /\ pc[r] \in Busy => consec[r] < attempts[r] /\ consec[r] < BreakerLimit

(* The loops of freeCall keep their place, and what was tried, in step.     *)
RequestInv(r) ==
    /\ ListsInv(r)
    /\ PlaceInv(r)
    /\ TriedInv(r)
    /\ CountInv(r)
    /\ pc[r] = "exhausted" => OutOfChances(r)

LoopInv == \A r \in Requests : RequestInv(r)

(* A session that is cooling down or dead is taken up by no request that    *)
(* does not have it yet, stamp or pick; and its record changes only by the  *)
(* report of a request that was waiting for an answer with it.  So a dead   *)
(* session comes back only by a success that was already under way (pick,   *)
(* sessionUsable and report under p.mu).                                    *)
UnusableIsLeftAlone ==
    [][\A s \in Sessions : ~Usable(pool[s], now) =>
          /\ \A r \in Requests : Holds(r, s)' => Holds(r, s)
          /\ pool'[s] # pool[s] =>
                \E r \in Requests : pc[r] = "wait" /\ Session(r) = s]_vars

(* A request that finds no session in the pool goes out anonymously only    *)
(* when the pool had none to give (pick goes round the whole ring).         *)
AnonymousOnlyWithoutSessions ==
    [][\A r \in Requests :
          pc[r] = "collect" /\ sess'[r] = <<NoSession>> =>
              \A s \in Sessions : ~Usable(pool[s], now)]_vars

(* What the caller is promised (FreeContract): a call of the contract is an *)
(* attempt sent, and a verdict is a request that has returned.              *)
Verdict(r) == IF pc[r] \in Done THEN pc[r] ELSE "pending"

Contract == INSTANCE FreeContract WITH
    Identities <- Sessions \cup {NoSession},
    used <- tried,
    calls <- attempts,
    verdict <- [r \in Requests |-> Verdict(r)]

KeepsContract == Contract!Spec

(* Every request that arrived gets an outcome.                              *)
EveryRequestEnds == \A r \in Requests : pc[r] \in Running ~> pc[r] \in Done

(***************************************************************************)
(* Three things the repository says that the code does not do: each has a   *)
(* run of its own that finds the counterexample.                            *)
(***************************************************************************)

(* A failure never shortens a cooldown: once a 403 has parked a session for *)
(* hours ("it is dead, not flaky, so park it for hours instead of           *)
(* minutes"), an ordinary failure does not bring it back in minutes.        *)
PenaltyNeverShortened ==
    [][\A s \in Sessions :
          pool'[s].fails > pool[s].fails => pool'[s].until >= pool[s].until]_vars

(* "At most 3 sessions per request", says the comment of freeSessions.      *)
AtMostThreeSessions == \A r \in Requests : Len(sess[r]) <= 3

(* A payload no body can be built from never leaves the plugin, so it costs *)
(* no session and no member anything ("the normal gate/quota signal         *)
(* (FreeTierError), not a malformed request").                              *)
MalformedBlamesNobody ==
    [][\A r \in Malformed : pc'[r] # pc[r] => UNCHANGED <<pool, coolUntil>>]_vars
=============================================================================
