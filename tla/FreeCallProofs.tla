--------------------------- MODULE FreeCallProofs ---------------------------
(***************************************************************************)
(* Theorems about FreeCall and Sharing, for any number of sessions, members *)
(* and requests and any limits.                                             *)
(***************************************************************************)
EXTENDS Sharing, SessionPoolProofs, FiniteSetTheorems, TLAPS

(* report keeps the pool a pool (sessionPool.report).                       *)
LEMMA ReportType ==
    ASSUME NEW p \in [Sessions -> Health], NEW s, NEW ok \in BOOLEAN,
           NEW cooldown \in Nat, NEW t \in Nat
    PROVE  Report(p, s, ok, cooldown, t) \in [Sessions -> Health]
<1>1. CASE s \in Sessions
  <2>1. p[s] \in Health
    BY <1>1
  <2>2. Reported(p[s], ok, cooldown, t) \in Health
    BY <2>1 DEF Reported, Health
  <2> QED
    BY <1>1, <2>2 DEF Report
<1>2. CASE s \notin Sessions
  BY <1>2 DEF Report
<1> QED
  BY <1>1, <1>2

(* A drawn order of some members is a sequence of members without           *)
(* repetition (freePool.order).                                             *)
LEMMA OrderingsType ==
    ASSUME NEW S \in SUBSET Members, NEW q \in Orderings(S)
    PROVE  /\ q \in Seq(Members)
           /\ \A i, j \in 1 .. Len(q) : q[i] = q[j] => i = j
<1>1. IsFiniteSet(S)
  BY FS_Subset, FreeCallAssumption
<1>2. Cardinality(S) \in Nat
  BY <1>1, FS_CardinalityType
<1> QED
  BY <1>2 DEF Orderings

(* Every label the actions go to is one of a request's places.              *)
LEMMA GotoType ==
    ASSUME pc \in [Requests -> Labels], NEW r, NEW label \in Labels, Goto(r, label)
    PROVE  pc' \in [Requests -> Labels]
BY DEF Goto

(* The labels of a request, one by one.                                     *)
LEMMA LabelsAre ==
    /\ {"collect", "route", "try", "wait", "cool_burned", "cool_flaky"} \subseteq Labels
    /\ {"served", "rejected", "exhausted", "idle"} \subseteq Labels
BY DEF Labels, Running, Done

(***************************************************************************)
(* Type correctness needs the loop invariant: a pair is a member and a      *)
(* session only because the two positions are inside their lists.           *)
(***************************************************************************)
Inv == TypeOK /\ LoopInv

(* A request that has not arrived yet has nothing listed and nothing tried. *)
LEMMA InitInv == Init => Inv
<1> SUFFICES ASSUME Init PROVE Inv
  OBVIOUS
<1>1. TypeOK
  BY FreeCallAssumption, LabelsAre DEF Init, TypeOK
<1>2. ASSUME NEW r \in Requests PROVE RequestInv(r)
  <2>1. ListsInv(r) /\ PlaceInv(r) /\ TriedInv(r)
    BY DEF Init, ListsInv, PlaceInv, TriedInv, Distinct, Looping, Busy
  <2>2. CountInv(r)
    BY FS_EmptySet, FreeCallAssumption DEF Init, CountInv, Busy
  <2> QED
    BY <2>1, <2>2 DEF Init, RequestInv
<1> QED
  BY <1>1, <1>2 DEF Inv, LoopInv

(* Every action keeps the types.                                            *)
LEMMA TypeStep == Inv /\ [Next]_vars => TypeOK'
<1> SUFFICES ASSUME TypeOK, LoopInv, [Next]_vars
             PROVE  TypeOK'
  BY DEF Inv
<1> USE DEF TypeOK, pools, plan, place, counts
<1>1. CASE Tick
  BY <1>1 DEF Tick
<1>2. ASSUME NEW r \in Requests, NEW stamp \in Sessions \cup {NoSession},
             NEW systemone \in BOOLEAN, Arrive(r, stamp, systemone)
      PROVE  TypeOK'
  <2>1. sess' \in [Requests -> Seq(Sessions \cup {NoSession})]
    <3>1. \E q \in {<<stamp>>, <<NoSession>>, <<>>} : sess' = [sess EXCEPT ![r] = q]
      BY <1>2 DEF Arrive
    <3>2. {<<stamp>>, <<NoSession>>, <<>>} \subseteq Seq(Sessions \cup {NoSession})
      OBVIOUS
    <3> QED
      BY <3>1, <3>2
  <2>2. pc' \in [Requests -> Labels]
    BY <1>2, GotoType, LabelsAre DEF Arrive
  <2> QED
    BY <1>2, <2>1, <2>2 DEF Arrive
<1>3. ASSUME NEW r \in Requests, Collect(r)
      PROVE  TypeOK'
  <2>1. PICK s \in Sessions :
          /\ sess' = [sess EXCEPT ![r] = Append(@, s)]
          /\ rr' = CursorAfter(rr, s)
          /\ Goto(r, IF Full(Append(sess[r], s)) THEN "route" ELSE "collect")
    BY <1>3 DEF Collect
  <2>2. sess' \in [Requests -> Seq(Sessions \cup {NoSession})]
    BY <2>1
  <2>3. rr' \in Nat
    BY <2>1 DEF CursorAfter, Sessions
  <2>4. pc' \in [Requests -> Labels]
    BY <2>1, GotoType, LabelsAre
  <2> QED
    BY <1>3, <2>2, <2>3, <2>4 DEF Collect
<1>4. ASSUME NEW r \in Requests, CollectEnd(r)
      PROVE  TypeOK'
  <2>1. rr' \in Nat
    BY <1>4 DEF CollectEnd, CursorAfter, Sessions
  <2>2. sess' \in [Requests -> Seq(Sessions \cup {NoSession})]
    <3>1. sess[r] \in Seq(Sessions \cup {NoSession})
      OBVIOUS
    <3>2. \E q \in {<<NoSession>>, sess[r]} : sess' = [sess EXCEPT ![r] = q]
      BY <1>4 DEF CollectEnd
    <3>3. <<NoSession>> \in Seq(Sessions \cup {NoSession})
      OBVIOUS
    <3> QED
      BY <3>1, <3>2, <3>3
  <2>3. pc' \in [Requests -> Labels]
    BY <1>4, GotoType, LabelsAre DEF CollectEnd
  <2> QED
    BY <1>4, <2>1, <2>2, <2>3 DEF CollectEnd
<1>5. ASSUME NEW r \in Requests, Route(r)
      PROVE  TypeOK'
  <2>1. ord' \in [Requests -> Seq(Members)]
    BY <1>5, OrderingsType DEF Route, Healthy
  <2>9. pc' \in [Requests -> Labels]
    BY <1>5, GotoType, LabelsAre DEF Route
  <2> QED
    BY <1>5, <2>9, <2>1 DEF Route
<1>6. ASSUME NEW r \in Requests, Send(r)
      PROVE  TypeOK'
  <2>1. Member(r) \in Members /\ Session(r) \in Sessions \cup {NoSession}
    <3>1. mi[r] \in 1 .. Len(ord[r]) /\ si[r] \in 1 .. Len(sess[r])
      BY <1>6 DEF Send, CanTry, LoopInv, RequestInv, PlaceInv, Looping
    <3> QED
      BY <3>1 DEF Member, Session
  <2>2. tried' \in [Requests -> SUBSET (Members \X (Sessions \cup {NoSession}))]
    BY <1>6, <2>1 DEF Send
  <2>9. pc' \in [Requests -> Labels]
    BY <1>6, GotoType, LabelsAre DEF Send
  <2> QED
    BY <1>6, <2>9, <2>2, SMTT(30) DEF Send
<1>7. ASSUME NEW r \in Requests, GiveUp(r) \/ Rejected(r)
      PROVE  TypeOK'
  BY <1>7, GotoType, LabelsAre DEF GiveUp, Rejected
<1>8. ASSUME NEW r \in Requests, Served(r) \/ Burned(r) \/ Flaky(r)
      PROVE  TypeOK'
  <2>1. pool' \in [Sessions -> Health]
    <3>1. CASE Served(r)
      BY <3>1, ReportType DEF Served
    <3>2. CASE Burned(r)
      BY <3>2, ReportType, FreeCallAssumption DEF Burned
    <3>3. CASE Flaky(r)
      BY <3>3, ReportType, FreeCallAssumption DEF Flaky
    <3> QED
      BY <1>8, <3>1, <3>2, <3>3
  <2>2. pc' \in [Requests -> Labels]
    BY <1>8, GotoType, LabelsAre DEF Served, Burned, Flaky
  <2>3. UNCHANGED <<rr, coolUntil, now, plan, place, counts>>
    BY <1>8 DEF Served, Burned, Flaky
  <2> QED
    BY <2>1, <2>2, <2>3
<1>9. ASSUME NEW r \in Requests, Cool(r)
      PROVE  TypeOK'
  <2>1. coolUntil' \in [Members -> Nat]
    <3>1. now + Cooldown \in Nat
      BY FreeCallAssumption
    <3>2. coolUntil' = [coolUntil EXCEPT ![Member(r)] = now + Cooldown]
      BY <1>9 DEF Cool
    <3> QED
      BY <3>1, <3>2
  <2>2. mi' \in [Requests -> Nat] /\ si' \in [Requests -> Nat]
    BY <1>9 DEF Cool
  <2>3. consec' \in [Requests -> Nat]
    BY <1>9 DEF Cool
  <2>9. pc' \in [Requests -> Labels]
    BY <1>9, GotoType, LabelsAre DEF Cool
  <2> QED
    BY <1>9, <2>9, <2>1, <2>2, <2>3 DEF Cool
<1>10. CASE UNCHANGED vars
  BY <1>10 DEF vars
<1> HIDE DEF TypeOK, pools, plan, place, counts
<1> QED
  BY <1>1, <1>2, <1>3, <1>4, <1>5, <1>6, <1>7, <1>8, <1>9, <1>10
     DEF Next, Step

(***************************************************************************)
(* The loop invariant.                                                      *)
(***************************************************************************)

(* What a request has is its own: a step that leaves all of it alone keeps  *)
(* its part of the invariant.                                               *)
LEMMA Unaffected ==
    ASSUME NEW q, RequestInv(q),
           pc'[q] = pc[q], sess'[q] = sess[q], ord'[q] = ord[q],
           mi'[q] = mi[q], si'[q] = si[q], attempts'[q] = attempts[q],
           consec'[q] = consec[q], tried'[q] = tried[q]
    PROVE  RequestInv(q)'
BY DEF RequestInv, ListsInv, PlaceInv, TriedInv, CountInv, OutOfChances,
       AllTried, Passed

(* Appending what a list does not hold repeats nothing (the seen map).      *)
LEMMA DistinctAppend ==
    ASSUME NEW S, NEW q \in Seq(S), NEW s \in S, Distinct(q),
           \A i \in 1 .. Len(q) : q[i] # s
    PROVE  Distinct(Append(q, s)) /\ Append(q, s) # <<>>
<1> DEFINE a == Append(q, s)
<1>1. /\ Len(a) = Len(q) + 1 /\ Len(q) \in Nat
      /\ \A i \in 1 .. Len(q) : a[i] = q[i]
      /\ a[Len(q) + 1] = s
  OBVIOUS
<1>2. ASSUME NEW i \in 1 .. Len(a), NEW j \in 1 .. Len(a), a[i] = a[j]
      PROVE  i = j
  <2>1. CASE i \in 1 .. Len(q) /\ j \in 1 .. Len(q)
    BY <2>1, <1>1, <1>2 DEF Distinct
  <2>2. CASE i = Len(q) + 1 \/ j = Len(q) + 1
    BY <2>2, <1>1, <1>2
  <2> QED
    BY <2>1, <2>2, <1>1
<1>3. a # <<>>
  BY <1>1
<1> QED
  BY <1>2, <1>3 DEF Distinct

(* Collecting sessions and drawing the order: nothing tried yet.            *)
LEMMA LoopStepBefore ==
    ASSUME TypeOK, NEW r \in Requests, RequestInv(r),
           \/ \E stamp \in Sessions \cup {NoSession}, systemone \in BOOLEAN :
                 Arrive(r, stamp, systemone)
           \/ Collect(r) \/ CollectEnd(r) \/ Route(r)
    PROVE  RequestInv(r)'
<1>1. pc[r] \in {"idle", "collect", "route"}
  BY DEF Arrive, Collect, CollectEnd, Route
<1>2. UNCHANGED counts
  BY DEF Arrive, Collect, CollectEnd, Route
<1>3. pc'[r] \in {"collect", "route", "try"}
  BY DEF Arrive, Collect, CollectEnd, Route, Goto, TypeOK
<1>4. tried[r] = {}
  BY <1>1 DEF RequestInv, TriedInv
<1>5. CountInv(r)'
  BY <1>2, <1>3 DEF RequestInv, CountInv, Busy, counts
<1>6. ListsInv(r)' /\ PlaceInv(r)' /\ TriedInv(r)'
  <2>1. ASSUME NEW stamp \in Sessions \cup {NoSession}, NEW systemone \in BOOLEAN,
               Arrive(r, stamp, systemone)
        PROVE  ListsInv(r)' /\ PlaceInv(r)' /\ TriedInv(r)'
    <3>1. sess'[r] \in {<<stamp>>, <<NoSession>>, <<>>} /\ ord' = ord
      BY <2>1 DEF Arrive, TypeOK
    <3>2. pc'[r] = "route" => sess'[r] # <<>>
      <4>1. \/ sess' = [sess EXCEPT ![r] = <<stamp>>]
            \/ sess' = [sess EXCEPT ![r] = <<NoSession>>]
            \/ pc' = [pc EXCEPT ![r] = "collect"]
        BY <2>1 DEF Arrive, Goto
      <4>2. <<stamp>> # <<>> /\ <<NoSession>> # <<>>
        OBVIOUS
      <4>3. DOMAIN sess = Requests /\ DOMAIN pc = Requests
        BY DEF TypeOK
      <4> QED
        BY <4>1, <4>2, <4>3
    <3>3. pc'[r] \in {"collect", "route"}
      BY <2>1 DEF Arrive, Goto, TypeOK
    <3>4. Distinct(sess'[r])
      BY <3>1 DEF Distinct
    <3> QED
      BY <3>1, <3>2, <3>3, <3>4, <1>2, <1>4
         DEF RequestInv, ListsInv, PlaceInv, TriedInv, Distinct, Looping, Busy, counts
  <2>2. CASE Collect(r)
    <3>1. PICK s \in Sessions : ~Seen(r, s) /\ sess'[r] = Append(sess[r], s)
      BY <2>2 DEF Collect, TypeOK
    <3>2. sess[r] \in Seq(Sessions \cup {NoSession}) /\ Distinct(sess[r])
      BY DEF TypeOK, RequestInv, ListsInv
    <3>3. Distinct(sess'[r]) /\ sess'[r] # <<>>
      BY <3>1, <3>2, DistinctAppend DEF Seen
    <3>4. pc'[r] \in {"collect", "route"} /\ ord' = ord
      BY <2>2 DEF Collect, Goto, TypeOK
    <3> QED
      BY <3>3, <3>4, <1>2, <1>4
         DEF RequestInv, ListsInv, PlaceInv, TriedInv, Distinct, Looping, Busy, counts
  <2>3. CASE CollectEnd(r)
    <3>1. sess'[r] = IF sess[r] = <<>> THEN <<NoSession>> ELSE sess[r]
      BY <2>3 DEF CollectEnd, TypeOK
    <3>2. Distinct(sess'[r]) /\ sess'[r] # <<>>
      BY <3>1 DEF RequestInv, ListsInv, Distinct
    <3>3. pc'[r] = "route" /\ ord' = ord
      BY <2>3 DEF CollectEnd, Goto, TypeOK
    <3> QED
      BY <3>2, <3>3, <1>2, <1>4
         DEF RequestInv, ListsInv, PlaceInv, TriedInv, Distinct, Looping, Busy, counts
  <2>4. CASE Route(r)
    <3>1. PICK q \in Orderings(Healthy) : ord'[r] = q
      BY <2>4 DEF Route, TypeOK
    <3>2. Distinct(ord'[r])
      BY <3>1, OrderingsType DEF Healthy, Distinct
    <3>3. mi'[r] = 1 /\ si'[r] = 1 /\ pc'[r] = "try" /\ sess' = sess
      BY <2>4 DEF Route, Goto, TypeOK
    <3>4. sess[r] # <<>> /\ sess[r] \in Seq(Sessions \cup {NoSession})
      BY <2>4 DEF Route, RequestInv, ListsInv, TypeOK
    <3>5. Len(sess[r]) >= 1
      BY <3>4
    <3>6. tried'[r] = {}
      BY <1>2, <1>4 DEF counts
    <3>7. ListsInv(r)'
      BY <3>2, <3>3, <3>4 DEF RequestInv, ListsInv
    <3>8. PlaceInv(r)'
      BY <3>3, <3>4, <3>5 DEF PlaceInv, Busy
    <3>9. TriedInv(r)'
      BY <3>3, <3>6 DEF TriedInv, Passed, Busy, Looping
    <3> QED
      BY <3>7, <3>8, <3>9
  <2> QED
    BY <2>1, <2>2, <2>3, <2>4
<1> QED
  BY <1>3, <1>5, <1>6 DEF RequestInv

(* An attempt: a pair that was never tried before.                          *)
LEMMA LoopStepSend ==
    ASSUME TypeOK, NEW r \in Requests, RequestInv(r), Send(r)
    PROVE  /\ RequestInv(r)'
           /\ <<Member(r), Session(r)>> \notin tried[r]
<1> DEFINE pair == <<Member(r), Session(r)>>
<1>1. pc[r] = "try" /\ CanTry(r) /\ pc'[r] = "wait"
  BY DEF Send, Goto, TypeOK
<1>2. UNCHANGED <<sess, ord, mi, si, consec>>
  BY DEF Send, plan, place
<1>3. tried'[r] = tried[r] \cup {pair} /\ attempts'[r] = attempts[r] + 1
  BY DEF Send, TypeOK
<1>4. mi[r] \in 1 .. Len(ord[r]) /\ si[r] \in 1 .. Len(sess[r])
  BY <1>1 DEF CanTry, RequestInv, PlaceInv, Looping, TypeOK
<1>5. pair \notin tried[r]
  BY <1>1, <1>4 DEF RequestInv, TriedInv, Looping, Busy, Passed, Member, Session
<1>6. ListsInv(r)' /\ PlaceInv(r)'
  BY <1>1, <1>2, <1>4 DEF RequestInv, ListsInv, PlaceInv, Looping, Busy
<1>7. TriedInv(r)'
  <2>0. tried'[r] \subseteq Elements(ord[r]) \X Elements(sess[r])
    BY <1>1, <1>3, <1>4 DEF RequestInv, TriedInv, Looping, Elements, Member, Session, TypeOK
  <2> SUFFICES ASSUME NEW i \in 1 .. Len(ord[r]), NEW j \in 1 .. Len(sess[r])
               PROVE  <<ord[r][i], sess[r][j]>> \in tried'[r] <=>
                         Passed(r, i, j) \/ (i = mi[r] /\ j = si[r])
    BY <2>0, <1>1, <1>2 DEF TriedInv, Busy, Passed, Elements
  <2>1. <<ord[r][i], sess[r][j]>> \in tried[r] <=> Passed(r, i, j)
    BY <1>1 DEF RequestInv, TriedInv, Looping, Busy
  <2>2. <<ord[r][i], sess[r][j]>> = pair <=> i = mi[r] /\ j = si[r]
    BY <1>4 DEF RequestInv, ListsInv, Distinct, Member, Session
  <2> QED
    BY <2>1, <2>2, <1>3
<1>8. CountInv(r)'
  <2>1. IsFiniteSet(tried[r]) /\ attempts[r] = Cardinality(tried[r])
    BY DEF RequestInv, CountInv
  <2>2. /\ IsFiniteSet(tried[r] \cup {pair})
        /\ Cardinality(tried[r] \cup {pair}) = Cardinality(tried[r]) + 1
    BY <2>1, <1>5, FS_AddElement
  <2>3. attempts[r] \in Nat /\ consec[r] \in Nat
    BY DEF TypeOK
  <2>4. attempts[r] < MaxAttempts /\ consec[r] < BreakerLimit /\ consec[r] <= attempts[r]
    BY <1>1 DEF CanTry, RequestInv, CountInv
  <2> QED
    BY <2>1, <2>2, <2>3, <2>4, <1>1, <1>2, <1>3, FreeCallAssumption DEF CountInv, Busy
<1> QED
  BY <1>1, <1>5, <1>6, <1>7, <1>8 DEF RequestInv

(* The loops end: the last pair was tried, or a limit was reached.          *)
LEMMA LoopStepGiveUp ==
    ASSUME TypeOK, NEW r \in Requests, RequestInv(r), GiveUp(r)
    PROVE  RequestInv(r)'
<1>1. pc[r] = "try" /\ ~CanTry(r) /\ pc'[r] = "exhausted"
  BY DEF GiveUp, Goto, TypeOK
<1>2. UNCHANGED <<sess, ord, mi, si, attempts, consec, tried>>
  BY DEF GiveUp, plan, place, counts
<1>3. ListsInv(r)' /\ PlaceInv(r)' /\ TriedInv(r)' /\ CountInv(r)'
  BY <1>1, <1>2 DEF RequestInv, ListsInv, PlaceInv, TriedInv, CountInv, Looping, Busy
<1>4. attempts[r] \in Nat /\ consec[r] \in Nat /\ mi[r] \in Nat
  BY DEF TypeOK
<1>5. CASE mi[r] > Len(ord[r])
  <2>1. ord[r] \in Seq(Members) /\ sess[r] \in Seq(Sessions \cup {NoSession})
    BY DEF TypeOK
  <2>2. ASSUME NEW i \in 1 .. Len(ord[r]), NEW j \in 1 .. Len(sess[r])
        PROVE  <<ord[r][i], sess[r][j]>> \in tried[r]
    <3>1. Len(ord[r]) \in Nat
      BY <2>1
    <3>2. Passed(r, i, j)
      BY <3>1, <1>4, <1>5 DEF Passed
    <3> QED
      BY <1>1, <3>2 DEF RequestInv, TriedInv, Looping
  <2>3. ASSUME NEW p \in Elements(ord[r]) \X Elements(sess[r])
        PROVE  p \in tried[r]
    <3>1. PICK i \in DOMAIN ord[r], j \in DOMAIN sess[r] : p = <<ord[r][i], sess[r][j]>>
      BY DEF Elements
    <3>2. DOMAIN ord[r] = 1 .. Len(ord[r]) /\ DOMAIN sess[r] = 1 .. Len(sess[r])
      BY <2>1
    <3> QED
      BY <3>1, <3>2, <2>2
  <2>4. AllTried(r)
    BY <2>3 DEF AllTried
  <2> QED
    BY <2>4, <1>1, <1>2, <1>3 DEF RequestInv, OutOfChances, AllTried
<1>6. CASE ~(mi[r] > Len(ord[r]))
  <2>1. ord[r] \in Seq(Members)
    BY DEF TypeOK
  <2>2. attempts[r] = MaxAttempts \/ consec[r] = BreakerLimit
    BY <1>1, <1>4, <1>6, <2>1, FreeCallAssumption DEF CanTry, RequestInv, CountInv
  <2> QED
    BY <2>2, <1>1, <1>2, <1>3 DEF RequestInv, OutOfChances
<1> QED
  BY <1>5, <1>6

(* An answer changes only where the request is.                             *)
LEMMA LoopStepAnswer ==
    ASSUME TypeOK, NEW r \in Requests, RequestInv(r),
           Served(r) \/ Rejected(r) \/ Burned(r) \/ Flaky(r)
    PROVE  RequestInv(r)'
<1>1. pc[r] = "wait" /\ pc'[r] \in {"served", "rejected", "cool_burned", "cool_flaky"}
  BY DEF Served, Rejected, Burned, Flaky, Goto, TypeOK
<1>2. UNCHANGED <<sess, ord, mi, si, attempts, consec, tried>>
  BY DEF Served, Rejected, Burned, Flaky, plan, place, counts
<1> QED
  BY <1>1, <1>2 DEF RequestInv, ListsInv, PlaceInv, TriedInv, CountInv,
                    Looping, Busy, Passed

(* On to the next pair: what was passed is what had been tried.             *)
LEMMA LoopStepCool ==
    ASSUME TypeOK, NEW r \in Requests, RequestInv(r), Cool(r)
    PROVE  RequestInv(r)'
<1>1. pc[r] \in {"cool_burned", "cool_flaky"} /\ pc'[r] = "try"
  BY DEF Cool, Goto, TypeOK
<1>2. UNCHANGED <<sess, ord, attempts, tried>>
  BY DEF Cool, plan
<1>3. /\ si'[r] = IF LastSession(r) THEN 1 ELSE si[r] + 1
      /\ mi'[r] = IF LastSession(r) THEN mi[r] + 1 ELSE mi[r]
      /\ consec'[r] = IF pc[r] = "cool_flaky" THEN consec[r] + 1 ELSE consec[r]
  BY DEF Cool, TypeOK
<1>4. mi[r] \in 1 .. Len(ord[r]) /\ si[r] \in 1 .. Len(sess[r])
  BY <1>1 DEF RequestInv, PlaceInv, Looping, Busy, TypeOK
<1>5. Len(ord[r]) \in Nat /\ Len(sess[r]) \in Nat
  BY DEF TypeOK
<1>6. ListsInv(r)'
  BY <1>1, <1>2 DEF RequestInv, ListsInv, Looping, Busy
<1>7. PlaceInv(r)'
  BY <1>1, <1>2, <1>3, <1>4, <1>5 DEF PlaceInv, Busy, LastSession
<1>8. TriedInv(r)'
  <2> SUFFICES ASSUME NEW i \in 1 .. Len(ord[r]), NEW j \in 1 .. Len(sess[r])
               PROVE  <<ord[r][i], sess[r][j]>> \in tried[r] <=>
                         i < mi'[r] \/ (i = mi'[r] /\ j < si'[r])
    BY <1>1, <1>2 DEF RequestInv, TriedInv, Looping, Busy, Passed, Elements
  <2>1. <<ord[r][i], sess[r][j]>> \in tried[r] <=>
           Passed(r, i, j) \/ (i = mi[r] /\ j = si[r])
    BY <1>1 DEF RequestInv, TriedInv, Looping, Busy
  <2> QED
    BY <2>1, <1>3, <1>4, <1>5 DEF Passed, LastSession
<1>9. CountInv(r)'
  <2>1. consec[r] \in Nat /\ attempts[r] \in Nat
    BY DEF TypeOK
  <2>2. consec[r] < attempts[r] /\ consec[r] < BreakerLimit
    BY <1>1 DEF RequestInv, CountInv, Busy
  <2>3. consec'[r] <= attempts'[r] /\ consec'[r] <= BreakerLimit
    BY <1>2, <1>3, <2>1, <2>2, FreeCallAssumption
  <2> QED
    BY <1>1, <1>2, <2>3 DEF RequestInv, CountInv, Busy
<1> QED
  BY <1>1, <1>6, <1>7, <1>8, <1>9 DEF RequestInv

(* A step of one request is no business of the others.                      *)
LEMMA OthersUnaffected ==
    ASSUME TypeOK, NEW r \in Requests, NEW q \in Requests \ {r}, RequestInv(q),
           \/ \E stamp \in Sessions \cup {NoSession}, systemone \in BOOLEAN :
                 Arrive(r, stamp, systemone)
           \/ Step(r)
    PROVE  RequestInv(q)'
<1>1. pc'[q] = pc[q]
  BY DEF Step, Arrive, Collect, CollectEnd, Route, Send, GiveUp, Served, Rejected,
         Burned, Flaky, Cool, Goto, TypeOK
<1>2. sess'[q] = sess[q] /\ ord'[q] = ord[q]
  BY DEF Step, Arrive, Collect, CollectEnd, Route, Send, GiveUp, Served, Rejected,
         Burned, Flaky, Cool, plan, TypeOK
<1>3. mi'[q] = mi[q] /\ si'[q] = si[q]
  BY DEF Step, Arrive, Collect, CollectEnd, Route, Send, GiveUp, Served, Rejected,
         Burned, Flaky, Cool, place, TypeOK
<1>4. attempts'[q] = attempts[q] /\ consec'[q] = consec[q] /\ tried'[q] = tried[q]
  BY DEF Step, Arrive, Collect, CollectEnd, Route, Send, GiveUp, Served, Rejected,
         Burned, Flaky, Cool, counts, TypeOK
<1> QED
  BY <1>1, <1>2, <1>3, <1>4, Unaffected

(* Every step of every request keeps the loops consistent.                  *)
LEMMA LoopStep == Inv /\ [Next]_vars => LoopInv'
<1> SUFFICES ASSUME TypeOK, LoopInv, [Next]_vars, NEW q \in Requests
             PROVE  RequestInv(q)'
  BY DEF Inv, LoopInv
<1>1. RequestInv(q)
  BY DEF LoopInv
<1>2. CASE Tick \/ UNCHANGED vars
  BY <1>1, <1>2, Unaffected DEF Tick, vars, plan, place, counts
<1>3. ASSUME NEW r \in Requests,
             \/ \E stamp \in Sessions \cup {NoSession}, systemone \in BOOLEAN :
                   Arrive(r, stamp, systemone)
             \/ Step(r)
      PROVE  RequestInv(q)'
  <2>1. CASE q # r
    BY <2>1, <1>1, <1>3, OthersUnaffected
  <2>2. CASE q = r
    BY <2>2, <1>1, <1>3, LoopStepBefore, LoopStepSend, LoopStepGiveUp,
       LoopStepAnswer, LoopStepCool DEF Step
  <2> QED
    BY <2>1, <2>2
<1> QED
  BY <1>2, <1>3 DEF Next

(* The state of every request stays consistent with its loops.              *)
THEOREM Invariance == Spec => []Inv
<1>1. Inv /\ [Next]_vars => Inv'
  BY TypeStep, LoopStep DEF Inv
<1> QED
  BY InitInv, <1>1, PTL DEF Spec

(* Every variable keeps its type, whatever the requests do to the pool.     *)
THEOREM TypeCorrect == Spec => []TypeOK
BY Invariance, PTL DEF Inv

(* The state of the loops of freeCall is consistent at every label: what is *)
(* tried, counted and still to do agree.                                    *)
THEOREM LoopsConsistent == Spec => []LoopInv
<1>1. Inv => LoopInv
  BY DEF Inv
<1> QED
  BY <1>1, Invariance, PTL

(* freeCall's guards hold: no request makes more attempts than it may, or   *)
(* goes on past its breaker, or tries a member with a session twice.        *)
THEOREM BudgetKept == Spec => []Budget
<1>1. Inv => Budget
  BY DEF Inv, LoopInv, RequestInv, CountInv, Budget
<1> QED
  BY <1>1, Invariance, PTL

(* freeCall leaves its loops without an answer only when its attempts are   *)
(* used, its breaker has tripped or every pair was tried.                   *)
THEOREM GiveUpJustified == Spec => []GivesUpOnlyWhenSpent
<1>1. Inv => GivesUpOnlyWhenSpent
  BY DEF Inv, LoopInv, RequestInv, GivesUpOnlyWhenSpent
<1> QED
  BY <1>1, Invariance, PTL

(***************************************************************************)
(* An unusable session.                                                     *)
(***************************************************************************)

(* Whatever a pick returns is usable (sessionPool.pick).                    *)
LEMMA PickedUsable ==
    ASSUME NEW s \in Sessions, Picked(pool, rr, now, s)
    PROVE  Usable(pool[s], now)
BY DEF Picked, FirstUsable, Sessions, NoSession

(* A session a step newly puts on a list was usable when it did.            *)
LEMMA AdoptsUsable ==
    ASSUME TypeOK, NEW r \in Requests, NEW q \in Requests, NEW s \in Sessions,
           \/ \E stamp \in Sessions \cup {NoSession}, systemone \in BOOLEAN :
                 Arrive(r, stamp, systemone)
           \/ Step(r),
           pc'[q] \in Running, s \in Elements(sess'[q])
    PROVE  Usable(pool[s], now) \/ (pc[q] \in Running /\ s \in Elements(sess[q]))
<1>1. CASE \E stamp \in Sessions \cup {NoSession}, systemone \in BOOLEAN :
             Arrive(r, stamp, systemone)
  <2>1. PICK stamp \in Sessions \cup {NoSession}, systemone \in BOOLEAN :
          Arrive(r, stamp, systemone)
    BY <1>1
  <2>2. CASE q = r
    <3>1. \/ StampHolds(stamp) /\ sess'[r] = <<stamp>>
          \/ sess'[r] = <<NoSession>>
          \/ sess'[r] = <<>>
      BY <2>1 DEF Arrive, TypeOK
    <3>2. Elements(<<stamp>>) = {stamp} /\ Elements(<<NoSession>>) = {NoSession}
      BY DEF Elements
    <3>3. Elements(<<>>) = {}
      BY DEF Elements
    <3>4. s # NoSession
      BY DEF Sessions, NoSession
    <3> QED
      BY <2>2, <3>1, <3>2, <3>3, <3>4 DEF StampHolds
  <2>3. CASE q # r
    BY <2>1, <2>3 DEF Arrive, Goto, TypeOK
  <2> QED
    BY <2>2, <2>3
<1>2. CASE Collect(r)
  <2>1. PICK x \in Sessions : Picked(pool, rr, now, x)
                              /\ sess' = [sess EXCEPT ![r] = Append(@, x)]
    BY <1>2 DEF Collect
  <2>2. CASE q = r
    <3>1. sess'[r] = Append(sess[r], x) /\ sess[r] \in Seq(Sessions \cup {NoSession})
      BY <2>1 DEF TypeOK
    <3>2. s = x \/ s \in Elements(sess[r])
      BY <2>2, <3>1 DEF Elements
    <3> QED
      BY <2>1, <2>2, <3>2, <1>2, PickedUsable DEF Collect, Running
  <2>3. CASE q # r
    BY <1>2, <2>1, <2>3 DEF Collect, Goto, TypeOK
  <2> QED
    BY <2>2, <2>3
<1>3. CASE CollectEnd(r)
  <2>1. CASE q = r
    <3>1. sess'[r] \in {<<NoSession>>, sess[r]} /\ pc[r] \in Running
      BY <1>3 DEF CollectEnd, Running, TypeOK
    <3>2. Elements(<<NoSession>>) = {NoSession} /\ s # NoSession
      BY DEF Elements, Sessions, NoSession
    <3> QED
      BY <2>1, <3>1, <3>2
  <2>2. CASE q # r
    BY <1>3, <2>2 DEF CollectEnd, Goto, TypeOK
  <2> QED
    BY <2>1, <2>2
<1>4. CASE ~Collect(r) /\ ~CollectEnd(r) /\ Step(r)
  <2>1. sess' = sess /\ pc[r] \in Running
    BY <1>4 DEF Step, Route, Send, GiveUp, Served, Rejected, Burned, Flaky, Cool,
                plan, Running
  <2>2. q # r => pc'[q] = pc[q]
    BY <1>4 DEF Step, Route, Send, GiveUp, Served, Rejected, Burned, Flaky, Cool,
                Goto, TypeOK
  <2> QED
    BY <2>1, <2>2
<1> QED
  BY <1>1, <1>2, <1>3, <1>4

(* A report touches the record of the session its request waits with.       *)
LEMMA OnlyCarriedCharged ==
    ASSUME TypeOK, NEW r \in Requests, NEW s \in Sessions,
           \/ \E stamp \in Sessions \cup {NoSession}, systemone \in BOOLEAN :
                 Arrive(r, stamp, systemone)
           \/ Step(r),
           pool'[s] # pool[s]
    PROVE  pc[r] = "wait" /\ Session(r) = s
<1>1. Served(r) \/ Burned(r) \/ Flaky(r)
  BY DEF Step, Arrive, Collect, CollectEnd, Route, Send, GiveUp, Rejected, Cool, pools
<1>2. pc[r] = "wait"
  BY <1>1 DEF Served, Burned, Flaky
<1>3. s = Session(r)
  BY <1>1 DEF Served, Burned, Flaky, Report, TypeOK
<1> QED
  BY <1>2, <1>3

(* A cooling or dead session is neither taken up (pick, sessionUsable) nor  *)
(* reported on (report), but by those who already carry it.                 *)
THEOREM UnusableLeftAlone == Spec => UnusableIsLeftAlone
<1> DEFINE LeftAlone ==
      \A s \in Sessions : ~Usable(pool[s], now) =>
          /\ \A r \in Requests : Holds(r, s)' => Holds(r, s)
          /\ pool'[s] # pool[s] =>
                \E r \in Requests : pc[r] = "wait" /\ Session(r) = s
<1>1. Inv /\ [Next]_vars => [LeftAlone]_vars
  <2> SUFFICES ASSUME Inv, Next, NEW s \in Sessions, ~Usable(pool[s], now)
               PROVE  /\ \A q \in Requests : Holds(q, s)' => Holds(q, s)
                      /\ pool'[s] # pool[s] =>
                            \E r \in Requests : pc[r] = "wait" /\ Session(r) = s
    OBVIOUS
  <2>1. CASE Tick
    BY <2>1 DEF Tick, pools, plan, Holds
  <2>2. ASSUME NEW r \in Requests,
               \/ \E stamp \in Sessions \cup {NoSession}, systemone \in BOOLEAN :
                     Arrive(r, stamp, systemone)
               \/ Step(r)
        PROVE  /\ \A q \in Requests : Holds(q, s)' => Holds(q, s)
               /\ pool'[s] # pool[s] => pc[r] = "wait" /\ Session(r) = s
    <3>1. pool'[s] # pool[s] => pc[r] = "wait" /\ Session(r) = s
      BY <2>2, OnlyCarriedCharged DEF Inv
    <3>2. ASSUME NEW q \in Requests, Holds(q, s)'
          PROVE  Holds(q, s)
      BY <2>2, <3>2, AdoptsUsable DEF Inv, Holds
    <3> QED
      BY <3>1, <3>2
  <2> QED
    BY <2>1, <2>2 DEF Next
<1> QED
  BY <1>1, Invariance, PTL DEF Spec, UnusableIsLeftAlone

(* Appending a session of the pool to any list leaves every list of pool    *)
(* sessions one.                                                            *)
LEMMA AppendKeepsSessions ==
    ASSUME NEW f \in [Requests -> Seq(Sessions \cup {NoSession})],
           NEW r \in Requests, NEW q \in Requests, NEW s \in Sessions,
           f[q] \in Seq(Sessions)
    PROVE  [f EXCEPT ![r] = Append(@, s)][q] \in Seq(Sessions)
OBVIOUS

(* A request still collecting lists sessions of the pool only: the step     *)
(* that would make its list the anonymous one takes it out of the loop.     *)
CollectsSessions == \A r \in Requests : pc[r] = "collect" => sess[r] \in Seq(Sessions)

(* Every step keeps it so (freeSessions).                                   *)
LEMMA CollectsSessionsStep ==
    ASSUME TypeOK, CollectsSessions, [Next]_vars
    PROVE  CollectsSessions'
<1> SUFFICES ASSUME NEW q \in Requests, pc'[q] = "collect"
             PROVE  sess'[q] \in Seq(Sessions)
  BY DEF CollectsSessions
<1>1. CASE UNCHANGED vars
  BY <1>1 DEF CollectsSessions, vars, plan
<1>2. CASE Tick
  BY <1>2 DEF CollectsSessions, Tick, plan
<1>3. ASSUME NEW r \in Requests,
             \E stamp \in Sessions \cup {NoSession}, systemone \in BOOLEAN :
                Arrive(r, stamp, systemone)
      PROVE  sess'[q] \in Seq(Sessions)
  <2>1. PICK stamp \in Sessions \cup {NoSession}, systemone \in BOOLEAN :
          Arrive(r, stamp, systemone)
    BY <1>3
  <2>2. CASE q = r
    <3>1. sess'[r] = <<>>
      BY <2>1, <2>2 DEF Arrive, Goto, TypeOK
    <3> QED
      BY <2>2, <3>1
  <2>3. CASE q # r
    BY <2>1, <2>3 DEF Arrive, Goto, TypeOK, CollectsSessions
  <2> QED
    BY <2>2, <2>3
<1>4. ASSUME NEW r \in Requests, Collect(r)
      PROVE  sess'[q] \in Seq(Sessions)
  <2>1. PICK s \in Sessions : sess' = [sess EXCEPT ![r] = Append(@, s)]
    BY <1>4 DEF Collect
  <2>2. pc[r] = "collect" /\ (q # r => pc[q] = "collect")
    BY <1>4 DEF Collect, Goto, TypeOK
  <2>3. sess[q] \in Seq(Sessions)
    BY <2>2 DEF CollectsSessions
  <2> QED
    BY <2>1, <2>3 DEF TypeOK
<1>5. ASSUME NEW r \in Requests, CollectEnd(r)
      PROVE  sess'[q] \in Seq(Sessions)
  BY <1>5 DEF CollectEnd, Goto, TypeOK, CollectsSessions
<1>6. ASSUME NEW r \in Requests,
             \/ Route(r) \/ Send(r) \/ GiveUp(r) \/ Served(r)
             \/ Rejected(r) \/ Burned(r) \/ Flaky(r) \/ Cool(r)
      PROVE  sess'[q] \in Seq(Sessions)
  BY <1>6 DEF Route, Send, GiveUp, Served, Rejected, Burned, Flaky, Cool, Goto,
              plan, TypeOK, CollectsSessions
<1> QED
  BY <1>1, <1>2, <1>3, <1>4, <1>5, <1>6 DEF Next, Step

(* freeSessions turns to the anonymous request only when the pool had no    *)
(* session to give: a list that is still empty has seen no session, so the  *)
(* pick that ended it found none, and a pick goes round the whole ring.     *)
THEOREM AnonymousJustified == Spec => AnonymousOnlyWithoutSessions
<1> DEFINE Justified ==
      \A r \in Requests :
          pc[r] = "collect" /\ sess'[r] = <<NoSession>> =>
              \A s \in Sessions : ~Usable(pool[s], now)
<1>1. Init => CollectsSessions
  BY DEF Init, CollectsSessions
<1>2. Inv /\ CollectsSessions /\ [Next]_vars => CollectsSessions'
  BY CollectsSessionsStep DEF Inv
<1>3. Inv /\ CollectsSessions /\ [Next]_vars => [Justified]_vars
  <2> SUFFICES ASSUME Inv, CollectsSessions, Next, NEW q \in Requests,
                      pc[q] = "collect", sess'[q] = <<NoSession>>
               PROVE  \A s \in Sessions : ~Usable(pool[s], now)
    OBVIOUS
  <2>1. TypeOK
    BY DEF Inv
  <2>2. sess[q] \in Seq(Sessions) /\ <<NoSession>> \notin Seq(Sessions)
    <3>1. sess[q] \in Seq(Sessions)
      BY DEF CollectsSessions
    <3>2. NoSession \notin Sessions
      BY SessionPoolAssumption DEF NoSession, Sessions
    <3>3. ASSUME <<NoSession>> \in Seq(Sessions) PROVE FALSE
      <4>1. <<NoSession>>[1] \in Sessions
        BY <3>3
      <4> QED
        BY <3>2, <4>1
    <3> QED
      BY <3>1, <3>3
  <2>3. sess'[q] # sess[q]
    BY <2>2
  <2>4. CASE Tick
    BY <2>3, <2>4 DEF Tick, plan
  <2>5. ASSUME NEW r \in Requests,
               \E stamp \in Sessions \cup {NoSession}, systemone \in BOOLEAN :
                  Arrive(r, stamp, systemone)
        PROVE  FALSE
    <3>1. PICK stamp \in Sessions \cup {NoSession}, systemone \in BOOLEAN :
            Arrive(r, stamp, systemone)
      BY <2>5
    <3>2. q # r
      BY <3>1 DEF Arrive
    <3> QED
      BY <2>1, <2>3, <3>1, <3>2 DEF Arrive, TypeOK
  <2>6. ASSUME NEW r \in Requests, Collect(r)
        PROVE  FALSE
    <3>1. PICK s \in Sessions : sess' = [sess EXCEPT ![r] = Append(@, s)]
      BY <2>6 DEF Collect
    <3>2. sess[q] \in Seq(Sessions)
      BY <2>2
    <3>3. sess'[q] \in Seq(Sessions)
      <4>1. sess \in [Requests -> Seq(Sessions \cup {NoSession})]
        BY <2>1 DEF TypeOK
      <4> QED
        BY <3>1, <3>2, <4>1, AppendKeepsSessions
    <3> QED
      BY <2>2, <3>3
  <2>7. ASSUME NEW r \in Requests, CollectEnd(r)
        PROVE  \A s \in Sessions : ~Usable(pool[s], now)
    <3>1. r = q /\ sess[q] = <<>>
      BY <2>1, <2>3, <2>7 DEF CollectEnd, TypeOK
    <3>2. PICK s \in Sessions \cup {NoSession} :
            Picked(pool, rr, now, s) /\ (s = NoSession \/ Seen(q, s))
      BY <2>7, <3>1 DEF CollectEnd
    <3>3. ~Seen(q, s)
      BY <3>1 DEF Seen
    <3>4. FirstUsable(pool, rr + 1, now, NoSession)
      BY <3>2, <3>3 DEF Picked
    <3>5. rr + 1 \in Nat
      BY <2>1 DEF TypeOK
    <3> QED
      BY <3>4, <3>5, FruitlessScan
  <2>8. ASSUME NEW r \in Requests,
               \/ Route(r) \/ Send(r) \/ GiveUp(r) \/ Served(r)
               \/ Rejected(r) \/ Burned(r) \/ Flaky(r) \/ Cool(r)
        PROVE  FALSE
    BY <2>3, <2>8 DEF Route, Send, GiveUp, Served, Rejected, Burned, Flaky, Cool, plan
  <2> QED
    BY <2>4, <2>5, <2>6, <2>7, <2>8 DEF Next, Step
<1> QED
  BY <1>1, <1>2, <1>3, Invariance, PTL DEF Spec, AnonymousOnlyWithoutSessions

(***************************************************************************)
(* The contract.                                                            *)
(***************************************************************************)
(* Every step of the loop is a step of the contract, or changes nothing the *)
(* caller sees.                                                             *)
LEMMA ContractStep == Inv /\ [Next]_vars => [Contract!Next]_(Contract!cvars)
<1> SUFFICES ASSUME Inv, [Next]_vars
             PROVE  [Contract!Next]_(Contract!cvars)
  OBVIOUS
<1> USE DEF Verdict, Done
<1>1. CASE Tick \/ UNCHANGED vars
  BY <1>1 DEF Tick, vars, counts, Contract!cvars
<1>2. ASSUME NEW r \in Requests,
             \/ \E stamp \in Sessions \cup {NoSession}, systemone \in BOOLEAN :
                   Arrive(r, stamp, systemone)
             \/ Collect(r) \/ CollectEnd(r) \/ Route(r)
             \/ Burned(r) \/ Flaky(r) \/ Cool(r)
      PROVE  UNCHANGED Contract!cvars
  <2>1. attempts' = attempts /\ tried' = tried
    BY <1>2 DEF Arrive, Collect, CollectEnd, Route, Burned, Flaky, Cool, counts
  <2>2. pc[r] \notin Done /\ pc'[r] \notin Done
    BY <1>2 DEF Inv, TypeOK, Arrive, Collect, CollectEnd, Route, Burned, Flaky, Cool, Goto
  <2>3. \A q \in Requests \ {r} : pc'[q] = pc[q]
    BY <1>2 DEF Inv, TypeOK, Arrive, Collect, CollectEnd, Route, Burned, Flaky, Cool, Goto
  <2>4. \A q \in Requests : Verdict(q)' = Verdict(q)
    BY <2>2, <2>3
  <2> QED
    BY <2>1, <2>4 DEF Contract!cvars
<1>3. ASSUME NEW r \in Requests, Send(r)
      PROVE  Contract!Call(r)
  <2>1. pc[r] = "try" /\ CanTry(r) /\ pc' = [pc EXCEPT ![r] = "wait"]
    BY <1>3 DEF Send, Goto
  <2>2. /\ tried' = [tried EXCEPT ![r] = @ \cup {<<Member(r), Session(r)>>}]
        /\ attempts' = [attempts EXCEPT ![r] = @ + 1]
    BY <1>3 DEF Send
  <2>3. <<Member(r), Session(r)>> \in (Members \X (Sessions \cup {NoSession})) \ tried[r]
    <3>1. mi[r] \in 1 .. Len(ord[r]) /\ si[r] \in 1 .. Len(sess[r])
      BY <2>1 DEF CanTry, Inv, LoopInv, RequestInv, PlaceInv, Looping, TypeOK
    <3>2. <<Member(r), Session(r)>> \notin tried[r]
      BY <1>3, LoopStepSend DEF Inv, LoopInv
    <3>3. Member(r) \in Members /\ Session(r) \in Sessions \cup {NoSession}
      BY <3>1 DEF Inv, TypeOK, Member, Session
    <3> QED
      BY <3>2, <3>3
  <2>4. \A q \in Requests : Verdict(q)' = Verdict(q)
    BY <2>1 DEF Inv, TypeOK
  <2> QED
    BY <2>1, <2>2, <2>3, <2>4 DEF Contract!Call, CanTry
<1>4. ASSUME NEW r \in Requests, Served(r) \/ Rejected(r)
      PROVE  Contract!Answer(r)
  <2>1. pc[r] = "wait" /\ UNCHANGED <<attempts, tried>>
    BY <1>4 DEF Served, Rejected, counts
  <2>2. \E v \in {"served", "rejected"} : pc' = [pc EXCEPT ![r] = v]
    BY <1>4 DEF Served, Rejected, Goto
  <2>3. attempts[r] > 0
    BY <2>1 DEF Inv, TypeOK, LoopInv, RequestInv, CountInv, Busy
  <2>4. PICK v \in {"served", "rejected"} : pc' = [pc EXCEPT ![r] = v]
    BY <2>2
  <2>5. [q \in Requests |-> Verdict(q)]' =
            [[q \in Requests |-> Verdict(q)] EXCEPT ![r] = v]
    BY <2>4 DEF Inv, TypeOK
  <2> QED
    BY <2>1, <2>3, <2>5 DEF Contract!Answer
<1>5. ASSUME NEW r \in Requests, GiveUp(r)
      PROVE  Contract!GiveUp(r)
  <2>1. pc[r] = "try" /\ pc' = [pc EXCEPT ![r] = "exhausted"] /\ UNCHANGED <<attempts, tried>>
    BY <1>5 DEF GiveUp, Goto, counts
  <2>2. OutOfChances(r)
    <3>1. RequestInv(r)' /\ pc'[r] = "exhausted"
      BY <1>5, <2>1, LoopStepGiveUp DEF Inv, LoopInv, TypeOK
    <3>2. OutOfChances(r)'
      BY <3>1 DEF RequestInv
    <3> QED
      BY <1>5, <3>2 DEF OutOfChances, AllTried, GiveUp, counts, plan
  <2>3. Contract!Spent(r)
    <3>1. CASE AllTried(r)
      <4>1. tried[r] = Elements(ord[r]) \X Elements(sess[r])
        BY <2>1, <3>1 DEF AllTried, Inv, LoopInv, RequestInv, TriedInv, Looping
      <4>2. Elements(ord[r]) \subseteq Members
            /\ Elements(sess[r]) \subseteq Sessions \cup {NoSession}
        BY DEF Inv, TypeOK, Elements
      <4> QED
        BY <4>1, <4>2 DEF Contract!Spent
    <3>2. CASE attempts[r] = MaxAttempts
      BY <3>2 DEF Contract!Spent
    <3>3. CASE consec[r] = BreakerLimit
      BY <3>3 DEF Contract!Spent, Inv, LoopInv, RequestInv, CountInv
    <3> QED
      BY <2>2, <3>1, <3>2, <3>3 DEF OutOfChances
  <2>4. [q \in Requests |-> Verdict(q)]' =
            [[q \in Requests |-> Verdict(q)] EXCEPT ![r] = "exhausted"]
    BY <2>1 DEF Inv, TypeOK
  <2> QED
    BY <2>1, <2>3, <2>4 DEF Contract!GiveUp
<1> QED
  BY <1>1, <1>2, <1>3, <1>4, <1>5 DEF Next, Step, Contract!Next

(* freeCall keeps what FreeContract promises its caller.                    *)
THEOREM Refinement == Spec => KeepsContract
<1>1. Init => Contract!Init
  BY DEF Init, Contract!Init, Verdict, Done
<1> QED
  BY <1>1, ContractStep, Invariance, PTL DEF Spec, KeepsContract, Contract!Spec

(***************************************************************************)
(* Requests that collect at the same time.                                  *)
(***************************************************************************)
UsableNow == {s \in Sessions : Usable(pool[s], now)}

(* A pick passes over the sessions between the cursor and its answer, or    *)
(* round the end of the ring.                                               *)
LEMMA PickPasses ==
    ASSUME TypeOK, rr \in Sessions, NEW s \in Sessions, Picked(pool, rr, now, s)
    PROVE  /\ s \in UsableNow
           /\ s > rr => \A x \in UsableNow : x <= rr \/ x >= s
           /\ s <= rr => \A x \in UsableNow : s <= x /\ x <= rr
<1> DEFINE n == NumSessions
<1>1. n \in Nat \ {0} /\ Sessions = 0 .. n - 1
  BY SessionPoolAssumption DEF Sessions
<1>2. s # NoSession
  BY <1>1 DEF NoSession
<1>3. PICK k \in 0 .. n - 1 :
          /\ s = (rr + 1 + k) % n
          /\ Usable(pool[s], now)
          /\ \A j \in 0 .. k - 1 : ~Usable(pool[(rr + 1 + j) % n], now)
  BY <1>2 DEF Picked, FirstUsable
<1> HIDE DEF n
<1>4. \A x \in 0 .. n - 1 : x % n = x /\ (x + n) % n = x
  BY <1>1
<1>5. k = IF s > rr THEN s - rr - 1 ELSE s - rr - 1 + n
  <2>1. CASE rr + 1 + k < n
    <3>1. rr + 1 + k \in 0 .. n - 1
      BY <1>1, <2>1
    <3>2. s = rr + 1 + k
      BY <1>3, <1>4, <3>1
    <3> QED
      BY <1>1, <3>2
  <2>2. CASE rr + 1 + k >= n
    <3>1. rr + 1 + k - n \in 0 .. n - 1
      BY <1>1, <2>2
    <3>2. (rr + 1 + k - n + n) % n = rr + 1 + k - n
      BY <1>4, <3>1
    <3>3. rr + 1 + k - n + n = rr + 1 + k
      BY <1>1
    <3>4. s = rr + 1 + k - n
      BY <1>3, <3>2, <3>3
    <3> QED
      BY <1>1, <3>4
  <2> QED
    BY <1>1, <2>1, <2>2
<1>6. ASSUME NEW x \in UsableNow, x > rr PROVE ~(x - rr - 1 < k)
  <2>1. x \in 0 .. n - 1 /\ Usable(pool[x], now)
    BY <1>1 DEF UsableNow
  <2>2. rr + 1 + (x - rr - 1) = x
    BY <1>1, <2>1
  <2>3. (rr + 1 + (x - rr - 1)) % n = x
    BY <1>4, <2>1, <2>2
  <2> SUFFICES ASSUME x - rr - 1 < k PROVE FALSE
    OBVIOUS
  <2>4. x - rr - 1 \in 0 .. k - 1
    BY <1>1, <1>6, <2>1
  <2> QED
    BY <1>3, <2>1, <2>3, <2>4
<1>7. ASSUME NEW x \in UsableNow, x <= rr PROVE ~(x - rr - 1 + n < k)
  <2>1. x \in 0 .. n - 1 /\ Usable(pool[x], now)
    BY <1>1 DEF UsableNow
  <2>2. rr + 1 + (x - rr - 1 + n) = x + n
    BY <1>1, <2>1
  <2>3. (rr + 1 + (x - rr - 1 + n)) % n = x
    BY <1>4, <2>1, <2>2
  <2> SUFFICES ASSUME x - rr - 1 + n < k PROVE FALSE
    OBVIOUS
  <2>4. x - rr - 1 + n \in 0 .. k - 1
    BY <1>1, <1>7, <2>1
  <2> QED
    BY <1>3, <2>1, <2>3, <2>4
<1>8. \A x \in UsableNow : x \in 0 .. n - 1
  BY <1>1 DEF UsableNow
<1>9. s \in UsableNow
  BY <1>3 DEF UsableNow
<1> QED
  BY <1>1, <1>5, <1>6, <1>7, <1>8, <1>9

(* The list with one session more holds one session more.                   *)
LEMMA ElementsAppend ==
    ASSUME NEW S, NEW q \in Seq(S), NEW s \in S
    PROVE  Elements(Append(q, s)) = Elements(q) \cup {s}
<1>1. /\ Len(Append(q, s)) = Len(q) + 1 /\ Len(q) \in Nat
      /\ DOMAIN q = 1 .. Len(q) /\ DOMAIN Append(q, s) = 1 .. Len(q) + 1
      /\ \A i \in 1 .. Len(q) : Append(q, s)[i] = q[i]
      /\ Append(q, s)[Len(q) + 1] = s
  OBVIOUS
<1> HIDE DEF Elements
<1> QED
  BY <1>1 DEF Elements

(* A pick does not return a session that lies, going round, behind one that *)
(* waits, and stays before the one that waits unless it returns that one.   *)
LEMMA PickStaysBefore ==
    ASSUME TypeOK, rr \in Sessions, NEW t \in Sessions, Picked(pool, rr, now, t),
           NEW x \in Sessions, Usable(pool[x], now),
           NEW s \in Sessions, Before(s, rr, x)
    PROVE  t # s /\ (x # t => Before(s, t, x))
<1>1. /\ t > rr => x <= rr \/ x >= t
      /\ t <= rr => t <= x /\ x <= rr
  BY PickPasses DEF UsableNow
<1>2. rr \in Int /\ t \in Int /\ x \in Int /\ s \in Int
  BY SessionPoolAssumption DEF Sessions
<1> QED
  BY <1>1, <1>2 DEF Before

WInv == Inv /\ CollectsSessions /\ SharingInv

(* Sessions wait only for requests that collect, and only usable ones.      *)
LEMMA WaitingAre ==
    ASSUME WInv, WNext, NEW r \in Requests, NEW x \in waiting'[r]
    PROVE  /\ pc'[r] = "collect" /\ x \in Sessions
           /\ Usable(pool'[x], now') /\ ~Handed(x)
           /\ pc[r] = "collect" => x \in waiting[r]
BY DEF WInv, WNext, SharingInv

(* The cursor stays on a session of the pool.                               *)
LEMMA CursorStep ==
    ASSUME TypeOK, NumSessions > 0 => rr \in Sessions, [Next]_vars
    PROVE  NumSessions > 0 => rr' \in Sessions
<1>1. rr' = rr \/ \E s \in Sessions \cup {NoSession} : rr' = CursorAfter(rr, s)
  BY DEF Next, Tick, Step, Arrive, Collect, CollectEnd, Route, Send, GiveUp, Served, Rejected,
         Burned, Flaky, Cool, vars, pools
<1> QED
  BY <1>1 DEF CursorAfter

(* A step that is no pick leaves the cursor and the lists of those who      *)
(* collect alone, or begins a list.                                         *)
LEMMA NoPick ==
    ASSUME TypeOK, Next, NEW r \in Requests, pc'[r] = "collect",
           \A q \in Requests : ~Collect(q) /\ ~CollectEnd(q)
    PROVE  /\ rr' = rr
           /\ \/ pc[r] = "collect" /\ sess'[r] = sess[r]
              \/ sess'[r] = <<>>
<1>1. CASE Tick
  BY <1>1 DEF Tick, pools, plan
<1>2. ASSUME NEW q \in Requests, NEW stamp \in Sessions \cup {NoSession},
             NEW systemone \in BOOLEAN, Arrive(q, stamp, systemone)
      PROVE  /\ rr' = rr
             /\ \/ pc[r] = "collect" /\ sess'[r] = sess[r]
                \/ sess'[r] = <<>>
  BY <1>2 DEF Arrive, Goto, TypeOK, pools
<1>3. ASSUME NEW q \in Requests, Step(q)
      PROVE  rr' = rr /\ pc[r] = "collect" /\ sess'[r] = sess[r]
  BY <1>3 DEF Step, Route, Send, GiveUp, Served, Rejected, Burned, Flaky, Cool,
              Goto, TypeOK, pools, plan
<1> QED
  BY <1>1, <1>2, <1>3 DEF Next

(* A pick that goes on: the session it brings is ahead of nobody's.         *)
LEMMA PickGoesOn ==
    ASSUME WInv, WNext, NEW q \in Requests, Collect(q),
           NEW r \in Requests, NEW x \in waiting'[r], NEW s \in Elements(sess'[r])
    PROVE  Before(s, rr', x)
<1>1. PICK t \in Sessions :
         /\ Picked(pool, rr, now, t)
         /\ sess' = [sess EXCEPT ![q] = Append(@, t)]
         /\ rr' = CursorAfter(rr, t)
  BY DEF Collect
<1>2. rr' = t /\ rr \in Sessions /\ TypeOK
  BY <1>1, SessionPoolAssumption
     DEF CursorAfter, Sessions, NoSession, WInv, SharingInv, Inv
<1>3. pc[q] = "collect" /\ pool' = pool /\ now' = now /\ pc[r] = "collect"
  BY <1>2, WaitingAre DEF Collect, Goto, TypeOK
<1>4. sess[q] \in Seq(Sessions) /\ sess[r] \in Seq(Sessions)
  BY <1>3 DEF WInv, CollectsSessions
<1>5. sess'[q] = Append(sess[q], t)
  BY <1>1, <1>2 DEF TypeOK
<1>6. sess'[q] # sess[q]
  BY <1>4, <1>5
<1>7. x \in Sessions /\ Usable(pool[x], now) /\ x \in waiting[r] /\ x # t
  BY <1>2, <1>3, <1>6, WaitingAre DEF Handed
<1>8. CASE s \in Elements(sess[r])
  <2>1. s \in Sessions
    BY <1>4, <1>8 DEF Elements
  <2>2. Before(s, rr, x)
    BY <1>3, <1>7, <1>8 DEF WInv, SharingInv
  <2> QED
    BY <1>1, <1>2, <1>7, <2>1, <2>2, PickStaysBefore
<1>9. CASE s \notin Elements(sess[r])
  <2>1. r = q
    <3> SUFFICES ASSUME r # q PROVE FALSE
      OBVIOUS
    <3>1. sess'[r] = sess[r]
      BY <1>1, <1>2 DEF TypeOK
    <3> QED
      BY <1>9, <3>1 DEF Elements
  <2>2. s = t
    BY <1>4, <1>5, <1>9, <2>1, ElementsAppend DEF Elements
  <2>3. t \in Int /\ x \in Int
    BY <1>7, SessionPoolAssumption DEF Sessions
  <2> QED
    BY <1>2, <1>7, <2>2, <2>3 DEF Before
<1> QED
  BY <1>8, <1>9

(* A pick that ends a list leaves the other lists where they were; if it    *)
(* brings nothing, nothing is usable and nothing waits.                     *)
LEMMA PickEnds ==
    ASSUME WInv, WNext, NEW q \in Requests, CollectEnd(q),
           NEW r \in Requests, NEW x \in waiting'[r], NEW s \in Elements(sess'[r])
    PROVE  Before(s, rr', x)
<1>1. PICK t \in Sessions \cup {NoSession} :
         Picked(pool, rr, now, t) /\ rr' = CursorAfter(rr, t)
  BY DEF CollectEnd
<1>2. TypeOK /\ pc[q] = "collect" /\ pc'[q] = "route"
  BY DEF CollectEnd, Goto, WInv, Inv, TypeOK
<1>3. r # q /\ pool' = pool /\ now' = now /\ pc[r] = "collect" /\ sess'[r] = sess[r]
  BY <1>2, WaitingAre DEF CollectEnd, Goto, TypeOK
<1>4. x \in Sessions /\ Usable(pool[x], now) /\ x \in waiting[r] /\ ~Handed(x)
  BY <1>3, WaitingAre
<1>5. t # NoSession
  BY <1>1, <1>2, <1>4, FruitlessScan DEF Picked, TypeOK
<1>6. t \in Sessions /\ rr' = t /\ x # t
  BY <1>1, <1>2, <1>4, <1>5 DEF CursorAfter, Handed
<1>7. rr \in Sessions
  BY <1>4, SessionPoolAssumption DEF WInv, SharingInv, Sessions
<1>8. s \in Elements(sess[r]) /\ s \in Sessions
  BY <1>3 DEF Elements, WInv, CollectsSessions
<1>9. Before(s, rr, x)
  BY <1>3, <1>4, <1>8 DEF WInv, SharingInv
<1> QED
  BY <1>1, <1>2, <1>4, <1>6, <1>7, <1>8, <1>9, PickStaysBefore

(* Every step keeps the cursor before what waits.                           *)
LEMMA SharingStep == WInv /\ [WNext]_wvars => WInv'
<1> SUFFICES ASSUME WInv, [WNext]_wvars PROVE WInv'
  OBVIOUS
<1>1. [Next]_vars
  BY DEF WNext, wvars
<1>2. Inv' /\ CollectsSessions'
  BY <1>1, TypeStep, LoopStep, CollectsSessionsStep DEF WInv, Inv
<1>3. CASE UNCHANGED wvars
  <2>1. UNCHANGED <<pool, rr, now, pc, sess, waiting>>
    BY <1>3 DEF wvars, vars, pools, plan
  <2>2. SharingInv'
    BY <2>1 DEF WInv, SharingInv, Elements
  <2> QED
    BY <1>2, <2>2 DEF WInv
<1>4. CASE WNext
  <2>1. waiting' \in [Requests -> SUBSET Sessions]
    BY <1>4 DEF WInv, SharingInv, WNext
  <2>2. NumSessions > 0 => rr' \in Sessions
    BY <1>1, CursorStep DEF WInv, Inv, SharingInv
  <2>3. ASSUME NEW r \in Requests, NEW x \in waiting'[r], NEW s \in Elements(sess'[r])
        PROVE  Before(s, rr', x)
    <3>1. pc'[r] = "collect" /\ (pc[r] = "collect" => x \in waiting[r])
      BY <1>4, <2>3, WaitingAre
    <3>2. CASE \A q \in Requests : ~Collect(q) /\ ~CollectEnd(q)
      <4>1. Elements(<<>>) = {}
        BY DEF Elements
      <4>2. rr' = rr /\ pc[r] = "collect" /\ sess'[r] = sess[r]
        BY <1>4, <2>3, <3>1, <3>2, <4>1, NoPick DEF WNext, WInv, Inv
      <4> QED
        BY <2>3, <3>1, <4>2 DEF WInv, SharingInv
    <3> QED
      BY <1>4, <2>3, <3>2, PickGoesOn, PickEnds
  <2>4. SharingInv'
    <3>1. ASSUME NEW r \in Requests, NEW x \in waiting'[r]
          PROVE  Usable(pool'[x], now')
      BY <1>4, <3>1, WaitingAre
    <3>2. \A r \in Requests : Elements(sess[r])' = Elements(sess'[r])
      BY DEF Elements
    <3> QED
      BY <2>1, <2>2, <2>3, <3>1, <3>2 DEF SharingInv
  <2> QED
    BY <1>2, <2>4 DEF WInv
<1> QED
  BY <1>3, <1>4

(* Sharing runs FreeCall and watches.                                       *)
THEOREM SharingInvariance == WSpec => []WInv
<1>1. WInit => WInv
  <2> SUFFICES ASSUME WInit PROVE WInv
    OBVIOUS
  <2>1. Inv /\ CollectsSessions
    BY InitInv DEF WInit, Init, CollectsSessions
  <2>2. SharingInv
    BY SessionPoolAssumption DEF WInit, Init, SharingInv, Sessions
  <2> QED
    BY <2>1, <2>2 DEF WInv
<1> QED
  BY <1>1, SharingStep, PTL DEF WSpec

(* The cursor comes to every session that waits before it comes back to one *)
(* of the list (pick, freeSessions).                                        *)
THEOREM CursorIsFair == WSpec => []SharingInv
<1>1. WInv => SharingInv
  BY DEF WInv
<1> QED
  BY <1>1, SharingInvariance, PTL

(* The pick that ends a list too early found a session of the list, or      *)
(* none.  Had a session been waiting, the cursor would have come to it      *)
(* first (freeSessions).                                                    *)
THEOREM NobodyPassedOver == WSpec => NobodyIsPassedOver
<1> DEFINE Fair ==
      \A r \in Requests :
          pc[r] = "collect" /\ pc'[r] = "route" /\ Len(sess'[r]) < Coverage =>
              waiting[r] = {}
<1>1. WInv /\ [WNext]_wvars => [Fair]_wvars
  <2> SUFFICES ASSUME WInv, WNext, NEW r \in Requests,
                      pc[r] = "collect", pc'[r] = "route", Len(sess'[r]) < Coverage,
                      NEW x \in waiting[r]
               PROVE  FALSE
    OBVIOUS
  <2>1. TypeOK /\ Next /\ x \in Sessions /\ Usable(pool[x], now)
    BY DEF WInv, Inv, WNext, SharingInv
  <2>2. Collect(r) \/ CollectEnd(r)
    <3>1. PICK q \in Requests :
              \/ \E stamp \in Sessions \cup {NoSession}, systemone \in BOOLEAN :
                    Arrive(q, stamp, systemone)
              \/ Step(q)
      BY <2>1 DEF Next, Tick
    <3>2. q = r
      BY <2>1, <3>1 DEF Step, Arrive, Collect, CollectEnd, Route, Send, GiveUp, Served,
                        Rejected, Burned, Flaky, Cool, Goto, TypeOK
    <3> QED
      BY <3>1, <3>2 DEF Step, Arrive, Route, Send, GiveUp, Served, Rejected, Burned, Flaky, Cool
  <2>3. ~Collect(r)
    <3> SUFFICES ASSUME Collect(r) PROVE FALSE
      OBVIOUS
    <3>1. PICK t \in Sessions :
             /\ sess' = [sess EXCEPT ![r] = Append(@, t)]
             /\ Goto(r, IF Full(Append(sess[r], t)) THEN "route" ELSE "collect")
      BY DEF Collect
    <3>2. sess'[r] = Append(sess[r], t) /\ sess[r] \in Seq(Sessions \cup {NoSession})
      BY <2>1, <3>1 DEF TypeOK
    <3>3. Len(sess'[r]) \in Nat
      BY <3>2
    <3>4. Full(sess'[r])
      BY <2>1, <3>1, <3>2 DEF Goto, TypeOK
    <3> QED
      BY <3>3, <3>4, FreeCallAssumption DEF Full
  <2>4. PICK t \in Sessions \cup {NoSession} :
           Picked(pool, rr, now, t) /\ (t = NoSession \/ Seen(r, t))
    BY <2>2, <2>3 DEF CollectEnd
  <2>5. t # NoSession
    BY <2>1, <2>4, FruitlessScan DEF Picked, TypeOK
  <2>6. sess[r] \in Seq(Sessions)
    BY DEF WInv, CollectsSessions
  <2>7. t \in Sessions /\ t \in Elements(sess[r])
    BY <2>4, <2>5, <2>6 DEF Seen, Elements
  <2>8. rr \in Sessions
    BY <2>1, SessionPoolAssumption DEF WInv, SharingInv, Sessions
  <2>9. Before(t, rr, x)
    BY <2>7 DEF WInv, SharingInv
  <2> QED
    BY <2>1, <2>4, <2>7, <2>8, <2>9, PickStaysBefore
<1> QED
  BY <1>1, SharingInvariance, PTL DEF WSpec, NobodyIsPassedOver
=============================================================================
