------------------------- MODULE SessionPoolProofs -------------------------
(***************************************************************************)
(* What a scan of the pool's ring promises, for a pool of any size and a    *)
(* scan from any position.                                                  *)
(***************************************************************************)
EXTENDS SessionPool, TLAPS

(* Arithmetic of the cursor: whole rounds of the ring do not move it.       *)
LEMMA RemainderOfSum ==
    ASSUME NEW n \in Nat \ {0}, NEW d \in Nat, NEW x \in 0 .. n - 1
    PROVE  (n * d + x) % n = x
OBVIOUS

(* len(p.sessions) steps from any position come by every session.           *)
LEMMA ScanCoversRing ==
    ASSUME NEW from \in Nat, NEW x \in Sessions
    PROVE  \E k \in 0 .. NumSessions - 1 : (from + k) % NumSessions = x
<1> DEFINE f == from % NumSessions
           d == from \div NumSessions
<1>1. NumSessions \in Nat \ {0} /\ x \in 0 .. NumSessions - 1
  BY SessionPoolAssumption DEF Sessions
<1>2. from = NumSessions * d + f /\ f \in 0 .. NumSessions - 1 /\ d \in Nat
  BY <1>1
<1> HIDE DEF f, d
<1>3. CASE f <= x
  <2>1. from + (x - f) = NumSessions * d + x
    BY <1>1, <1>2
  <2>2. (from + (x - f)) % NumSessions = x
    BY <1>1, <1>2, <2>1, RemainderOfSum
  <2>3. x - f \in 0 .. NumSessions - 1
    BY <1>1, <1>2, <1>3
  <2> QED
    BY <2>2, <2>3
<1>4. CASE x < f
  <2>1. from + (x - f + NumSessions) = NumSessions * (d + 1) + x
    BY <1>1, <1>2
  <2>2. (from + (x - f + NumSessions)) % NumSessions = x
    BY <1>1, <1>2, <2>1, RemainderOfSum
  <2>3. x - f + NumSessions \in 0 .. NumSessions - 1
    BY <1>1, <1>2, <1>4
  <2> QED
    BY <2>2, <2>3
<1> QED
  BY <1>1, <1>2, <1>3, <1>4

(* A scan answers that there is no session only when none is usable (pick,  *)
(* assign).                                                                 *)
LEMMA FruitlessScan ==
    ASSUME NEW pool, NEW t, NEW from \in Nat, FirstUsable(pool, from, t, NoSession)
    PROVE  \A x \in Sessions : ~Usable(pool[x], t)
<1>1. \A k \in 0 .. NumSessions - 1 : (from + k) % NumSessions # NoSession
  BY SessionPoolAssumption DEF NoSession
<1>2. \A k \in 0 .. NumSessions - 1 : ~Usable(pool[(from + k) % NumSessions], t)
  BY <1>1 DEF FirstUsable
<1> QED
  BY <1>2, ScanCoversRing
=============================================================================
