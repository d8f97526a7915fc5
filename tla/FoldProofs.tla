----------------------------- MODULE FoldProofs -----------------------------
(***************************************************************************)
(* What a proof needs to know of the folds the models are written with      *)
(* (FoldLeft, FlattenSeq).  A recursive function is, to the prover, any     *)
(* function that satisfies its equation; that there is one is what the      *)
(* lemmas about ladders show, for any step given as a function.  They go    *)
(* by the least counterexample, since the numbers are well-founded.         *)
(***************************************************************************)
EXTENDS Integers, SequencesExt, SequenceTheorems, WellFoundedInduction, TLAPS

(* A set of numbers that is not empty has a least element.                  *)
LEMMA LeastNumber ==
    ASSUME NEW T \in SUBSET Nat, T # {}
    PROVE  \E x \in T : \A y \in T : x <= y
<1> DEFINE R == OpToRel(<, Nat)
<1>1. IsWellFoundedOn(R, Nat)
  BY NatLessThanWellFounded
<1> HIDE DEF R
<1>2. PICK x \in T : \A y \in T : ~ (<<y, x>> \in R)
  BY <1>1, WFMin
<1>3. \A y \in T : y < x => <<y, x>> \in R
  BY DEF R, OpToRel
<1>4. \A y \in T : ~ (y < x)
  BY <1>2, <1>3
<1>5. \A y \in T : x <= y
  BY <1>4, x \in Nat, T \subseteq Nat
<1> QED
  BY <1>5

(* Induction over a set of numbers: one that holds 0 and, with every number *)
(* below n, the next one, holds all up to n.                                *)
LEMMA UpTo ==
    ASSUME NEW n \in Nat, NEW T, 0 \in T,
           \A k \in 1 .. n : k - 1 \in T => k \in T
    PROVE  \A k \in 0 .. n : k \in T
<1> DEFINE Out == {k \in 0 .. n : k \notin T}
<1> SUFFICES ASSUME Out # {} PROVE FALSE
  OBVIOUS
<1>1. PICK x \in Out : \A y \in Out : x <= y
  <2>1. Out \in SUBSET Nat
    OBVIOUS
  <2> HIDE DEF Out
  <2> QED
    BY <2>1, LeastNumber
<1>2. x # 0 /\ x \in 1 .. n
  OBVIOUS
<1>3. x - 1 \in T
  BY <1>1, <1>2
<1> QED
  BY <1>2, <1>3

(* n steps within A, and the values a base takes on the way.                *)
Steps(n, A) == [1 .. n -> [A -> A]]
IsLadder(g, n, A, base, step) ==
    /\ g \in [0 .. n -> A]
    /\ g[0] = base
    /\ \A i \in 1 .. n : g[i] = step[i][g[i - 1]]

(* Steps that are functions give a ladder from every base.                  *)
LEMMA Ladder ==
    ASSUME NEW A, NEW base \in A, NEW n \in Nat, NEW step \in Steps(n, A)
    PROVE  \E g : IsLadder(g, n, A, base, step)
<1> USE DEF Steps, IsLadder
<1> DEFINE Climbs(k, g) == \A i \in 0 .. k : g[i] = IF i = 0 THEN base ELSE step[i][g[i - 1]]
           T == {k \in 0 .. n : \E g \in [0 .. k -> A] : Climbs(k, g)}
<1>1. 0 \in T
  <2> DEFINE h == [i \in 0 .. 0 |-> base]
  <2>1. h \in [0 .. 0 -> A] /\ Climbs(0, h)
    OBVIOUS
  <2> HIDE DEF h, Climbs
  <2> QED
    BY <2>1
<1>2. ASSUME NEW k \in 1 .. n, k - 1 \in T PROVE k \in T
  <2>1. PICK g \in [0 .. k - 1 -> A] : Climbs(k - 1, g)
    BY <1>2
  <2> DEFINE h == [i \in 0 .. k |-> IF i = k THEN step[k][g[k - 1]] ELSE g[i]]
  <2>2. h \in [0 .. k -> A]
    OBVIOUS
  <2>3. ASSUME NEW i \in 0 .. k PROVE h[i] = IF i = 0 THEN base ELSE step[i][h[i - 1]]
    BY <2>1
  <2>4. Climbs(k, h)
    BY <2>3
  <2> HIDE DEF h, Climbs
  <2> QED
    BY <2>2, <2>4
<1>3. n \in T
  <2>1. \A k \in 1 .. n : k - 1 \in T => k \in T
    BY <1>2
  <2> HIDE DEF T
  <2>2. \A k \in 0 .. n : k \in T
    BY <1>1, <2>1, UpTo
  <2> QED
    BY <2>2
<1>4. PICK g \in [0 .. n -> A] : Climbs(n, g)
  BY <1>3
<1> QED
  BY <1>4

-----------------------------------------------------------------------------
(* The greatest of some numbers up to n, and what is left without it.       *)
LEMMA MaxIsElement ==
    ASSUME NEW n \in Nat, NEW s \in SUBSET (1 .. n), s # {}
    PROVE  Max(s) \in s
<1> DEFINE T == {n - x : x \in s}
<1>1. T \in SUBSET Nat /\ T # {}
  <2>1. \A x \in s : x \in 1 .. n
    OBVIOUS
  <2>2. \A x \in 1 .. n : n - x \in Nat
    OBVIOUS
  <2>3. \A x \in s : n - x \in Nat
    BY <2>1, <2>2
  <2>4. PICK x : x \in s
    OBVIOUS
  <2>5. n - x \in T
    BY <2>4
  <2> QED
    BY <2>3, <2>5
<1>2. PICK y \in T : \A z \in T : y <= z
  BY <1>1, LeastNumber
<1>3. PICK x \in s : y = n - x
  BY <1>2
<1>4. \A z \in s : x >= z
  <2> TAKE z \in s
  <2>1. n - x <= n - z
    BY <1>2, <1>3
  <2> QED
    BY <2>1
<1> QED
  BY <1>4 DEF Max

(* Of numbers up to k, one of them k, the greatest is k.                    *)
LEMMA MaxOfUpTo ==
    ASSUME NEW n \in Nat, NEW k \in 1 .. n, NEW s \in SUBSET (1 .. k), k \in s
    PROVE  Max(s) = k
<1>1. Max(s) \in s /\ \A z \in s : Max(s) >= z
  <2>1. \A z \in s : k >= z
    OBVIOUS
  <2> QED
    BY <2>1 DEF Max
<1>2. Max(s) \in 1 .. k /\ Max(s) >= k
  BY <1>1
<1> QED
  BY <1>2

(* Of all numbers up to k it is too; without it they go up to k - 1.        *)
LEMMA UpToTop ==
    ASSUME NEW n \in Nat, NEW k \in 1 .. n
    PROVE  /\ 1 .. k \in SUBSET (1 .. n) /\ 1 .. k # {}
           /\ Max(1 .. k) = k /\ (1 .. k) \ {k} = 1 .. k - 1
<1>1. k \in Nat /\ 1 <= k /\ k <= n
  OBVIOUS
<1>2. \A i \in 1 .. k : i \in 1 .. n
  BY <1>1
<1>3. k \in 1 .. k
  BY <1>1
<1>4. Max(1 .. k) = k
  BY <1>1, <1>3, MaxOfUpTo
<1>5. (1 .. k) \ {k} = 1 .. k - 1
  BY <1>1
<1> QED
  BY <1>2, <1>3, <1>4, <1>5

(* A fold goes down the subsets of its domain, by their greatest element.   *)
IsSetLadder(g, n, A, base, step) ==
    /\ g \in [SUBSET (1 .. n) -> A]
    /\ \A s \in SUBSET (1 .. n) :
          g[s] = IF s = {} THEN base ELSE step[Max(s)][g[s \ {Max(s)}]]

(* There is a function from the subsets that does.                          *)
LEMMA SetLadder ==
    ASSUME NEW A, NEW base \in A, NEW n \in Nat, NEW step \in Steps(n, A)
    PROVE  \E g : IsSetLadder(g, n, A, base, step)
<1> DEFINE T == {k \in 0 .. n : \E g : IsSetLadder(g, k, A, base, step)}
<1>1. 0 \in T
  <2> DEFINE g == [s \in SUBSET (1 .. 0) |-> base]
  <2>1. SUBSET (1 .. 0) = {{}}
    OBVIOUS
  <2>2. IsSetLadder(g, 0, A, base, step)
    BY <2>1 DEF IsSetLadder
  <2> QED
    BY <2>2
<1>2. ASSUME NEW k \in 1 .. n, k - 1 \in T PROVE k \in T
  <2>1. PICK g : IsSetLadder(g, k - 1, A, base, step)
    BY <1>2
  <2> DEFINE h == [s \in SUBSET (1 .. k) |->
                     IF k \in s THEN step[k][g[s \ {k}]] ELSE g[s]]
  <2>2. \A s \in SUBSET (1 .. k) : s \ {k} \in SUBSET (1 .. k - 1)
    OBVIOUS
  <2>3. \A s \in SUBSET (1 .. k) : k \notin s => s \in SUBSET (1 .. k - 1)
    OBVIOUS
  <2>4. h \in [SUBSET (1 .. k) -> A]
    <3>1. \A a \in A : step[k][a] \in A
      BY DEF Steps
    <3> QED
      BY <2>1, <2>2, <2>3, <3>1 DEF IsSetLadder
  <2>5. ASSUME NEW s \in SUBSET (1 .. k)
        PROVE  h[s] = IF s = {} THEN base ELSE step[Max(s)][h[s \ {Max(s)}]]
    <3>1. CASE k \in s
      <4>1. Max(s) = k
        BY <3>1, MaxOfUpTo
      <4>2. h[s] = step[k][g[s \ {k}]]
        BY <3>1
      <4>3. h[s \ {k}] = g[s \ {k}]
        BY <2>2
      <4> QED
        BY <3>1, <4>1, <4>2, <4>3
    <3>2. CASE k \notin s
      <4>1. s \in SUBSET (1 .. k - 1) /\ h[s] = g[s]
        BY <2>3, <3>2
      <4>2. h[s \ {Max(s)}] = g[s \ {Max(s)}]
        BY <3>2
      <4>3. g[s] = IF s = {} THEN base ELSE step[Max(s)][g[s \ {Max(s)}]]
        BY <2>1, <4>1 DEF IsSetLadder
      <4> QED
        BY <4>1, <4>2, <4>3
    <3> QED
      BY <3>1, <3>2
  <2>6. IsSetLadder(h, k, A, base, step)
    BY <2>4, <2>5 DEF IsSetLadder
  <2> HIDE DEF h
  <2> QED
    BY <2>6
<1>3. \A k \in 1 .. n : k - 1 \in T => k \in T
  BY <1>2
<1> HIDE DEF T
<1>4. \A k \in 0 .. n : k \in T
  BY <1>1, <1>3, UpTo
<1> QED
  BY <1>4 DEF T

(* The values such a function has on 1 .. k, for k up to n, are a ladder of *)
(* the same steps: a fold takes its sequence from left to right.            *)
LEMMA FoldClimbs ==
    ASSUME NEW A, NEW base \in A, NEW n \in Nat, NEW step \in Steps(n, A),
           NEW iter, DOMAIN iter = SUBSET (1 .. n),
           \A s \in SUBSET (1 .. n) :
              iter[s] = IF s = {} THEN base ELSE step[Max(s)][iter[s \ {Max(s)}]]
    PROVE  \E g : IsLadder(g, n, A, base, step) /\ g[n] = iter[1 .. n]
<1> DEFINE g == [k \in 0 .. n |-> iter[1 .. k]]
<1>1. g[0] = base
  <2>1. 1 .. 0 = {}
    OBVIOUS
  <2>2. iter[{}] = base
    OBVIOUS
  <2> QED
    BY <2>1, <2>2
<1>2. ASSUME NEW k \in 1 .. n PROVE g[k] = step[k][g[k - 1]]
  <2>1. /\ 1 .. k \in SUBSET (1 .. n) /\ 1 .. k # {}
        /\ Max(1 .. k) = k /\ (1 .. k) \ {k} = 1 .. k - 1
    BY UpToTop
  <2>2. iter[1 .. k] = step[k][iter[1 .. k - 1]]
    BY <2>1
  <2>3. g[k] = iter[1 .. k] /\ g[k - 1] = iter[1 .. k - 1]
    OBVIOUS
  <2> QED
    BY <2>2, <2>3
<1>3. g[n] = iter[1 .. n] /\ DOMAIN g = 0 .. n /\ g = [k \in 0 .. n |-> g[k]]
  OBVIOUS
<1> HIDE DEF g
<1>4. \A k \in 0 .. n : g[k] \in A
  <2> DEFINE T == {k \in 0 .. n : g[k] \in A}
  <2>1. 0 \in T
    BY <1>1
  <2>2. \A k \in 1 .. n : k - 1 \in T => k \in T
    <3> SUFFICES ASSUME NEW k \in 1 .. n, g[k - 1] \in A PROVE k \in T
      OBVIOUS
    <3>1. step[k][g[k - 1]] \in A
      BY DEF Steps
    <3> QED
      BY <1>2, <3>1
  <2> HIDE DEF T
  <2>3. \A k \in 0 .. n : k \in T
    BY <2>1, <2>2, UpTo
  <2> QED
    BY <2>3 DEF T
<1>5. IsLadder(g, n, A, base, step)
  BY <1>1, <1>2, <1>3, <1>4 DEF IsLadder
<1> QED
  BY <1>3, <1>5

-----------------------------------------------------------------------------
(* FlattenSeq as a ladder: what it makes of the first i sequences.          *)
LEMMA FlattenLadder ==
    ASSUME NEW A, NEW seqs \in Seq(Seq(A))
    PROVE  \E F \in [0 .. Len(seqs) -> Seq(A)] :
              /\ F[0] = <<>>
              /\ \A i \in 1 .. Len(seqs) : F[i] = F[i - 1] \o seqs[i]
              /\ F[Len(seqs)] = FlattenSeq(seqs)
<1> DEFINE n == Len(seqs)
           step == [i \in 1 .. n |-> [a \in Seq(A) |-> a \o seqs[i]]]
           Sat(f) == f = [i \in 1 .. n |-> IF i = 1 THEN seqs[i] ELSE f[i - 1] \o seqs[i]]
           flatten == CHOOSE f : Sat(f)
<1>1. n \in Nat /\ \A i \in 1 .. n : seqs[i] \in Seq(A)
  OBVIOUS
<1>2. step \in [1 .. n -> [Seq(A) -> Seq(A)]]
  <2>1. \A i \in 1 .. n : \A a \in Seq(A) : a \o seqs[i] \in Seq(A)
    BY <1>1, ConcatProperties
  <2> QED
    BY <2>1
<1>3. \E f : Sat(f)
  <2>1. <<>> \in Seq(A)
    OBVIOUS
  <2> HIDE DEF n, step
  <2>2. PICK g \in [0 .. n -> Seq(A)] :
            /\ g[0] = <<>>
            /\ \A i \in 1 .. n : g[i] = step[i][g[i - 1]]
    <3>1. step \in Steps(n, Seq(A))
      BY <1>2 DEF Steps
    <3>2. \E g : IsLadder(g, n, Seq(A), <<>>, step)
      BY <1>1, <2>1, <3>1, Ladder
    <3> QED
      BY <3>2 DEF IsLadder
  <2> DEFINE f == [i \in 1 .. n |-> g[i]]
  <2>3. ASSUME NEW i \in 1 .. n
        PROVE  g[i] = IF i = 1 THEN seqs[i] ELSE g[i - 1] \o seqs[i]
    <3>1. g[i] = step[i][g[i - 1]] /\ g[i - 1] \in Seq(A)
      BY <1>1, <2>2
    <3>2. g[i] = g[i - 1] \o seqs[i]
      BY <3>1 DEF step
    <3>3. i = 1 => g[i - 1] = <<>>
      BY <1>1, <2>2
    <3>4. <<>> \o seqs[i] = seqs[i]
      BY <1>1, ConcatEmptySeq
    <3> QED
      BY <3>2, <3>3, <3>4
  <2>4. f = [i \in 1 .. n |-> IF i = 1 THEN seqs[i] ELSE f[i - 1] \o seqs[i]]
    BY <1>1, <2>3
  <2> QED
    BY <2>4
<1>4. Sat(flatten)
  BY <1>3
<1>5. FlattenSeq(seqs) = IF n = 0 THEN seqs ELSE flatten[n]
  BY DEF FlattenSeq
<1> HIDE DEF flatten, n
<1>6. /\ DOMAIN flatten = 1 .. n
      /\ \A i \in 1 .. n : flatten[i] = IF i = 1 THEN seqs[i] ELSE flatten[i - 1] \o seqs[i]
  BY <1>4
<1> DEFINE F == [i \in 0 .. n |-> IF i = 0 THEN <<>> ELSE flatten[i]]
<1>7. ASSUME NEW i \in 1 .. n PROVE F[i] = F[i - 1] \o seqs[i]
  <2>1. F[i] = flatten[i] /\ F[i - 1] = IF i = 1 THEN <<>> ELSE flatten[i - 1]
    BY <1>1
  <2> HIDE DEF F
  <2>2. flatten[i] = IF i = 1 THEN seqs[i] ELSE flatten[i - 1] \o seqs[i]
    BY <1>6
  <2>3. <<>> \o seqs[i] = seqs[i]
    BY <1>1, ConcatEmptySeq
  <2> QED
    BY <2>1, <2>2, <2>3
<1>8. F[0] = <<>>
  BY <1>1
<1>9. DOMAIN F = 0 .. n /\ F = [i \in 0 .. n |-> F[i]]
  OBVIOUS
<1>10. F[n] = FlattenSeq(seqs)
  <2>1. n = 0 => seqs = <<>>
    BY DEF n
  <2> QED
    BY <1>1, <1>5, <2>1
<1> HIDE DEF F
<1>11. \A i \in 0 .. n : F[i] \in Seq(A)
  <2> DEFINE T == {i \in 0 .. n : F[i] \in Seq(A)}
  <2>1. 0 \in T
    <3>1. F[0] \in Seq(A)
      BY <1>8, EmptySeq
    <3> QED
      BY <1>1, <3>1
  <2>2. ASSUME NEW k \in 1 .. n, k - 1 \in T PROVE k \in T
    <3>1. F[k - 1] \in Seq(A) /\ seqs[k] \in Seq(A)
      BY <1>1, <2>2
    <3>2. F[k] = F[k - 1] \o seqs[k]
      BY <1>7
    <3>3. F[k] \in Seq(A)
      BY <3>1, <3>2, ConcatProperties
    <3> QED
      BY <1>1, <3>3
  <2>3. \A k \in 1 .. n : k - 1 \in T => k \in T
    BY <2>2
  <2> HIDE DEF T
  <2>4. \A i \in 0 .. n : i \in T
    BY <1>1, <2>1, <2>3, UpTo
  <2> QED
    BY <2>4 DEF T
<1>12. F \in [0 .. n -> Seq(A)]
  BY <1>9, <1>11
<1> QED
  BY <1>7, <1>8, <1>10, <1>12 DEF n

(* Whatever climbs like FlattenSeq ends where it does.                      *)
LEMMA FlattenIs ==
    ASSUME NEW A, NEW seqs \in Seq(Seq(A)), NEW G, G[0] = <<>>,
           \A i \in 1 .. Len(seqs) : G[i] = G[i - 1] \o seqs[i]
    PROVE  FlattenSeq(seqs) = G[Len(seqs)] /\ FlattenSeq(seqs) \in Seq(A)
<1>1. PICK F \in [0 .. Len(seqs) -> Seq(A)] :
          /\ F[0] = <<>>
          /\ \A i \in 1 .. Len(seqs) : F[i] = F[i - 1] \o seqs[i]
          /\ F[Len(seqs)] = FlattenSeq(seqs)
  BY FlattenLadder
<1> DEFINE T == {i \in 0 .. Len(seqs) : F[i] = G[i]}
<1>2. Len(seqs) \in Nat
  OBVIOUS
<1>3. 0 \in T
  BY <1>1, <1>2
<1>4. \A k \in 1 .. Len(seqs) : k - 1 \in T => k \in T
  <2> SUFFICES ASSUME NEW k \in 1 .. Len(seqs), F[k - 1] = G[k - 1] PROVE k \in T
    OBVIOUS
  <2>1. F[k] = F[k - 1] \o seqs[k] /\ G[k] = G[k - 1] \o seqs[k]
    BY <1>1
  <2>2. F[k] = G[k]
    BY <2>1
  <2> QED
    BY <1>2, <2>2
<1> HIDE DEF T
<1>5. \A i \in 0 .. Len(seqs) : i \in T
  BY <1>2, <1>3, <1>4, UpTo
<1> QED
  BY <1>1, <1>2, <1>5 DEF T

(* Nothing flattens to nothing, and one more sequence is added at the end.  *)
LEMMA FlattenEmpty == FlattenSeq(<<>>) = <<>>
BY DEF FlattenSeq

(* One sequence more is put behind those before.                            *)
LEMMA FlattenAppend ==
    ASSUME NEW A, NEW seqs \in Seq(Seq(A)), NEW e \in Seq(A)
    PROVE  /\ FlattenSeq(Append(seqs, e)) = FlattenSeq(seqs) \o e
           /\ FlattenSeq(seqs) \in Seq(A)
<1> DEFINE n == Len(seqs)
           more == Append(seqs, e)
<1>1. n \in Nat /\ more \in Seq(Seq(A)) /\ Len(more) = n + 1 /\ more[n + 1] = e
      /\ \A i \in 1 .. n : more[i] = seqs[i]
  BY AppendProperties
<1>2. PICK F \in [0 .. n -> Seq(A)] :
          /\ F[0] = <<>>
          /\ \A i \in 1 .. n : F[i] = F[i - 1] \o seqs[i]
          /\ F[n] = FlattenSeq(seqs)
  BY FlattenLadder
<1> DEFINE G == [i \in 0 .. n + 1 |-> IF i = n + 1 THEN F[n] \o e ELSE F[i]]
<1>3. G[0] = <<>>
  BY <1>1, <1>2
<1> HIDE DEF more, n
<1>4. \A i \in 1 .. n + 1 : G[i] = G[i - 1] \o more[i]
  <2> TAKE i \in 1 .. n + 1
  <2>1. CASE i = n + 1
    <3>1. G[i] = F[n] \o e /\ G[i - 1] = F[n] /\ i - 1 = n
      BY <1>1, <2>1
    <3> QED
      BY <1>1, <2>1, <3>1
  <2>2. CASE i # n + 1
    <3>1. i \in 1 .. n /\ i - 1 \in 0 .. n
      BY <1>1, <2>2
    <3>2. G[i] = F[i] /\ G[i - 1] = F[i - 1]
      BY <1>1, <3>1
    <3> QED
      BY <1>1, <1>2, <3>1, <3>2
  <2> QED
    BY <2>1, <2>2
<1>5. G[n + 1] = F[n] \o e
  BY <1>1
<1> HIDE DEF G
<1>6. FlattenSeq(more) = G[n + 1]
  BY <1>1, <1>3, <1>4, FlattenIs
<1> QED
  BY <1>1, <1>2, <1>5, <1>6 DEF more
=============================================================================
