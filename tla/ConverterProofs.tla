-------------------------- MODULE ConverterProofs --------------------------
(***************************************************************************)
(* What the converters of src/free.go make of a body, for bodies of any     *)
(* length and any lines: the text a client puts together, the tool calls    *)
(* and the arguments of each.                                               *)
(***************************************************************************)
EXTENDS Converter, FoldProofs, FiniteSetTheorems

(* Append adds one element.                                                 *)
LEMMA ElementsAnd ==
    ASSUME NEW A, NEW s \in Seq(A), NEW e
    PROVE  ToSet(Append(s, e)) = ToSet(s) \cup {e}
<1>1. /\ Len(Append(s, e)) = Len(s) + 1 /\ Len(s) \in Nat
      /\ DOMAIN Append(s, e) = 1 .. Len(s) + 1 /\ DOMAIN s = 1 .. Len(s)
      /\ \A i \in 1 .. Len(s) : Append(s, e)[i] = s[i]
      /\ Append(s, e)[Len(s) + 1] = e
  OBVIOUS
<1>2. 1 .. Len(s) + 1 = (1 .. Len(s)) \cup {Len(s) + 1}
  BY <1>1
<1> QED
  BY <1>1, <1>2 DEF ToSet

(* The positions of a set, one more at a time; they are those of the set.   *)
LEMMA InOrderNone == \A S : InOrder(S, 0) = <<>>
<1> SUFFICES ASSUME NEW S PROVE InOrder(S, 0) = <<>>
  OBVIOUS
<1>1. [at \in 1 .. 0 |-> IF at \in S THEN <<at>> ELSE <<>>] = <<>>
  OBVIOUS
<1> QED
  BY <1>1, FlattenEmpty DEF InOrder

(* One number more is appended if it is a member.                           *)
LEMMA InOrderNext ==
    ASSUME NEW S, NEW n \in Nat
    PROVE  /\ InOrder(S, n) \in Seq(Nat)
           /\ InOrder(S, n + 1) = IF n + 1 \in S THEN Append(InOrder(S, n), n + 1)
                                  ELSE InOrder(S, n)
<1> DEFINE some(m) == [at \in 1 .. m |-> IF at \in S THEN <<at>> ELSE <<>>]
           last == IF n + 1 \in S THEN <<n + 1>> ELSE <<>>
<1>1. last \in Seq(Nat)
  OBVIOUS
<1>2. some(n) \in Seq(Seq(Nat)) /\ some(n + 1) \in Seq(Seq(Nat))
  <2>1. ASSUME NEW m \in Nat PROVE some(m) \in Seq(Seq(Nat))
    <3>1. \A at \in 1 .. m : (IF at \in S THEN <<at>> ELSE <<>>) \in Seq(Nat)
      OBVIOUS
    <3> QED
      BY <3>1
  <2>2. n + 1 \in Nat
    OBVIOUS
  <2> QED
    BY <2>1, <2>2
<1>3. some(n + 1) = Append(some(n), last)
  <2>1. Len(some(n)) = n /\ Len(some(n + 1)) = n + 1
    OBVIOUS
  <2>2. \A at \in 1 .. n : some(n + 1)[at] = some(n)[at]
    OBVIOUS
  <2>3. some(n + 1)[n + 1] = last
    OBVIOUS
  <2> HIDE DEF some, last
  <2>4. /\ Append(some(n), last) \in Seq(Seq(Nat))
        /\ Len(Append(some(n), last)) = n + 1
        /\ \A at \in 1 .. n : Append(some(n), last)[at] = some(n)[at]
        /\ Append(some(n), last)[n + 1] = last
    BY <1>1, <1>2, <2>1, AppendProperties
  <2>5. \A at \in 1 .. n + 1 : Append(some(n), last)[at] = some(n + 1)[at]
    BY <2>2, <2>3, <2>4
  <2> QED
    BY <1>2, <2>1, <2>4, <2>5, SeqEqual
<1>4. InOrder(S, n) = FlattenSeq(some(n)) /\ InOrder(S, n + 1) = FlattenSeq(some(n + 1))
  BY DEF InOrder
<1> HIDE DEF some
<1>5. /\ FlattenSeq(Append(some(n), last)) = FlattenSeq(some(n)) \o last
      /\ FlattenSeq(some(n)) \in Seq(Nat)
  BY <1>1, <1>2, FlattenAppend
<1>6. CASE n + 1 \in S
  <2>1. FlattenSeq(some(n)) \o <<n + 1>> = Append(FlattenSeq(some(n)), n + 1)
    BY <1>5, AppendIsConcat
  <2> QED
    BY <1>3, <1>4, <1>5, <1>6, <2>1
<1>7. CASE n + 1 \notin S
  <2>1. FlattenSeq(some(n)) \o <<>> = FlattenSeq(some(n))
    BY <1>5, ConcatEmptySeq
  <2> QED
    BY <1>3, <1>4, <1>5, <1>7, <2>1
<1> QED
  BY <1>6, <1>7

(* The same, one step before.                                               *)
LEMMA InOrderGrows ==
    ASSUME NEW S, NEW n \in Nat, NEW k \in 1 .. n
    PROVE  /\ InOrder(S, k - 1) \in Seq(Nat)
           /\ InOrder(S, k) = IF k \in S THEN Append(InOrder(S, k - 1), k)
                              ELSE InOrder(S, k - 1)
<1> DEFINE m == k - 1
<1>1. m \in Nat /\ m + 1 = k
  OBVIOUS
<1> HIDE DEF m
<1>2. /\ InOrder(S, m) \in Seq(Nat)
      /\ InOrder(S, m + 1) = IF m + 1 \in S THEN Append(InOrder(S, m), m + 1)
                             ELSE InOrder(S, m)
  BY <1>1, InOrderNext
<1>3. /\ InOrder(S, m) \in Seq(Nat)
      /\ InOrder(S, k) = IF k \in S THEN Append(InOrder(S, m), k)
                             ELSE InOrder(S, m)
  BY <1>1, <1>2
<1> QED
  BY <1>3 DEF m

(* The elements are the members up to n.                                    *)
LEMMA InOrderElements ==
    ASSUME NEW S, NEW n \in Nat
    PROVE  ToSet(InOrder(S, n)) = S \cap (1 .. n)
<1> DEFINE T == {k \in 0 .. n : ToSet(InOrder(S, k)) = S \cap (1 .. k)}
<1>1. 0 \in T
  BY InOrderNone DEF ToSet
<1>2. \A k \in 1 .. n : k - 1 \in T => k \in T
  <2> SUFFICES ASSUME NEW k \in 1 .. n, ToSet(InOrder(S, k - 1)) = S \cap (1 .. k - 1)
               PROVE  ToSet(InOrder(S, k)) = S \cap (1 .. k)
    OBVIOUS
  <2>1. k - 1 \in Nat /\ (k - 1) + 1 = k
    OBVIOUS
  <2>2. /\ InOrder(S, k - 1) \in Seq(Nat)
        /\ InOrder(S, k) = IF k \in S THEN Append(InOrder(S, k - 1), k) ELSE InOrder(S, k - 1)
    BY InOrderGrows
  <2>3. ToSet(Append(InOrder(S, k - 1), k)) = ToSet(InOrder(S, k - 1)) \cup {k}
    BY <2>2, ElementsAnd
  <2>4. 1 .. k = (1 .. k - 1) \cup {k}
    OBVIOUS
  <2> QED
    BY <2>2, <2>3, <2>4
<1> HIDE DEF T
<1>3. \A k \in 0 .. n : k \in T
  BY <1>1, <1>2, UpTo
<1> QED
  BY <1>3 DEF T

(* Those up to k come first, and are the ones that are not greater than k.  *)
LEMMA InOrderPrefix ==
    ASSUME NEW S, NEW n \in Nat, NEW k \in 0 .. n
    PROVE  /\ Len(InOrder(S, k)) <= Len(InOrder(S, n))
           /\ \A i \in 1 .. Len(InOrder(S, k)) : InOrder(S, k)[i] = InOrder(S, n)[i]
           /\ \A i \in 1 .. Len(InOrder(S, n)) :
                 InOrder(S, n)[i] <= k <=> i <= Len(InOrder(S, k))
<1> DEFINE o(m) == InOrder(S, m)
           P(m) == /\ Len(o(k)) <= Len(o(m))
                   /\ \A i \in 1 .. Len(o(k)) : o(k)[i] = o(m)[i]
                   /\ \A i \in 1 .. Len(o(m)) : o(m)[i] <= k <=> i <= Len(o(k))
           T == {m \in 0 .. n : k <= m => P(m)}
<1>1. \A m \in Nat : o(m) \in Seq(Nat) /\ ToSet(o(m)) = S \cap (1 .. m)
  BY InOrderNext, InOrderElements
<1>2. \A m \in 1 .. n : o(m) = IF m \in S THEN Append(o(m - 1), m) ELSE o(m - 1)
  BY InOrderGrows
<1> HIDE DEF o
<1>3. P(k)
  <2>1. k \in Nat /\ o(k) \in Seq(Nat) /\ ToSet(o(k)) = S \cap (1 .. k)
        /\ \A i \in 1 .. Len(o(k)) : o(k)[i] \in ToSet(o(k))
    BY <1>1, SMTT(30) DEF ToSet
  <2>2. \A i \in 1 .. Len(o(k)) : o(k)[i] <= k
    BY <2>1
  <2> QED
    BY <2>1, <2>2
<1>4. 0 \in T
  <2>1. k <= 0 => k = 0
    OBVIOUS
  <2> HIDE DEF P
  <2> QED
    BY <1>3, <2>1
<1>5. ASSUME NEW m \in 1 .. n, m - 1 \in T PROVE m \in T
  <2> SUFFICES ASSUME k <= m - 1 PROVE P(m)
    <3>1. k <= m => k <= m - 1 \/ k = m
      OBVIOUS
    <3> HIDE DEF P
    <3> QED
      BY <1>3, <3>1
  <2>1. P(m - 1) /\ o(m - 1) \in Seq(Nat) /\ m \in Nat
    <3>1. m - 1 \in Nat
      OBVIOUS
    <3> QED
      BY <1>1, <1>5, <3>1
  <2>2. CASE m \notin S
    <3>1. o(m) = o(m - 1)
      BY <1>2, <2>2
    <3> QED
      BY <2>1, <3>1
  <2>3. CASE m \in S
    <3>1. o(m) = Append(o(m - 1), m)
      BY <1>2, <2>3
    <3>2. /\ Len(o(m)) = Len(o(m - 1)) + 1
          /\ \A i \in 1 .. Len(o(m - 1)) : o(m)[i] = o(m - 1)[i]
          /\ o(m)[Len(o(m - 1)) + 1] = m
      BY <2>1, <3>1, AppendProperties
    <3>3. o(k) \in Seq(Nat) /\ Len(o(k)) \in Nat /\ Len(o(m - 1)) \in Nat
      <4>1. k \in Nat
        OBVIOUS
      <4> QED
        BY <1>1, <2>1, <4>1
    <3>4. /\ Len(o(k)) <= Len(o(m - 1))
          /\ \A i \in 1 .. Len(o(k)) : o(k)[i] = o(m - 1)[i]
          /\ \A i \in 1 .. Len(o(m - 1)) : o(m - 1)[i] <= k <=> i <= Len(o(k))
      BY <2>1
    <3> HIDE DEF P
    <3>5. Len(o(k)) <= Len(o(m)) /\ \A i \in 1 .. Len(o(k)) : o(k)[i] = o(m)[i]
      BY <3>2, <3>3, <3>4
    <3>6. ASSUME NEW i \in 1 .. Len(o(m)) PROVE o(m)[i] <= k <=> i <= Len(o(k))
      <4>1. CASE i = Len(o(m - 1)) + 1
        <5>1. o(m)[i] = m /\ ~(m <= k)
          BY <3>2, <4>1
        <5>2. ~(i <= Len(o(k)))
          BY <3>3, <3>4, <4>1
        <5> QED
          BY <5>1, <5>2
      <4>2. CASE i # Len(o(m - 1)) + 1
        <5>1. i \in 1 .. Len(o(m - 1))
          BY <3>2, <3>3, <4>2
        <5> QED
          BY <3>2, <3>4, <5>1
      <4> QED
        BY <4>1, <4>2
    <3> QED
      BY <3>5, <3>6 DEF P
  <2> QED
    BY <2>2, <2>3
<1>6. \A m \in 1 .. n : m - 1 \in T => m \in T
  BY <1>5
<1> HIDE DEF T
<1>7. \A m \in 0 .. n : m \in T
  BY <1>4, <1>6, UpTo
<1>8. P(n)
  BY <1>7 DEF T
<1> QED
  BY <1>8 DEF o

(* A position is there once.                                                *)
LEMMA InOrderOnce ==
    ASSUME NEW S, NEW n \in Nat, NEW i \in 1 .. Len(InOrder(S, n)),
           NEW j \in 1 .. Len(InOrder(S, n)), InOrder(S, n)[i] = InOrder(S, n)[j]
    PROVE  i = j
<1> DEFINE o(m) == InOrder(S, m)
           p == o(n)[i]
<1>1. o(n) \in Seq(Nat) /\ ToSet(o(n)) = S \cap (1 .. n)
  BY InOrderNext, InOrderElements
<1>2. p \in S /\ p \in 1 .. n
  BY <1>1 DEF ToSet
<1>3. p - 1 \in 0 .. n /\ p \in 0 .. n
  BY <1>2
<1>4. \A x \in 1 .. Len(o(n)) : /\ o(n)[x] <= p <=> x <= Len(o(p))
                                /\ o(n)[x] <= p - 1 <=> x <= Len(o(p - 1))
  BY <1>3, InOrderPrefix
<1>5. Len(o(p)) = Len(o(p - 1)) + 1 /\ Len(o(p - 1)) \in Nat
  <2>1. o(p) = Append(o(p - 1), p) /\ o(p - 1) \in Seq(Nat)
    BY <1>2, InOrderGrows
  <2> QED
    BY <2>1, AppendProperties
<1> HIDE DEF o
<1>6. o(n)[i] = p /\ o(n)[j] = p /\ p \in Nat
  BY <1>2 DEF o
<1> HIDE DEF p
<1>7. i \in 1 .. Len(o(n)) /\ j \in 1 .. Len(o(n)) /\ Len(o(n)) \in Nat
  BY <1>1 DEF o
<1>8. i <= Len(o(p)) /\ ~(i <= Len(o(p - 1))) /\ j <= Len(o(p)) /\ ~(j <= Len(o(p - 1)))
  BY <1>4, <1>6, <1>7
<1> QED
  BY <1>5, <1>7, <1>8

-----------------------------------------------------------------------------
(* One more chunk adds what it carries to the kind and index it is of.      *)
Carried(out, kind, index) ==
    IF out # <<>> /\ out[1].kind = kind /\ out[1].index = index THEN out[1].data ELSE <<>>

(* No chunks carry nothing.                                                 *)
LEMMA DatasNone == \A kind, index : Datas(<<>>, kind, index) = <<>>
<1> SUFFICES ASSUME NEW kind, NEW index PROVE Datas(<<>>, kind, index) = <<>>
  OBVIOUS
<1> DEFINE none == <<>>
<1>1. [i \in DOMAIN none |->
         IF none[i].kind = kind /\ none[i].index = index THEN none[i].data ELSE <<>>] = <<>>
  OBVIOUS
<1> QED
  BY <1>1, FlattenEmpty DEF Datas

(* One chunk more carries what it carries behind the others.                *)
LEMMA DatasNext ==
    ASSUME NEW ch \in Seq(Chunks), NEW c \in Chunks, NEW kind, NEW index
    PROVE  /\ Datas(Append(ch, c), kind, index) = Datas(ch, kind, index)
                                                    \o Carried(<<c>>, kind, index)
           /\ Datas(ch, kind, index) \in Seq(Nat)
<1> DEFINE carry(x) == IF x.kind = kind /\ x.index = index THEN x.data ELSE <<>>
           some == [i \in DOMAIN ch |-> carry(ch[i])]
           more == [i \in DOMAIN Append(ch, c) |-> carry(Append(ch, c)[i])]
<1>1. \A x \in Chunks : carry(x) \in Seq(Nat)
  BY DEF Chunks
<1>2. carry(c) \in Seq(Nat) /\ Carried(<<c>>, kind, index) = carry(c)
  BY <1>1 DEF Carried
<1>3. /\ Append(ch, c) \in Seq(Chunks) /\ Len(Append(ch, c)) = Len(ch) + 1
      /\ \A i \in 1 .. Len(ch) : Append(ch, c)[i] = ch[i]
      /\ Append(ch, c)[Len(ch) + 1] = c /\ Len(ch) \in Nat
      /\ DOMAIN ch = 1 .. Len(ch) /\ DOMAIN Append(ch, c) = 1 .. Len(ch) + 1
      /\ \A i \in 1 .. Len(ch) : ch[i] \in Chunks
  BY AppendProperties
<1>4. some \in Seq(Seq(Nat)) /\ Len(some) = Len(ch)
  <2>1. \A i \in 1 .. Len(ch) : carry(ch[i]) \in Seq(Nat)
    BY <1>1, <1>3
  <2> HIDE DEF carry
  <2> QED
    BY <2>1, <1>3
<1>5. more \in Seq(Seq(Nat)) /\ Len(more) = Len(ch) + 1
  <2>1. \A i \in 1 .. Len(ch) + 1 : carry(Append(ch, c)[i]) \in Seq(Nat)
    BY <1>1, <1>3
  <2>2. Len(ch) + 1 \in Nat
    BY <1>3
  <2> HIDE DEF carry
  <2> QED
    BY <2>1, <2>2, <1>3
<1>6. \A i \in 1 .. Len(ch) : more[i] = some[i]
  <2> HIDE DEF carry
  <2> QED
    BY <1>3
<1>7. more[Len(ch) + 1] = carry(c)
  <2> HIDE DEF carry
  <2> QED
    BY <1>3
<1>8. Datas(ch, kind, index) = FlattenSeq(some)
      /\ Datas(Append(ch, c), kind, index) = FlattenSeq(more)
  BY DEF Datas
<1> HIDE DEF some, more, carry
<1>9. /\ Append(some, carry(c)) \in Seq(Seq(Nat))
      /\ Len(Append(some, carry(c))) = Len(ch) + 1
      /\ \A i \in 1 .. Len(ch) : Append(some, carry(c))[i] = some[i]
      /\ Append(some, carry(c))[Len(ch) + 1] = carry(c)
  BY <1>2, <1>4, AppendProperties
<1>10. \A i \in 1 .. Len(ch) + 1 : Append(some, carry(c))[i] = more[i]
  BY <1>3, <1>6, <1>7, <1>9
<1>11. more = Append(some, carry(c))
  BY <1>5, <1>9, <1>10, SeqEqual
<1>12. FlattenSeq(Append(some, carry(c))) = FlattenSeq(some) \o carry(c)
       /\ FlattenSeq(some) \in Seq(Nat)
  BY <1>2, <1>4, FlattenAppend
<1> QED
  BY <1>2, <1>8, <1>11, <1>12

-----------------------------------------------------------------------------
(* The chunks ch[i] made of the first i lines of a body: each line makes    *)
(* none or one.                                                             *)
Emits(ch, out, n) ==
    /\ ch \in [0 .. n -> Seq(Chunks)]
    /\ ch[0] = <<>>
    /\ \A i \in 1 .. n : /\ ch[i] = ch[i - 1] \o out[i]
                         /\ out[i] = <<>> \/ \E c \in Chunks : out[i] = <<c>>

(* A line emits nothing or one chunk, which is appended.                    *)
LEMMA EmitsStep ==
    ASSUME NEW n \in Nat, NEW ch, NEW out, Emits(ch, out, n), NEW k \in 1 .. n
    PROVE  /\ ch[k - 1] \in Seq(Chunks)
           /\ out[k] = <<>> => ch[k] = ch[k - 1]
           /\ out[k] # <<>> =>
                 \E c \in Chunks : out[k] = <<c>> /\ ch[k] = Append(ch[k - 1], c)
<1>1. ch[k - 1] \in Seq(Chunks) /\ ch[k] = ch[k - 1] \o out[k]
  <2>1. k - 1 \in 0 .. n
    OBVIOUS
  <2> QED
    BY <2>1 DEF Emits
<1>2. CASE out[k] = <<>>
  BY <1>1, <1>2, ConcatEmptySeq
<1>3. CASE out[k] # <<>>
  <2>1. PICK c \in Chunks : out[k] = <<c>>
    BY <1>3 DEF Emits
  <2>2. ch[k - 1] \o <<c>> = Append(ch[k - 1], c)
    BY <1>1, AppendIsConcat
  <2> QED
    BY <1>1, <1>3, <2>1, <2>2
<1> QED
  BY <1>1, <1>2, <1>3

(* What a kind and an index carry are the positions of a set, in order,     *)
(* when each line of the set, and no other, carries its own position.       *)
CarriesOnly(out, n, kind, index, S) ==
    \A i \in 1 .. n : Carried(out[i], kind, index) = IF i \in S THEN <<i>> ELSE <<>>

LEMMA EmitsDatas ==
    ASSUME NEW n \in Nat, NEW ch, NEW out, Emits(ch, out, n), NEW kind, NEW index, NEW S,
           CarriesOnly(out, n, kind, index, S)
    PROVE  Datas(ch[n], kind, index) = InOrder(S, n)
<1> DEFINE T == {k \in 0 .. n : Datas(ch[k], kind, index) = InOrder(S, k)}
<1>1. 0 \in T
  BY InOrderNone, DatasNone DEF Emits
<1>2. \A k \in 1 .. n : k - 1 \in T => k \in T
  <2> SUFFICES ASSUME NEW k \in 1 .. n, Datas(ch[k - 1], kind, index) = InOrder(S, k - 1)
               PROVE  Datas(ch[k], kind, index) = InOrder(S, k)
    OBVIOUS
  <2>1. /\ InOrder(S, k - 1) \in Seq(Nat)
        /\ InOrder(S, k) = IF k \in S THEN Append(InOrder(S, k - 1), k)
                           ELSE InOrder(S, k - 1)
    BY InOrderGrows, ZenonT(40)
  <2>2. Datas(ch[k], kind, index) = Datas(ch[k - 1], kind, index)
                                      \o (IF k \in S THEN <<k>> ELSE <<>>)
    <3>1. Carried(out[k], kind, index) = IF k \in S THEN <<k>> ELSE <<>>
      BY DEF CarriesOnly
    <3>2. CASE out[k] = <<>>
      <4>1. ch[k] = ch[k - 1]
        BY <3>2, EmitsStep
      <4>2. Carried(out[k], kind, index) = <<>>
        BY <3>2 DEF Carried
      <4>3. InOrder(S, k - 1) \o <<>> = InOrder(S, k - 1)
        BY <2>1, ConcatEmptySeq
      <4> QED
        BY <3>1, <4>1, <4>2, <4>3
    <3>3. CASE out[k] # <<>>
      <4>1. PICK c \in Chunks : out[k] = <<c>> /\ ch[k] = Append(ch[k - 1], c)
        BY <3>3, EmitsStep
      <4>2. ch[k - 1] \in Seq(Chunks)
        BY EmitsStep
      <4>3. Datas(Append(ch[k - 1], c), kind, index)
              = Datas(ch[k - 1], kind, index) \o Carried(<<c>>, kind, index)
        BY <4>2, DatasNext
      <4> QED
        BY <3>1, <4>1, <4>3
    <3> QED
      BY <3>2, <3>3
  <2>3. CASE k \in S
    <3>1. InOrder(S, k - 1) \o <<k>> = Append(InOrder(S, k - 1), k)
      BY <2>1, AppendIsConcat
    <3> QED
      BY <2>1, <2>2, <2>3, <3>1
  <2>4. CASE k \notin S
    <3>1. InOrder(S, k - 1) \o <<>> = InOrder(S, k - 1)
      BY <2>1, ConcatEmptySeq
    <3> QED
      BY <2>1, <2>2, <2>4, <3>1
  <2> QED
    BY <2>3, <2>4
<1> HIDE DEF T
<1>3. \A k \in 0 .. n : k \in T
  BY <1>1, <1>2, UpTo
<1> QED
  BY <1>3 DEF T

(* The chunks there are are those that the lines make.                      *)
Emitted(out, n) == {c \in Chunks : \E i \in 1 .. n : out[i] = <<c>>}

(* The chunks of a body are those its lines emit.                           *)
LEMMA EmitsElements ==
    ASSUME NEW n \in Nat, NEW ch, NEW out, Emits(ch, out, n)
    PROVE  ToSet(ch[n]) = Emitted(out, n)
<1> DEFINE T == {k \in 0 .. n : ToSet(ch[k]) = Emitted(out, k)}
<1>1. 0 \in T
  BY DEF Emits, ToSet, Emitted
<1>2. ASSUME NEW k \in 1 .. n, ToSet(ch[k - 1]) = Emitted(out, k - 1)
      PROVE  ToSet(ch[k]) = Emitted(out, k)
  <2> DEFINE this == {c \in Chunks : out[k] = <<c>>}
  <2>1. Emitted(out, k) = Emitted(out, k - 1) \cup this
    <3>1. 1 .. k = (1 .. k - 1) \cup {k}
      OBVIOUS
    <3> QED
      BY <3>1 DEF Emitted
  <2>2. CASE out[k] = <<>>
    <3>1. this = {} /\ ch[k] = ch[k - 1]
      BY <2>2, EmitsStep
    <3> QED
      BY <1>2, <2>1, <3>1
  <2>3. CASE out[k] # <<>>
    <3>1. PICK c \in Chunks : out[k] = <<c>> /\ ch[k] = Append(ch[k - 1], c)
      BY <2>3, EmitsStep
    <3>2. ch[k - 1] \in Seq(Chunks)
      BY EmitsStep
    <3>3. ToSet(Append(ch[k - 1], c)) = ToSet(ch[k - 1]) \cup {c}
      BY <3>2, ElementsAnd
    <3>4. this = {c}
      BY <3>1
    <3> QED
      BY <1>2, <2>1, <3>1, <3>3, <3>4
  <2> QED
    BY <2>2, <2>3
<1>3. \A k \in 1 .. n : k - 1 \in T => k \in T
  BY <1>2
<1> HIDE DEF T
<1>4. \A k \in 0 .. n : k \in T
  BY <1>1, <1>3, UpTo
<1> QED
  BY <1>4 DEF T

-----------------------------------------------------------------------------
(* A chat body, line by line.                                               *)
ChatLines(body) == [at \in DOMAIN body |-> ChatLine(body[at], at)]

(* A line of a chat body becomes at most one chunk, text only if it is text.*)
LEMMA ChatLineType ==
    ASSUME NEW line \in Line, NEW at \in Nat
    PROVE  /\ ChatLine(line, at) = <<>> \/ \E c \in Chunks : ChatLine(line, at) = <<c>>
           /\ ChatLine(line, at) \in Seq(Chunks)
           /\ Carried(ChatLine(line, at), "text", 0)
                = IF line.kind = "text" THEN <<at>> ELSE <<>>
<1> USE DEF Line, LineKinds, Chunks
<1> HIDE DEF LineKinds
<1>1. \A c : c \in Chunks => <<c>> \in Seq(Chunks)
  OBVIOUS
<1>2. <<at>> \in Seq(Nat) /\ <<>> \in Seq(Nat)
  OBVIOUS
<1>3. CASE line.kind = "text"
  <2>1. ChatLine(line, at) = <<Text(<<at>>)>> /\ Text(<<at>>) \in Chunks
    BY <1>2, <1>3 DEF ChatLine, Text
  <2>2. Carried(<<Text(<<at>>)>>, "text", 0) = <<at>>
    BY DEF Carried, Text
  <2> QED
    BY <1>1, <1>3, <2>1, <2>2
<1>4. CASE line.kind = "tool"
  <2>1. ChatLine(line, at) = <<Call(line.item, at)>> /\ Call(line.item, at) \in Chunks
    BY <1>2, <1>4 DEF ChatLine, Call
  <2>2. Carried(<<Call(line.item, at)>>, "text", 0) = <<>>
    BY DEF Carried, Call
  <2> QED
    BY <1>1, <1>4, <2>1, <2>2
<1>5. CASE line.kind = "closing"
  <2>1. ChatLine(line, at) = <<Stop>> /\ Stop \in Chunks
    BY <1>2, <1>5 DEF ChatLine, Stop
  <2>2. Carried(<<Stop>>, "text", 0) = <<>>
    BY DEF Carried, Stop
  <2> QED
    BY <1>1, <1>5, <2>1, <2>2
<1>6. CASE line.kind = "doubled"
  <2>1. ChatLine(line, at) = <<Garbled(<<at>>)>> /\ Garbled(<<at>>) \in Chunks
    BY <1>2, <1>6 DEF ChatLine, Garbled
  <2>2. Carried(<<Garbled(<<at>>)>>, "text", 0) = <<>>
    BY DEF Carried, Garbled
  <2> QED
    BY <1>1, <1>6, <2>1, <2>2
<1>7. CASE line.kind \notin {"text", "tool", "closing", "doubled"}
  <2>1. ChatLine(line, at) = <<>>
    BY <1>7 DEF ChatLine
  <2>2. Carried(<<>>, "text", 0) = <<>>
    BY DEF Carried
  <2> QED
    BY <1>7, <2>1, <2>2
<1> QED
  BY <1>3, <1>4, <1>5, <1>6, <1>7

(* The chunks of a chat body are emitted line after line.                   *)
LEMMA ChatEmits ==
    ASSUME NEW body \in Seq(Line)
    PROVE  \E ch : Emits(ch, ChatLines(body), Len(body)) /\ ch[Len(body)] = ChatChunks(body)
<1> DEFINE n == Len(body)
           lines == ChatLines(body)
<1>1. n \in Nat /\ DOMAIN body = 1 .. n /\ \A i \in 1 .. n : body[i] \in Line /\ i \in Nat
  OBVIOUS
<1>2. \A i \in 1 .. n : /\ lines[i] = ChatLine(body[i], i)
                        /\ lines[i] \in Seq(Chunks)
                        /\ lines[i] = <<>> \/ \E c \in Chunks : lines[i] = <<c>>
  BY <1>1, ChatLineType DEF ChatLines
<1>3. lines \in Seq(Seq(Chunks)) /\ Len(lines) = n
  <2>1. lines = [i \in 1 .. n |-> lines[i]]
    BY <1>1 DEF ChatLines
  <2> HIDE DEF lines
  <2> QED
    BY <1>1, <1>2, <2>1
<1>4. ChatChunks(body) = FlattenSeq(lines)
  BY DEF ChatChunks, ChatLines
<1> HIDE DEF lines
<1>5. PICK F \in [0 .. n -> Seq(Chunks)] :
          /\ F[0] = <<>>
          /\ \A i \in 1 .. n : F[i] = F[i - 1] \o lines[i]
          /\ F[n] = FlattenSeq(lines)
  BY <1>3, FlattenLadder, ZenonT(40)
<1>6. Emits(F, lines, n)
  BY <1>2, <1>5 DEF Emits
<1> QED
  BY <1>4, <1>5, <1>6 DEF lines

(* The chunks are chunks, and a client reads the text deltas, in order.     *)
LEMMA ChatText ==
    ASSUME NEW body \in Seq(Line)
    PROVE  /\ ChatChunks(body) \in Seq(Chunks)
           /\ Message(ChatChunks(body)).text = Lines(body, {"text"})
<1> DEFINE n == Len(body)
<1>1. n \in Nat /\ DOMAIN body = 1 .. n /\ \A i \in 1 .. n : body[i] \in Line /\ i \in Nat
  OBVIOUS
<1>2. PICK ch : Emits(ch, ChatLines(body), n) /\ ch[n] = ChatChunks(body)
  BY ChatEmits
<1>3. ASSUME NEW i \in 1 .. n
      PROVE  Carried(ChatLines(body)[i], "text", 0)
               = IF i \in Of(body, {"text"}) THEN <<i>> ELSE <<>>
  <2>1. ChatLines(body)[i] = ChatLine(body[i], i)
    BY <1>1 DEF ChatLines
  <2>2. i \in Of(body, {"text"}) <=> body[i].kind = "text"
    BY <1>1 DEF Of
  <2> QED
    BY <1>1, <2>1, <2>2, ChatLineType
<1>4. Datas(ch[n], "text", 0) = InOrder(Of(body, {"text"}), n)
  <2> DEFINE S == Of(body, {"text"})
             out == ChatLines(body)
  <2>1. Emits(ch, out, n) /\ CarriesOnly(out, n, "text", 0, S)
    BY <1>2, <1>3 DEF CarriesOnly
  <2> HIDE DEF S, out, n
  <2>2. Datas(ch[n], "text", 0) = InOrder(S, n)
    BY <1>1, <2>1, EmitsDatas
  <2> QED
    BY <2>2 DEF S
<1>5. ch[n] \in Seq(Chunks)
  BY <1>1, <1>2 DEF Emits
<1> QED
  BY <1>2, <1>4, <1>5 DEF Message, Lines

(* The same text as in the completion, unless a line is doubled.            *)
LEMMA ChatReads ==
    ASSUME NEW body \in Seq(Line)
    PROVE  (Message(ChatChunks(body)).text = ChatCompletion(body).text)
              <=> ~\E at \in DOMAIN body : body[at].kind = "doubled"
<1> DEFINE n == Len(body)
           S == Of(body, {"text"})
           R == Of(body, {"text", "doubled"})
<1>1. n \in Nat /\ DOMAIN body = 1 .. n
  OBVIOUS
<1>2. /\ Message(ChatChunks(body)).text = InOrder(S, n)
      /\ ChatCompletion(body).text = InOrder(R, n)
  BY ChatText DEF Lines, ChatCompletion
<1>3. S = R <=> ~\E at \in DOMAIN body : body[at].kind = "doubled"
  BY DEF Of
<1>4. S \subseteq 1 .. n /\ R \subseteq 1 .. n
  BY <1>1 DEF Of
<1> HIDE DEF S, R, n
<1>5. ToSet(InOrder(S, n)) = S \cap (1 .. n) /\ ToSet(InOrder(R, n)) = R \cap (1 .. n)
  BY <1>1, InOrderElements
<1>6. InOrder(S, n) = InOrder(R, n) <=> S = R
  BY <1>4, <1>5
<1> QED
  BY <1>2, <1>3, <1>6

-----------------------------------------------------------------------------
(* A responses body, line by line.                                          *)
States == [items : Seq(Nat), chunks : Seq(Chunks)]
Start == [items |-> <<>>, chunks |-> <<>>]

(* The place of an item that is there.                                      *)
LEMMA PlaceIs ==
    ASSUME NEW A, NEW items \in Seq(A), NEW item \in ToSet(items)
    PROVE  /\ Place(items, item) \in 1 .. Len(items)
           /\ items[Place(items, item)] = item
<1>1. \E i \in DOMAIN items : items[i] = item
  BY DEF ToSet
<1> QED
  BY <1>1 DEF Place

(* A line that adds a call adds its item to those before.                   *)
LEMMA AddedType ==
    ASSUME NEW items \in Seq(Nat), NEW line \in Line
    PROVE  /\ Added(items, line) \in Seq(Nat)
           /\ ToSet(Added(items, line))
                = ToSet(items) \cup (IF line.kind = "added" THEN {line.item} ELSE {})
<1>1. line.item \in Nat
  BY DEF Line
<1>2. Append(items, line.item) \in Seq(Nat)
      /\ ToSet(Append(items, line.item)) = ToSet(items) \cup {line.item}
  BY <1>1, ElementsAnd, AppendProperties
<1> QED
  BY <1>2 DEF Added

(* A line of a responses body becomes at most one chunk.                    *)
LEMMA ResponsesLineType ==
    ASSUME NEW items \in Seq(Nat), NEW line \in Line, NEW at \in Nat,
           line.kind = "added" => line.item \in ToSet(items)
    PROVE  /\ \/ ResponsesLine(items, line, at) = <<>>
              \/ \E c \in Chunks : ResponsesLine(items, line, at) = <<c>>
           /\ ResponsesLine(items, line, at) \in Seq(Chunks)
<1>1. \A c : c \in Chunks => <<c>> \in Seq(Chunks)
  OBVIOUS
<1>2. line.item \in Nat /\ <<at>> \in Seq(Nat) /\ <<>> \in Seq(Nat)
  BY DEF Line
<1>3. line.item \in ToSet(items) => Place(items, line.item) - 1 \in Nat
  <2> SUFFICES ASSUME line.item \in ToSet(items) PROVE Place(items, line.item) - 1 \in Nat
    OBVIOUS
  <2>1. Place(items, line.item) \in 1 .. Len(items)
    BY PlaceIs
  <2> QED
    BY <2>1
<1>4. CASE line.kind \in {"delta", "whole"}
  <2>1. ResponsesLine(items, line, at) = <<Text(<<at>>)>> /\ Text(<<at>>) \in Chunks
    BY <1>2, <1>4 DEF ResponsesLine, Text, Chunks
  <2> QED
    BY <1>1, <2>1
<1>5. CASE line.kind = "added"
  <2> DEFINE c == Call(Place(items, line.item) - 1, line.item)
  <2>1. ResponsesLine(items, line, at) = <<c>>
    BY <1>5 DEF ResponsesLine
  <2>2. <<line.item>> \in Seq(Nat)
    BY <1>2
  <2>3. c \in Chunks
    BY <1>3, <1>5, <2>2 DEF Call, Chunks
  <2> HIDE DEF c
  <2> QED
    BY <1>1, <2>1, <2>3
<1>6. CASE line.kind = "args" /\ line.item \in ToSet(items)
  <2> DEFINE c == Args(ArgsIndex(items, line.item), <<at>>)
  <2>1. ResponsesLine(items, line, at) = <<c>>
    BY <1>6 DEF ResponsesLine
  <2>2. c \in Chunks
    BY <1>2, <1>3, <1>6 DEF Args, ArgsIndex, Chunks
  <2> HIDE DEF c
  <2> QED
    BY <1>1, <2>1, <2>2
<1>7. CASE line.kind = "completed"
  <2>1. ResponsesLine(items, line, at) = <<Stop>> /\ Stop \in Chunks
    BY <1>2, <1>7 DEF ResponsesLine, Stop, Chunks
  <2> QED
    BY <1>1, <2>1
<1>8. CASE /\ line.kind \notin {"delta", "whole", "added", "completed"}
           /\ ~(line.kind = "args" /\ line.item \in ToSet(items))
  <2>1. ResponsesLine(items, line, at) = <<>>
    BY <1>8 DEF ResponsesLine
  <2> QED
    BY <2>1
<1> QED
  BY <1>4, <1>5, <1>6, <1>7, <1>8

(* A step of the fold stays among the states.                               *)
LEMMA ConvertLineType ==
    ASSUME NEW state \in States, NEW line \in Line, NEW at \in Nat
    PROVE  ConvertLine(state, line, at) \in States
<1> DEFINE items == Added(state.items, line)
           out == ResponsesLine(items, line, at)
<1>1. state.items \in Seq(Nat) /\ state.chunks \in Seq(Chunks)
  BY DEF States
<1>2. items \in Seq(Nat) /\ (line.kind = "added" => line.item \in ToSet(items))
  BY <1>1, AddedType
<1>3. ConvertLine(state, line, at) = [items |-> items, chunks |-> state.chunks \o out]
  BY DEF ConvertLine
<1> HIDE DEF items
<1>4. out \in Seq(Chunks)
  BY <1>2, ResponsesLineType
<1> HIDE DEF out
<1>5. state.chunks \o out \in Seq(Chunks)
  BY <1>1, <1>4, ConcatProperties
<1> QED
  BY <1>2, <1>3, <1>5 DEF States

(* The two parts of a step of the fold.                                     *)
LEMMA ConvertLineIs ==
    \A state, line, at :
        /\ ConvertLine(state, line, at).items = Added(state.items, line)
        /\ ConvertLine(state, line, at).chunks
              = state.chunks \o ResponsesLine(Added(state.items, line), line, at)
BY DEF ConvertLine

(* The states the fold goes through.                                        *)
LEMMA ResponsesLadder ==
    ASSUME NEW body \in Seq(Line)
    PROVE  \E g : /\ g \in [0 .. Len(body) -> States]
                  /\ g[0] = Start
                  /\ \A i \in 1 .. Len(body) : g[i] = ConvertLine(g[i - 1], body[i], i)
                  /\ g[Len(body)].chunks = ResponsesChunks(body)
<1> DEFINE n == Len(body)
           at == [i \in DOMAIN body |-> i]
           step == [i \in 1 .. n |-> [a \in States |-> ConvertLine(a, body[i], i)]]
           Sat(f) == f = [s \in SUBSET DOMAIN at |->
                             IF s = {} THEN Start
                             ELSE ConvertLine(f[s \ {Max(s)}], body[at[Max(s)]], at[Max(s)])]
           iter == CHOOSE f : Sat(f)
<1>1. /\ n \in Nat /\ DOMAIN body = 1 .. n /\ DOMAIN at = 1 .. n
      /\ \A i \in 1 .. n : body[i] \in Line /\ i \in Nat /\ at[i] = i
  OBVIOUS
<1>2. ResponsesChunks(body) = iter[DOMAIN at].chunks
  BY DEF ResponsesChunks, FoldLeftDomain, FoldLeft, MapThenFoldSet, Start
<1>3. step \in Steps(n, States)
  BY <1>1, ConvertLineType DEF Steps
<1>0. Start \in States
  BY DEF Start, States
<1> HIDE DEF n
<1>4. \A i \in 1 .. n : \A a \in States : step[i][a] = ConvertLine(a, body[i], i)
  OBVIOUS
<1> HIDE DEF step, at
<1>5. \E f : Sat(f)
  <2>1. PICK g : IsSetLadder(g, n, States, Start, step)
    BY <1>0, <1>1, <1>3, SetLadder
  <2>2. ASSUME NEW s \in SUBSET (1 .. n)
        PROVE  g[s] = IF s = {} THEN Start
                      ELSE ConvertLine(g[s \ {Max(s)}], body[at[Max(s)]], at[Max(s)])
    <3>1. s # {} => Max(s) \in 1 .. n /\ at[Max(s)] = Max(s)
      BY <1>1, MaxIsElement
    <3>2. g[s \ {Max(s)}] \in States
      BY <2>1 DEF IsSetLadder
    <3> QED
      BY <1>4, <2>1, <3>1, <3>2 DEF IsSetLadder
  <2>3. Sat(g)
    BY <1>1, <2>1, <2>2 DEF IsSetLadder
  <2> QED
    BY <2>3
<1>6. Sat(iter)
  BY <1>5
<1> HIDE DEF iter
<1>7. /\ DOMAIN iter = SUBSET (1 .. n)
      /\ \A s \in SUBSET (1 .. n) :
            iter[s] = IF s = {} THEN Start
                      ELSE ConvertLine(iter[s \ {Max(s)}], body[at[Max(s)]], at[Max(s)])
  BY <1>1, <1>6
<1> DEFINE g == [k \in 0 .. n |-> iter[1 .. k]]
<1>8. g[0] = Start
  <2>1. 1 .. 0 = {} /\ {} \in SUBSET (1 .. n)
    OBVIOUS
  <2>2. iter[{}] = Start
    BY <1>7
  <2> QED
    BY <1>1, <2>1, <2>2
<1>9. \A k \in 1 .. n : g[k] = ConvertLine(g[k - 1], body[k], k)
  <2> TAKE k \in 1 .. n
  <2>1. /\ 1 .. k \in SUBSET (1 .. n) /\ 1 .. k # {}
        /\ Max(1 .. k) = k /\ (1 .. k) \ {k} = 1 .. k - 1 /\ at[k] = k
    BY <1>1, UpToTop
  <2>2. iter[1 .. k] = ConvertLine(iter[1 .. k - 1], body[k], k)
    BY <1>7, <2>1
  <2>3. g[k] = iter[1 .. k] /\ g[k - 1] = iter[1 .. k - 1]
    BY <1>1
  <2> QED
    BY <2>2, <2>3
<1>10. g[n] = iter[1 .. n] /\ g = [k \in 0 .. n |-> g[k]]
  BY <1>1
<1> HIDE DEF g
<1>11. \A k \in 0 .. n : g[k] \in States
  <2> DEFINE T == {k \in 0 .. n : g[k] \in States}
  <2>1. 0 \in T
    BY <1>0, <1>1, <1>8
  <2>2. \A k \in 1 .. n : k - 1 \in T => k \in T
    BY <1>1, <1>9, ConvertLineType
  <2> HIDE DEF T
  <2>3. \A k \in 0 .. n : k \in T
    BY <1>1, <2>1, <2>2, UpTo
  <2> QED
    BY <2>3 DEF T
<1> QED
  BY <1>1, <1>2, <1>8, <1>9, <1>10, <1>11 DEF n

-----------------------------------------------------------------------------
(* The items that are known after k lines.                                  *)
First(body, k) == InOrder(Adding(body), k)
ItemsAt(body, k) == [i \in DOMAIN First(body, k) |-> body[First(body, k)[i]].item]

(* Of the lines that add a call, the first counts.                          *)
LEMMA AddingOnce ==
    ASSUME NEW body \in Seq(Line), NEW p \in Adding(body), NEW q \in Adding(body),
           body[p].item = body[q].item
    PROVE  p = q
<1>1. /\ p \in 1 .. Len(body) /\ q \in 1 .. Len(body) /\ body[p] \in Line /\ body[q] \in Line
      /\ body[p].kind = "added" /\ body[q].kind = "added"
      /\ \A j \in 1 .. p - 1 : body[j] # body[p]
      /\ \A j \in 1 .. q - 1 : body[j] # body[q]
  BY DEF Adding, Of
<1>2. body[p] = body[q]
  BY <1>1 DEF Line
<1>3. ~(p < q) /\ ~(q < p)
  BY <1>1, <1>2
<1> QED
  BY <1>1, <1>3

(* Each line that adds a call has a first one that adds the same.           *)
LEMMA AddingFirst ==
    ASSUME NEW body \in Seq(Line), NEW j \in Of(body, {"added"})
    PROVE  \E p \in Adding(body) : p <= j /\ body[p].item = body[j].item
<1> DEFINE same == {i \in 1 .. Len(body) : body[i] = body[j]}
<1>1. j \in same /\ same \in SUBSET Nat /\ body[j].kind = "added"
  BY DEF Of
<1> HIDE DEF same
<1>2. PICK p \in same : \A i \in same : p <= i
  BY <1>1, LeastNumber
<1>3. p \in 1 .. Len(body) /\ body[p] = body[j] /\ p <= j
  BY <1>1, <1>2 DEF same
<1>4. \A i \in 1 .. p - 1 : body[i] # body[p]
  BY <1>2, <1>3 DEF same
<1>5. p \in Adding(body)
  BY <1>1, <1>3, <1>4 DEF Adding, Of
<1> QED
  BY <1>3, <1>5

(* The first lines that add a call, in order, and the items they add.       *)
LEMMA FirstType ==
    ASSUME NEW body \in Seq(Line), NEW k \in 0 .. Len(body)
    PROVE  /\ First(body, k) \in Seq(Nat)
           /\ \A i \in 1 .. Len(First(body, k)) :
                 First(body, k)[i] \in Adding(body) \cap (1 .. k)
           /\ \A p \in Adding(body) \cap (1 .. k) :
                 \E i \in 1 .. Len(First(body, k)) : First(body, k)[i] = p
           /\ ItemsAt(body, k) \in Seq(Nat) /\ Len(ItemsAt(body, k)) = Len(First(body, k))
           /\ \A i \in 1 .. Len(First(body, k)) :
                 ItemsAt(body, k)[i] = body[First(body, k)[i]].item
<1>1. First(body, k) \in Seq(Nat) /\ ToSet(First(body, k)) = Adding(body) \cap (1 .. k)
  BY InOrderNext, InOrderElements DEF First
<1>2. \A i \in 1 .. Len(First(body, k)) : First(body, k)[i] \in Adding(body) \cap (1 .. k)
  BY <1>1 DEF ToSet
<1>3. \A p \in Adding(body) : body[p].item \in Nat
  <2>1. \A p \in Adding(body) : p \in 1 .. Len(body)
    BY DEF Adding, Of
  <2>2. \A p \in 1 .. Len(body) : body[p] \in Line
    OBVIOUS
  <2>3. \A line \in Line : line.item \in Nat
    BY DEF Line
  <2> QED
    BY <2>1, <2>2, <2>3
<1>4. \A p \in Adding(body) \cap (1 .. k) :
         \E i \in 1 .. Len(First(body, k)) : First(body, k)[i] = p
  BY <1>1 DEF ToSet
<1>5. ItemsAt(body, k) \in Seq(Nat) /\ Len(ItemsAt(body, k)) = Len(First(body, k))
      /\ \A i \in 1 .. Len(First(body, k)) :
            ItemsAt(body, k)[i] = body[First(body, k)[i]].item
  <2> DEFINE o == First(body, k)
  <2>1. DOMAIN o = 1 .. Len(o) /\ Len(o) \in Nat
    BY <1>1
  <2>2. \A i \in 1 .. Len(o) : body[o[i]].item \in Nat
    BY <1>2, <1>3
  <2>3. ItemsAt(body, k) = [i \in DOMAIN o |-> body[o[i]].item]
    BY DEF ItemsAt
  <2> HIDE DEF o
  <2>4. ItemsAt(body, k) \in Seq(Nat) /\ Len(ItemsAt(body, k)) = Len(o)
        /\ \A i \in 1 .. Len(o) : ItemsAt(body, k)[i] = body[o[i]].item
    BY <2>1, <2>2, <2>3
  <2> QED
    BY <2>4 DEF o
<1> QED
  BY <1>1, <1>2, <1>4, <1>5

(* No item is in the list twice.                                            *)
LEMMA ItemsOnce ==
    ASSUME NEW body \in Seq(Line), NEW k \in 0 .. Len(body),
           NEW i \in 1 .. Len(ItemsAt(body, k)), NEW j \in 1 .. Len(ItemsAt(body, k)),
           ItemsAt(body, k)[i] = ItemsAt(body, k)[j]
    PROVE  i = j
<1> DEFINE o == First(body, k)
<1>1. /\ i \in 1 .. Len(o) /\ j \in 1 .. Len(o)
      /\ o[i] \in Adding(body) /\ o[j] \in Adding(body)
      /\ body[o[i]].item = body[o[j]].item
  BY FirstType, SMTT(30)
<1>2. o[i] = o[j]
  BY <1>1, AddingOnce
<1> QED
  BY <1>1, <1>2, InOrderOnce DEF First

(* The list holds the items of the first lines up to k.                     *)
LEMMA ItemsSet ==
    ASSUME NEW body \in Seq(Line), NEW k \in 0 .. Len(body)
    PROVE  ToSet(ItemsAt(body, k)) = {body[p].item : p \in Adding(body) \cap (1 .. k)}
<1> DEFINE o == First(body, k)
<1>1. /\ DOMAIN ItemsAt(body, k) = 1 .. Len(o)
      /\ \A i \in 1 .. Len(o) : ItemsAt(body, k)[i] = body[o[i]].item
  BY FirstType
<1>3. \A i \in 1 .. Len(o) : o[i] \in Adding(body) \cap (1 .. k)
  BY FirstType
<1>4. \A p \in Adding(body) \cap (1 .. k) : \E i \in 1 .. Len(o) : o[i] = p
  BY FirstType
<1> HIDE DEF o
<1>5. ToSet(ItemsAt(body, k)) = {body[o[i]].item : i \in 1 .. Len(o)}
  BY <1>1 DEF ToSet
<1> QED
  BY <1>3, <1>4, <1>5

(* The fold keeps these items.                                              *)
LEMMA ItemsNext ==
    ASSUME NEW body \in Seq(Line), NEW k \in 1 .. Len(body)
    PROVE  ItemsAt(body, k) = Added(ItemsAt(body, k - 1), body[k])
<1> DEFINE x == body[k].item
           o == First(body, k - 1)
           old == ItemsAt(body, k - 1)
<1>0. k \in 0 .. Len(body) /\ k - 1 \in 0 .. Len(body) /\ k \in 1 .. Len(body)
  OBVIOUS
<1>1. /\ o \in Seq(Nat)
      /\ First(body, k) = IF k \in Adding(body) THEN Append(o, k) ELSE o
  <2> DEFINE n == Len(body)
             S == Adding(body)
  <2>1. n \in Nat /\ k \in 1 .. n
    OBVIOUS
  <2> HIDE DEF n, S
  <2>2. /\ InOrder(S, k - 1) \in Seq(Nat)
        /\ InOrder(S, k) = IF k \in S THEN Append(InOrder(S, k - 1), k)
                           ELSE InOrder(S, k - 1)
    BY <2>1, InOrderGrows
  <2> QED
    BY <2>2 DEF First, S
<1>2. k \in Adding(body) <=> body[k].kind = "added" /\ x \notin ToSet(old)
  <2>1. ToSet(old) = {body[p].item : p \in Adding(body) \cap (1 .. k - 1)}
    BY <1>0, ItemsSet
  <2>2. ASSUME k \in Adding(body) PROVE body[k].kind = "added" /\ x \notin ToSet(old)
    <3>1. body[k].kind = "added"
      BY <2>2 DEF Adding, Of
    <3>2. \A p \in Adding(body) : body[p].item = x => p = k
      BY <2>2, AddingOnce
    <3>3. k \notin 1 .. k - 1
      BY <1>0
    <3> QED
      BY <2>1, <3>1, <3>2, <3>3
  <2>3. ASSUME body[k].kind = "added", x \notin ToSet(old) PROVE k \in Adding(body)
    <3>1. k \in Of(body, {"added"})
      BY <1>0, <2>3 DEF Of
    <3>2. PICK p \in Adding(body) : p <= k /\ body[p].item = x
      BY <3>1, AddingFirst
    <3>3. p \notin 1 .. k - 1 /\ p \in 1 .. Len(body)
      BY <2>1, <2>3, <3>2 DEF Adding, Of
    <3>4. p = k
      BY <1>0, <3>2, <3>3
    <3> QED
      BY <3>2, <3>4
  <2> QED
    BY <2>2, <2>3
<1>3. CASE k \notin Adding(body)
  <2>1. ItemsAt(body, k) = old
    BY <1>1, <1>3 DEF ItemsAt
  <2>2. Added(old, body[k]) = old
    BY <1>2, <1>3 DEF Added
  <2> QED
    BY <2>1, <2>2
<1>4. CASE k \in Adding(body)
  <2>1. First(body, k) = Append(o, k)
    BY <1>1, <1>4
  <2>2. Added(old, body[k]) = Append(old, x)
    BY <1>2, <1>4 DEF Added
  <2>3. /\ Len(Append(o, k)) = Len(o) + 1 /\ Append(o, k)[Len(o) + 1] = k
        /\ \A i \in 1 .. Len(o) : Append(o, k)[i] = o[i]
    BY <1>1, AppendProperties
  <2>4. old \in Seq(Nat) /\ Len(old) = Len(o)
        /\ \A i \in 1 .. Len(o) : old[i] = body[o[i]].item
    BY <1>0, FirstType
  <2>5. x \in Nat
    <3>1. body[k] \in Line
      OBVIOUS
    <3> QED
      BY <3>1 DEF Line
  <2> HIDE DEF old, x
  <2>6. /\ Append(old, x) \in Seq(Nat) /\ Len(Append(old, x)) = Len(o) + 1
        /\ Append(old, x)[Len(o) + 1] = x
        /\ \A i \in 1 .. Len(o) : Append(old, x)[i] = old[i]
    BY <2>4, <2>5, AppendProperties
  <2>7. /\ ItemsAt(body, k) \in Seq(Nat)
        /\ Len(ItemsAt(body, k)) = Len(Append(o, k))
        /\ \A i \in 1 .. Len(Append(o, k)) :
              ItemsAt(body, k)[i] = body[Append(o, k)[i]].item
    <3>1. /\ ItemsAt(body, k) \in Seq(Nat)
          /\ Len(ItemsAt(body, k)) = Len(First(body, k))
          /\ \A i \in 1 .. Len(First(body, k)) :
                ItemsAt(body, k)[i] = body[First(body, k)[i]].item
      BY <1>0, FirstType
    <3> HIDE DEF o
    <3> QED
      BY <2>1, <3>1
  <2>8. body[k].item = x /\ Len(o) \in Nat
    BY <1>1 DEF x
  <2> HIDE DEF o
  <2>9. Len(ItemsAt(body, k)) = Len(o) + 1
        /\ ItemsAt(body, k)[Len(o) + 1] = x
        /\ \A i \in 1 .. Len(o) : ItemsAt(body, k)[i] = old[i]
    <3>1. Len(o) + 1 \in 1 .. Len(Append(o, k))
          /\ \A i \in 1 .. Len(o) : i \in 1 .. Len(Append(o, k))
      BY <2>3, <2>8
    <3>2. ItemsAt(body, k)[Len(o) + 1] = x
      BY <2>3, <2>7, <2>8, <3>1
    <3>3. \A i \in 1 .. Len(o) : ItemsAt(body, k)[i] = old[i]
      BY <2>3, <2>4, <2>7, <3>1
    <3> QED
      BY <2>3, <2>7, <3>2, <3>3
  <2>10. \A i \in 1 .. Len(o) + 1 : ItemsAt(body, k)[i] = Append(old, x)[i]
    BY <2>6, <2>8, <2>9
  <2>11. ItemsAt(body, k) = Append(old, x)
    BY <2>6, <2>7, <2>9, <2>10, SeqEqual
  <2> QED
    BY <2>2, <2>11 DEF old, x
<1> QED
  BY <1>3, <1>4

(* Call number q is that of an item exactly when the line that added it is  *)
(* the one numbered q, among all there will be.                             *)
LEMMA CallOf ==
    ASSUME NEW body \in Seq(Line), NEW k \in 0 .. Len(body), NEW q \in Nat, NEW x
    PROVE  (x \in ToSet(ItemsAt(body, k)) /\ Place(ItemsAt(body, k), x) - 1 = q)
             <=> LET first == First(body, Len(body))
                 IN  /\ q + 1 \in 1 .. Len(first) /\ first[q + 1] <= k
                     /\ body[first[q + 1]].item = x
<1> DEFINE n == Len(body)
           first == First(body, n)
           o == First(body, k)
           items == ItemsAt(body, k)
           place == Place(items, x)
<1>1. n \in Nat /\ n \in 0 .. n /\ k \in 0 .. n
  OBVIOUS
<1>2. /\ o \in Seq(Nat) /\ items \in Seq(Nat) /\ Len(items) = Len(o)
      /\ \A i \in 1 .. Len(o) : items[i] = body[o[i]].item
  BY <1>1, FirstType
<1>3. first \in Seq(Nat)
  BY <1>1, FirstType
<1>4. /\ Len(o) <= Len(first)
      /\ \A i \in 1 .. Len(o) : o[i] = first[i]
      /\ \A i \in 1 .. Len(first) : first[i] <= k <=> i <= Len(o)
  <2> DEFINE S == Adding(body)
  <2> HIDE DEF n, S
  <2>1. /\ Len(InOrder(S, k)) <= Len(InOrder(S, n))
        /\ \A i \in 1 .. Len(InOrder(S, k)) : InOrder(S, k)[i] = InOrder(S, n)[i]
        /\ \A i \in 1 .. Len(InOrder(S, n)) :
              InOrder(S, n)[i] <= k <=> i <= Len(InOrder(S, k))
    BY <1>1, InOrderPrefix
  <2> QED
    BY <2>1 DEF First, S
<1>5. \A i, j \in 1 .. Len(o) : items[i] = items[j] => i = j
  BY <1>2, ItemsOnce
<1>6. x \in ToSet(items) => place \in 1 .. Len(o) /\ items[place] = x
  BY <1>2, PlaceIs
<1>7. \A i \in 1 .. Len(o) : items[i] \in ToSet(items)
  BY <1>2 DEF ToSet
<1>8. Len(o) \in Nat /\ Len(first) \in Nat
  BY <1>2, <1>3
<1> HIDE DEF first, o, items, place
<1>9. ASSUME x \in ToSet(items), place - 1 = q
      PROVE  q + 1 \in 1 .. Len(first) /\ first[q + 1] <= k /\ body[first[q + 1]].item = x
  <2>1. q + 1 = place /\ place \in 1 .. Len(o) /\ items[place] = x
    BY <1>6, <1>8, <1>9
  <2>2. place \in 1 .. Len(first) /\ first[place] = o[place] /\ first[place] <= k
    BY <1>4, <1>8, <2>1
  <2>3. body[o[place]].item = x
    BY <1>2, <2>1
  <2> QED
    BY <2>1, <2>2, <2>3
<1>10. ASSUME q + 1 \in 1 .. Len(first), first[q + 1] <= k, body[first[q + 1]].item = x
       PROVE  x \in ToSet(items) /\ place - 1 = q
  <2>1. q + 1 \in 1 .. Len(o)
    BY <1>4, <1>8, <1>10
  <2>2. items[q + 1] = x
    BY <1>2, <1>4, <1>10, <2>1
  <2>3. x \in ToSet(items)
    BY <1>7, <2>1, <2>2
  <2>4. place = q + 1
    BY <1>5, <1>6, <2>1, <2>2, <2>3
  <2> QED
    BY <2>3, <2>4
<1>11. (x \in ToSet(items) /\ place - 1 = q)
         <=> q + 1 \in 1 .. Len(first) /\ first[q + 1] <= k /\ body[first[q + 1]].item = x
  BY <1>9, <1>10
<1> QED
  BY <1>11 DEF first, items, place

(* The chunks of a body, line by line, with the items known at each.        *)
ResponsesLines(body) ==
    [k \in DOMAIN body |-> ResponsesLine(ItemsAt(body, k), body[k], k)]

(* The chunks of a responses body are emitted line after line.              *)
LEMMA ResponsesEmits ==
    ASSUME NEW body \in Seq(Line)
    PROVE  \E ch : /\ Emits(ch, ResponsesLines(body), Len(body))
                   /\ ch[Len(body)] = ResponsesChunks(body)
<1> DEFINE n == Len(body)
           lines == ResponsesLines(body)
<1>1. n \in Nat /\ DOMAIN body = 1 .. n /\ \A k \in 1 .. n : body[k] \in Line /\ k \in Nat
  OBVIOUS
<1>2. PICK g : /\ g \in [0 .. n -> States]
               /\ g[0] = Start
               /\ \A i \in 1 .. n : g[i] = ConvertLine(g[i - 1], body[i], i)
               /\ g[n].chunks = ResponsesChunks(body)
  BY ResponsesLadder
<1>3. \A k \in 0 .. n : g[k].items = ItemsAt(body, k)
  <2> DEFINE T == {k \in 0 .. n : g[k].items = ItemsAt(body, k)}
  <2>1. 0 \in T
    <3>1. First(body, 0) = <<>>
      BY InOrderNone DEF First
    <3>2. ItemsAt(body, 0) = <<>>
      BY <3>1 DEF ItemsAt
    <3> QED
      BY <1>1, <1>2, <3>2 DEF Start
  <2>2. \A k \in 1 .. n : k - 1 \in T => k \in T
    <3> SUFFICES ASSUME NEW k \in 1 .. n, g[k - 1].items = ItemsAt(body, k - 1)
                 PROVE  g[k].items = ItemsAt(body, k)
      OBVIOUS
    <3>1. g[k].items = Added(g[k - 1].items, body[k])
      BY <1>2, ConvertLineIs
    <3> QED
      BY <3>1, ItemsNext
  <2> HIDE DEF T
  <2>3. \A k \in 0 .. n : k \in T
    BY <1>1, <2>1, <2>2, UpTo
  <2> QED
    BY <2>3 DEF T
<1>4. ASSUME NEW k \in 1 .. n
      PROVE  /\ g[k].chunks = g[k - 1].chunks \o lines[k]
             /\ lines[k] = <<>> \/ \E c \in Chunks : lines[k] = <<c>>
  <2>1. k \in 0 .. n /\ k - 1 \in 0 .. n
    OBVIOUS
  <2>2. /\ g[k].chunks = g[k - 1].chunks
                           \o ResponsesLine(Added(g[k - 1].items, body[k]), body[k], k)
        /\ g[k].items = Added(g[k - 1].items, body[k])
    <3> DEFINE state == g[k - 1]
               line == body[k]
               at == k
    <3>1. g[k] = ConvertLine(state, line, at)
      BY <1>2
    <3> DEFINE items == Added(state.items, line)
               chunks == state.chunks \o ResponsesLine(items, line, at)
    <3>2. ConvertLine(state, line, at) = [items |-> items, chunks |-> chunks]
      BY DEF ConvertLine
    <3> HIDE DEF items, chunks, state, line, at
    <3>3. g[k].items = items /\ g[k].chunks = chunks
      BY <3>1, <3>2
    <3> QED
      BY <3>3 DEF state, line, at, items, chunks
  <2>3. lines[k] = ResponsesLine(ItemsAt(body, k), body[k], k)
    BY <1>1 DEF ResponsesLines
  <2>4. g[k].items = ItemsAt(body, k) /\ g[k - 1].items \in Seq(Nat)
    BY <1>2, <1>3, <2>1 DEF States
  <2>5. /\ ItemsAt(body, k) \in Seq(Nat)
        /\ body[k].kind = "added" => body[k].item \in ToSet(ItemsAt(body, k))
    BY <1>1, <2>2, <2>4, AddedType, ZenonT(40)
  <2>6. lines[k] = <<>> \/ \E c \in Chunks : lines[k] = <<c>>
    BY <1>1, <2>3, <2>5, ResponsesLineType
  <2> QED
    BY <2>2, <2>3, <2>4, <2>6
<1> DEFINE ch == [k \in 0 .. n |-> g[k].chunks]
<1>5. Emits(ch, lines, n)
  <2>1. ch \in [0 .. n -> Seq(Chunks)]
    BY <1>2 DEF States
  <2>2. ch[0] = <<>>
    BY <1>1, <1>2 DEF Start
  <2>3. \A k \in 1 .. n : ch[k] = ch[k - 1] \o lines[k]
    BY <1>4, SMTT(30)
  <2> HIDE DEF ch, lines
  <2> QED
    BY <1>4, <2>1, <2>2, <2>3 DEF Emits
<1>6. ch[n] = ResponsesChunks(body)
  BY <1>1, <1>2
<1> QED
  BY <1>5, <1>6

(* What a line adds to the message.                                         *)
LEMMA ResponsesCarried ==
    ASSUME NEW body \in Seq(Line), NEW k \in 1 .. Len(body)
    PROVE  LET out == ResponsesLines(body)[k]
               items == ItemsAt(body, k)
               x == body[k].item
           IN  /\ Carried(out, "text", 0)
                    = IF body[k].kind \in {"delta", "whole"} THEN <<k>> ELSE <<>>
               /\ \A q \in Nat : Carried(out, "args", q)
                    = IF /\ body[k].kind = "args" /\ x \in ToSet(items)
                         /\ Place(items, x) - 1 = q
                      THEN <<k>> ELSE <<>>
               /\ \A c : (out = <<c>> /\ c.kind = "call")
                    <=> body[k].kind = "added" /\ c = Call(Place(items, x) - 1, x)
<1> DEFINE out == ResponsesLines(body)[k]
           items == ItemsAt(body, k)
           x == body[k].item
<1>1. out = ResponsesLine(items, body[k], k)
  BY DEF ResponsesLines
<1>2. body[k] \in Line
  OBVIOUS
<1> HIDE DEF out, items
<1>3. CASE body[k].kind \in {"delta", "whole"}
  <2>1. out = <<Text(<<k>>)>>
    BY <1>1, <1>3 DEF ResponsesLine
  <2> QED
    BY <1>3, <2>1 DEF Carried, Text, out, items
<1>4. CASE body[k].kind = "added"
  <2>1. out = <<Call(Place(items, x) - 1, x)>>
    BY <1>1, <1>4 DEF ResponsesLine
  <2>2. Call(Place(items, x) - 1, x).kind = "call"
    BY DEF Call
  <2> QED
    BY <1>4, <2>1, <2>2 DEF Carried, out, items
<1>5. CASE body[k].kind = "args" /\ x \in ToSet(items)
  <2>1. out = <<Args(Place(items, x) - 1, <<k>>)>>
    BY <1>1, <1>5 DEF ResponsesLine, ArgsIndex
  <2> QED
    BY <1>5, <2>1 DEF Carried, Args, out, items
<1>6. CASE body[k].kind = "completed"
  <2>1. out = <<Stop>>
    BY <1>1, <1>6 DEF ResponsesLine
  <2> QED
    BY <1>6, <2>1 DEF Carried, Stop, out, items
<1>7. CASE /\ body[k].kind \notin {"delta", "whole", "added", "completed"}
           /\ ~(body[k].kind = "args" /\ x \in ToSet(items))
  <2>1. out = <<>>
    BY <1>1, <1>7 DEF ResponsesLine
  <2> QED
    BY <1>7, <2>1 DEF Carried, out, items
<1> QED
  BY <1>3, <1>4, <1>5, <1>6, <1>7

(* The text a client reads: the deltas and the wholes, in order.            *)
LEMMA ResponsesText ==
    ASSUME NEW body \in Seq(Line)
    PROVE  /\ ResponsesChunks(body) \in Seq(Chunks)
           /\ Message(ResponsesChunks(body)).text = Lines(body, {"delta", "whole"})
<1> DEFINE n == Len(body)
           S == Of(body, {"delta", "whole"})
<1>1. n \in Nat
  OBVIOUS
<1>2. PICK ch : Emits(ch, ResponsesLines(body), n) /\ ch[n] = ResponsesChunks(body)
  BY ResponsesEmits
<1>3. \A i \in 1 .. n : Carried(ResponsesLines(body)[i], "text", 0)
                          = IF i \in S THEN <<i>> ELSE <<>>
  <2>1. \A i \in 1 .. n : i \in S <=> body[i].kind \in {"delta", "whole"}
    BY DEF Of
  <2> QED
    BY <2>1, ResponsesCarried
<1> HIDE DEF S
<1>4. Datas(ch[n], "text", 0) = InOrder(S, n)
  <2>1. CarriesOnly(ResponsesLines(body), n, "text", 0, S)
    BY <1>3 DEF CarriesOnly
  <2> HIDE DEF n
  <2> QED
    BY <1>1, <1>2, <2>1, EmitsDatas
<1>5. ch[n] \in Seq(Chunks)
  BY <1>1, <1>2 DEF Emits
<1> QED
  BY <1>2, <1>4, <1>5 DEF Message, Lines, S

(* The calls a client reads.                                                *)
LEMMA ResponsesArgs ==
    ASSUME NEW body \in Seq(Line), NEW q \in Nat,
           q + 1 \in 1 .. Len(First(body, Len(body)))
    PROVE  Datas(ResponsesChunks(body), "args", q)
             = InOrder(ArgsFor(body, First(body, Len(body))[q + 1]), Len(body))
<1> DEFINE n == Len(body)
           p == First(body, n)[q + 1]
           S == ArgsFor(body, p)
<1>1. n \in Nat /\ n \in 0 .. n
  OBVIOUS
<1>2. p \in Adding(body)
  BY <1>1, FirstType
<1>3. p \in 1 .. n /\ body[p].kind = "added"
  BY <1>2 DEF Adding, Of
<1>4. PICK ch : Emits(ch, ResponsesLines(body), n) /\ ch[n] = ResponsesChunks(body)
  BY ResponsesEmits
<1>5. ASSUME NEW i \in 1 .. n
      PROVE  Carried(ResponsesLines(body)[i], "args", q) = IF i \in S THEN <<i>> ELSE <<>>
  <2> DEFINE x == body[i].item
             items == ItemsAt(body, i)
  <2>1. i \in 0 .. n
    OBVIOUS
  <2>2. Carried(ResponsesLines(body)[i], "args", q)
          = IF body[i].kind = "args" /\ x \in ToSet(items) /\ Place(items, x) - 1 = q
            THEN <<i>> ELSE <<>>
    BY ResponsesCarried
  <2>3. (x \in ToSet(items) /\ Place(items, x) - 1 = q) <=> p <= i /\ body[p].item = x
    <3>1. q + 1 \in 1 .. Len(First(body, Len(body)))
      OBVIOUS
    <3> HIDE DEF x
    <3>2. (x \in ToSet(items) /\ Place(items, x) - 1 = q)
            <=> /\ q + 1 \in 1 .. Len(First(body, Len(body)))
                /\ First(body, Len(body))[q + 1] <= i
                /\ body[First(body, Len(body))[q + 1]].item = x
      BY <2>1, CallOf
    <3> QED
      BY <3>1, <3>2
  <2>4. i \in S <=> body[i].kind = "args" /\ i > p /\ x = body[p].item
    BY DEF ArgsFor, Of
  <2>5. body[i].kind = "args" => (p <= i <=> i > p)
    BY <1>3
  <2> HIDE DEF x, items, S, p
  <2> QED
    BY <2>2, <2>3, <2>4, <2>5
<1> HIDE DEF S, p, n
<1>6. Datas(ch[n], "args", q) = InOrder(S, n)
  <2> DEFINE index == q
             out == ResponsesLines(body)
  <2>1. Emits(ch, out, n) /\ CarriesOnly(out, n, "args", index, S)
    BY <1>4, <1>5 DEF CarriesOnly
  <2> HIDE DEF index, out
  <2>2. Datas(ch[n], "args", index) = InOrder(S, n)
    BY <1>1, <2>1, EmitsDatas
  <2> QED
    BY <2>2 DEF index
<1> QED
  BY <1>4, <1>6 DEF S, p, n

(* The call chunks are those of the first lines, numbered in their order.   *)
LEMMA ResponsesStarts ==
    ASSUME NEW body \in Seq(Line), NEW c
    PROVE  (c \in ToSet(ResponsesChunks(body)) /\ c.kind = "call")
             <=> LET first == First(body, Len(body))
                 IN  \E j \in 1 .. Len(first) : c = Call(j - 1, body[first[j]].item)
<1> DEFINE n == Len(body)
           first == First(body, n)
           lines == ResponsesLines(body)
           number(k) == Place(ItemsAt(body, k), body[k].item) - 1
<1>1. n \in Nat /\ n \in 0 .. n /\ \A k \in 1 .. n : k \in 0 .. n
  OBVIOUS
<1>2. PICK ch : Emits(ch, lines, n) /\ ch[n] = ResponsesChunks(body)
  BY ResponsesEmits
<1>3. ToSet(ResponsesChunks(body)) = Emitted(lines, n)
  BY <1>1, <1>2, EmitsElements
<1>4. \A k \in 1 .. n : (lines[k] = <<c>> /\ c.kind = "call")
         <=> body[k].kind = "added" /\ c = Call(number(k), body[k].item)
  <2> TAKE k \in 1 .. n
  <2> DEFINE x == body[k].item
             items == ItemsAt(body, k)
  <2>1. \A d : (ResponsesLines(body)[k] = <<d>> /\ d.kind = "call")
                  <=> body[k].kind = "added" /\ d = Call(Place(items, x) - 1, x)
    BY ResponsesCarried
  <2> HIDE DEF x, items
  <2> QED
    BY <2>1 DEF x, items
<1>5. \A k \in 1 .. n : lines[k] = <<c>> => c \in Chunks
  <2> SUFFICES ASSUME NEW k \in 1 .. n, lines[k] = <<c>> PROVE c \in Chunks
    OBVIOUS
  <2>1. lines[k] = <<>> \/ \E d \in Chunks : lines[k] = <<d>>
    BY <1>2 DEF Emits
  <2> HIDE DEF lines
  <2>2. PICK d \in Chunks : <<c>> = <<d>>
    BY <2>1
  <2> QED
    BY <2>2
<1>6. (c \in ToSet(ResponsesChunks(body)) /\ c.kind = "call")
        <=> \E k \in 1 .. n : body[k].kind = "added" /\ c = Call(number(k), body[k].item)
  <2> HIDE DEF lines, number
  <2> QED
    BY <1>3, <1>4, <1>5 DEF Emitted
(* The line that added call number q, and its number.                       *)
<1>7. ASSUME NEW k \in 1 .. n, body[k].kind = "added"
      PROVE  \E j \in 1 .. Len(first) :
                number(k) = j - 1 /\ body[first[j]].item = body[k].item
  <2> DEFINE items == ItemsAt(body, k)
             x == body[k].item
  <2>1. items \in Seq(Nat) /\ x \in ToSet(items)
    <3>1. k - 1 \in 0 .. n /\ body[k] \in Line
      BY <1>1
    <3>2. ItemsAt(body, k - 1) \in Seq(Nat)
      BY <3>1, FirstType
    <3>3. items = Added(ItemsAt(body, k - 1), body[k])
      BY ItemsNext
    <3> HIDE DEF items
    <3> QED
      BY <1>7, <3>1, <3>2, <3>3, AddedType
  <2>2. Place(items, x) \in 1 .. Len(items)
    BY <2>1, PlaceIs
  <2> DEFINE q == Place(items, x) - 1
  <2>3. q \in Nat /\ q + 1 = Place(items, x)
    BY <2>1, <2>2
  <2> HIDE DEF q, items, x, first
  <2>4. k \in 0 .. Len(body) /\ x \in ToSet(items) /\ Place(items, x) - 1 = q
    BY <1>1, <2>1 DEF q
  <2>5. q + 1 \in 1 .. Len(first) /\ body[first[q + 1]].item = x
    BY <2>3, <2>4, CallOf DEF items, first
  <2>6. number(k) = (q + 1) - 1
    BY <2>3 DEF items, x, q
  <2> QED
    BY <2>5, <2>6 DEF x
<1>8. ASSUME NEW j \in 1 .. Len(first)
      PROVE  \E k \in 1 .. n :
                body[k].kind = "added" /\ number(k) = j - 1 /\ body[first[j]].item = body[k].item
  <2> DEFINE k == first[j]
             q == j - 1
  <2>1. k \in 1 .. n /\ body[k].kind = "added" /\ first \in Seq(Nat)
    <3>1. first[j] \in Adding(body) /\ first \in Seq(Nat)
      BY <1>1, FirstType
    <3> QED
      BY <3>1 DEF Adding, Of
  <2>2. q \in Nat /\ q + 1 = j /\ k <= k
    BY <2>1
  <2> HIDE DEF q
  <2>3. k \in 0 .. Len(body) /\ first[q + 1] = k
    BY <1>1, <2>1, <2>2
  <2>4. number(k) = q
    <3> DEFINE x == body[k].item
    <3>1. q + 1 \in 1 .. Len(first) /\ first[q + 1] <= k /\ body[first[q + 1]].item = x
      BY <2>2, <2>3
    <3> HIDE DEF k, x, first
    <3>2. Place(ItemsAt(body, k), x) - 1 = q
      BY <2>2, <2>3, <3>1, CallOf DEF first
    <3> QED
      BY <3>2 DEF x
  <2>5. q = j - 1
    BY DEF q
  <2> QED
    BY <2>1, <2>4, <2>5
<1> HIDE DEF first, number, n
<1>9. (\E k \in 1 .. n : body[k].kind = "added" /\ c = Call(number(k), body[k].item))
        <=> \E j \in 1 .. Len(first) : c = Call(j - 1, body[first[j]].item)
  <2>1. ASSUME NEW k \in 1 .. n, body[k].kind = "added", c = Call(number(k), body[k].item)
        PROVE  \E j \in 1 .. Len(first) : c = Call(j - 1, body[first[j]].item)
    <3>1. PICK j \in 1 .. Len(first) : number(k) = j - 1 /\ body[first[j]].item = body[k].item
      BY <1>7, <2>1
    <3> QED
      BY <2>1, <3>1
  <2>2. ASSUME NEW j \in 1 .. Len(first), c = Call(j - 1, body[first[j]].item)
        PROVE  \E k \in 1 .. n : body[k].kind = "added" /\ c = Call(number(k), body[k].item)
    <3>1. PICK k \in 1 .. n :
             body[k].kind = "added" /\ number(k) = j - 1 /\ body[first[j]].item = body[k].item
      BY <1>8
    <3> QED
      BY <2>2, <3>1
  <2> QED
    BY <2>1, <2>2
<1> QED
  BY <1>6, <1>9 DEF first, n

(* A client reads the calls the upstream meant, each with its arguments.    *)
LEMMA ResponsesCalls ==
    ASSUME NEW body \in Seq(Line)
    PROVE  Message(ResponsesChunks(body)).calls = Meant(body).calls
<1> DEFINE n == Len(body)
           first == First(body, n)
           ch == ResponsesChunks(body)
           read == [i \in {k.index : k \in {x \in ToSet(ch) : x.kind = "call"}} |->
                      [id |-> {k.data : k \in Starts(ch, i)}, args |-> Datas(ch, "args", i)]]
           meant == [i \in {k - 1 : k \in DOMAIN first} |->
                       [id |-> {<<body[first[i + 1]].item>>},
                        args |-> InOrder(ArgsFor(body, first[i + 1]), n)]]
<1>1. n \in Nat /\ n \in 0 .. n
  OBVIOUS
<1>2. first \in Seq(Nat) /\ DOMAIN first = 1 .. Len(first) /\ Len(first) \in Nat
  BY <1>1, FirstType
<1>3. Message(ch).calls = read /\ Meant(body).calls = meant
  BY DEF Message, Meant, First
<1>4. \A c : (c \in ToSet(ch) /\ c.kind = "call")
               <=> \E j \in 1 .. Len(first) : c = Call(j - 1, body[first[j]].item)
  BY ResponsesStarts
<1>5. \A j, x : Call(j, x).index = j /\ Call(j, x).data = <<x>>
  BY DEF Call
<1>6. \A i \in Nat : i + 1 \in 1 .. Len(first)
         => Datas(ch, "args", i) = InOrder(ArgsFor(body, first[i + 1]), n)
  BY ResponsesArgs
<1> HIDE DEF ch, first, n
<1>7. {k.index : k \in {x \in ToSet(ch) : x.kind = "call"}} = {k - 1 : k \in DOMAIN first}
  <2> DEFINE calls == {x \in ToSet(ch) : x.kind = "call"}
  <2>1. \A c \in calls : \E j \in DOMAIN first : c.index = j - 1
    <3> TAKE c \in calls
    <3>1. PICK j \in 1 .. Len(first) : c = Call(j - 1, body[first[j]].item)
      BY <1>4
    <3>2. c.index = j - 1
      BY <1>5, <3>1
    <3> QED
      BY <1>2, <3>2
  <2>2. \A j \in DOMAIN first : \E c \in calls : c.index = j - 1
    <3> TAKE j \in DOMAIN first
    <3> DEFINE c == Call(j - 1, body[first[j]].item)
    <3>1. c.index = j - 1
      BY <1>5
    <3>2. c \in calls
      BY <1>2, <1>4
    <3> QED
      BY <3>1, <3>2
  <2> HIDE DEF calls
  <2>3. {k.index : k \in calls} = {k - 1 : k \in DOMAIN first}
    BY <2>1, <2>2
  <2> QED
    BY <2>3 DEF calls
<1>8. ASSUME NEW i \in {k - 1 : k \in DOMAIN first}
      PROVE  /\ {k.data : k \in Starts(ch, i)} = {<<body[first[i + 1]].item>>}
             /\ Datas(ch, "args", i) = InOrder(ArgsFor(body, first[i + 1]), n)
  <2>1. i \in Nat /\ i + 1 \in 1 .. Len(first) /\ (i + 1) - 1 = i
    BY <1>2
  <2> DEFINE x == body[first[i + 1]].item
             c == Call(i, x)
  <2>2. Starts(ch, i) = {c}
    <3>1. c \in Starts(ch, i)
      <4>1. c \in ToSet(ch) /\ c.kind = "call"
        BY <1>4, <2>1
      <4> QED
        BY <1>5, <4>1 DEF Starts
    <3>2. ASSUME NEW d \in Starts(ch, i) PROVE d = c
      <4>1. d \in ToSet(ch) /\ d.kind = "call" /\ d.index = i
        BY DEF Starts
      <4>2. PICK j \in 1 .. Len(first) : d = Call(j - 1, body[first[j]].item)
        BY <1>4, <4>1
      <4>3. j - 1 = i
        BY <1>5, <4>1, <4>2
      <4>4. j = i + 1
        BY <2>1, <4>3
      <4> QED
        BY <2>1, <4>2, <4>4
    <3> QED
      BY <3>1, <3>2
  <2>3. c.data = <<x>>
    BY <1>5
  <2> DEFINE data == <<x>>
  <2> HIDE DEF c, data
  <2>4. {k.data : k \in {c}} = {c.data} /\ c.data = data
    BY <2>3 DEF data
  <2>5. {k.data : k \in Starts(ch, i)} = {data}
    BY <2>2, <2>4
  <2> QED
    BY <1>6, <2>1, <2>5 DEF data
<1>9. read = meant
  BY <1>7, <1>8
<1> QED
  BY <1>3, <1>9 DEF ch

(* It has the message the upstream meant unless the text was said twice.    *)
LEMMA ResponsesReads ==
    ASSUME NEW body \in Seq(Line)
    PROVE  (Message(ResponsesChunks(body)) = Meant(body)) <=> ~SaysItTwice(body)
<1> DEFINE n == Len(body)
           deltas == Of(body, {"delta"})
           wholes == Of(body, {"whole"})
           both == Of(body, {"delta", "whole"})
<1>1. n \in Nat /\ DOMAIN body = 1 .. n
  OBVIOUS
<1>2. /\ both = deltas \cup wholes
      /\ deltas \cap wholes = {}
      /\ deltas \subseteq 1 .. n /\ wholes \subseteq 1 .. n /\ both \subseteq 1 .. n
      /\ SaysItTwice(body) <=> deltas # {} /\ wholes # {}
  BY <1>1 DEF Of, SaysItTwice
<1>3. /\ Message(ResponsesChunks(body)).text = InOrder(both, n)
      /\ Meant(body).text = IF InOrder(deltas, n) # <<>> THEN InOrder(deltas, n)
                            ELSE InOrder(wholes, n)
  BY ResponsesText DEF Meant, Lines
<1> HIDE DEF deltas, wholes, both, n
<1>4. /\ ToSet(InOrder(both, n)) = both
      /\ ToSet(InOrder(deltas, n)) = deltas
      /\ ToSet(InOrder(wholes, n)) = wholes
  <2>1. ASSUME NEW S, S \subseteq 1 .. n PROVE ToSet(InOrder(S, n)) = S
    <3>1. ToSet(InOrder(S, n)) = S \cap (1 .. n)
      BY <1>1, InOrderElements
    <3> QED
      BY <2>1, <3>1
  <2> QED
    BY <1>2, <2>1
<1>5. InOrder(deltas, n) # <<>> <=> deltas # {}
  <2>1. \A s : s = <<>> => ToSet(s) = {}
    BY DEF ToSet
  <2>2. InOrder(deltas, n) \in Seq(Nat)
    BY <1>1, InOrderNext
  <2>3. ASSUME InOrder(deltas, n) # <<>> PROVE deltas # {}
    <3>1. 1 \in DOMAIN InOrder(deltas, n)
      BY <2>2, <2>3, EmptySeq
    <3>2. InOrder(deltas, n)[1] \in deltas
      BY <1>4, <3>1 DEF ToSet
    <3> QED
      BY <3>2
  <2> QED
    BY <1>4, <2>1, <2>3
<1>6. (Message(ResponsesChunks(body)).text = Meant(body).text) <=> ~SaysItTwice(body)
  <2>1. CASE deltas = {}
    <3>1. both = wholes
      BY <1>2, <2>1
    <3> QED
      BY <1>2, <1>3, <1>5, <2>1, <3>1
  <2>2. CASE deltas # {}
    <3>1. Meant(body).text = InOrder(deltas, n)
      BY <1>3, <1>5, <2>2
    <3>2. InOrder(both, n) = InOrder(deltas, n) <=> both = deltas
      BY <1>4
    <3>3. both = deltas <=> wholes = {}
      BY <1>2
    <3> QED
      BY <1>2, <1>3, <2>2, <3>1, <3>2, <3>3
  <2> QED
    BY <2>1, <2>2
<1>7. Message(ResponsesChunks(body)).calls = Meant(body).calls
  BY ResponsesCalls
<1>8. /\ Message(ResponsesChunks(body)) = [text |-> Message(ResponsesChunks(body)).text,
                                           calls |-> Message(ResponsesChunks(body)).calls]
      /\ Meant(body) = [text |-> Meant(body).text, calls |-> Meant(body).calls]
  BY DEF Message, Meant
<1> QED
  BY <1>6, <1>7, <1>8

-----------------------------------------------------------------------------
(* Multiples of Cut, and what is left of a division by it.                  *)
LEMMA Multiples ==
    /\ \A s \in Nat : s * Cut \in Nat /\ (s + 1) * Cut = s * Cut + Cut
    /\ \A s, t \in Nat : s < t => s * Cut + Cut <= t * Cut
<1> USE CutAssumption
<1>1. \A s \in Nat : s * Cut \in Nat /\ (s + 1) * Cut = s * Cut + Cut
  OBVIOUS
<1>2. \A s, t \in Nat : s < t => s * Cut + Cut <= t * Cut
  OBVIOUS
<1> QED
  BY <1>1, <1>2

(* What a division by Cut leaves is less than Cut.                          *)
LEMMA Quotient ==
    ASSUME NEW x \in Nat
    PROVE  /\ x \div Cut \in Nat
           /\ (x \div Cut) * Cut <= x /\ x < (x \div Cut) * Cut + Cut
           /\ x % Cut = 0 => x = (x \div Cut) * Cut
<1> USE CutAssumption
<1>1. x \div Cut \in Nat
  OBVIOUS
<1>2. x = (x \div Cut) * Cut + (x % Cut)
  OBVIOUS
<1>3. x % Cut \in Nat /\ x % Cut < Cut /\ (x \div Cut) * Cut \in Nat
  OBVIOUS
<1> QED
  BY <1>1, <1>2, <1>3

(* A multiple of Cut leaves nothing.                                        *)
LEMMA MultipleRest == \A s \in Nat : (s * Cut) % Cut = 0
<1> SUFFICES ASSUME NEW s \in Nat PROVE (s * Cut) % Cut = 0
  OBVIOUS
<1> DEFINE x == s * Cut
           q == x \div Cut
<1>1. x \in Nat /\ q \in Nat
  BY Multiples, Quotient
<1>2. q * Cut <= x /\ x < q * Cut + Cut
  BY <1>1, Quotient
<1>3. q = s
  <2>1. ~(q < s)
    BY <1>1, <1>2, Multiples, CutAssumption
  <2>2. ~(s < q)
    BY <1>1, <1>2, Multiples, CutAssumption
  <2> HIDE DEF q
  <2> QED
    BY <1>1, <2>1, <2>2
<1>4. x = q * Cut + (x % Cut) /\ x % Cut \in Nat
  BY <1>1, CutAssumption
<1> QED
  BY <1>1, <1>3, <1>4

-----------------------------------------------------------------------------
(* The number of bytes up to the end of each character.                     *)
Widths == Seq(Nat \ {0})
IsEnds(E, widths) ==
    /\ E \in [0 .. Len(widths) -> Nat] /\ E[0] = 0
    /\ \A k \in 1 .. Len(widths) : E[k] = E[k - 1] + widths[k]

(* The ends of the characters rise.                                         *)
LEMMA EndsRise ==
    ASSUME NEW widths \in Widths, NEW E, IsEnds(E, widths)
    PROVE  /\ \A k \in 1 .. Len(widths) :
                 E[k - 1] \in Nat /\ E[k] \in Nat /\ E[k - 1] < E[k]
                 /\ E[k] = E[k - 1] + widths[k] /\ widths[k] \in Nat \ {0}
           /\ \A k \in 0 .. Len(widths) : \A j \in 0 .. k : E[j] <= E[k]
<1> DEFINE m == Len(widths)
<1>1. m \in Nat /\ \A k \in 1 .. m : widths[k] \in Nat \ {0} /\ k - 1 \in 0 .. m /\ k \in 0 .. m
  BY DEF Widths
<1>2. /\ \A k \in 0 .. m : E[k] \in Nat
      /\ \A k \in 1 .. m : E[k] = E[k - 1] + widths[k]
  BY DEF IsEnds
<1> HIDE DEF m
<1>3. \A k \in 1 .. m : /\ E[k - 1] \in Nat /\ E[k] \in Nat /\ E[k - 1] < E[k]
                        /\ E[k] = E[k - 1] + widths[k] /\ widths[k] \in Nat \ {0}
  BY <1>1, <1>2
<1>4. \A k \in 0 .. m : \A j \in 0 .. k : E[j] <= E[k]
  <2> DEFINE T == {k \in 0 .. m : \A j \in 0 .. k : E[j] <= E[k]}
  <2>1. 0 \in T
    BY <1>1, <1>2
  <2>2. ASSUME NEW k \in 1 .. m, \A j \in 0 .. k - 1 : E[j] <= E[k - 1]
        PROVE  \A j \in 0 .. k : E[j] <= E[k]
    <3> TAKE j \in 0 .. k
    <3>1. CASE j = k
      BY <1>3, <3>1
    <3>2. CASE j # k
      <4>1. j \in 0 .. k - 1 /\ j \in 0 .. m
        BY <1>1, <3>2
      <4>2. E[j] <= E[k - 1] /\ E[j] \in Nat
        BY <1>2, <2>2, <4>1
      <4> QED
        BY <1>3, <4>2
    <3> QED
      BY <3>1, <3>2
  <2>3. \A k \in 1 .. m : k - 1 \in T => k \in T
    BY <2>2
  <2> HIDE DEF T
  <2>4. \A k \in 0 .. m : k \in T
    BY <1>1, <2>1, <2>3, UpTo
  <2> QED
    BY <2>4 DEF T
<1> QED
  BY <1>3, <1>4 DEF m

(* The bytes of character k are those behind the end of the one before it   *)
(* up to its own.                                                           *)
LEMMA BytesAre ==
    ASSUME NEW widths \in Widths
    PROVE  \E E : /\ IsEnds(E, widths)
                  /\ Bytes(widths) \in Seq(Nat) /\ Len(Bytes(widths)) = E[Len(widths)]
                  /\ \A k \in 1 .. Len(widths) : \A b \in E[k - 1] + 1 .. E[k] :
                        Bytes(widths)[b] = k
<1> DEFINE m == Len(widths)
           own == [k \in DOMAIN widths |-> [b \in 1 .. widths[k] |-> k]]
<1>1. m \in Nat /\ DOMAIN widths = 1 .. m /\ \A k \in 1 .. m : widths[k] \in Nat \ {0} /\ k \in Nat
  BY DEF Widths
<1>2. \A k \in 1 .. m : /\ own[k] \in Seq(Nat) /\ Len(own[k]) = widths[k]
                        /\ \A b \in 1 .. widths[k] : own[k][b] = k
  <2> SUFFICES ASSUME NEW k \in 1 .. m
               PROVE  /\ own[k] \in Seq(Nat) /\ Len(own[k]) = widths[k]
                      /\ \A b \in 1 .. widths[k] : own[k][b] = k
    OBVIOUS
  <2> DEFINE w == widths[k]
  <2>1. w \in Nat /\ k \in Nat /\ own[k] = [b \in 1 .. w |-> k]
    BY <1>1
  <2> HIDE DEF w, own
  <2>2. own[k] \in Seq(Nat) /\ Len(own[k]) = w /\ \A b \in 1 .. w : own[k][b] = k
    BY <2>1
  <2> QED
    BY <2>2 DEF w
<1>3. own \in Seq(Seq(Nat)) /\ Len(own) = m
  <2>1. own = [k \in 1 .. m |-> own[k]]
    BY <1>1
  <2> HIDE DEF own
  <2> QED
    BY <1>1, <1>2, <2>1
<1>4. Bytes(widths) = FlattenSeq(own)
  BY DEF Bytes
<1> HIDE DEF own
<1> HIDE DEF m
<1>5. PICK F \in [0 .. m -> Seq(Nat)] :
          /\ F[0] = <<>>
          /\ \A k \in 1 .. m : F[k] = F[k - 1] \o own[k]
          /\ F[m] = FlattenSeq(own)
  BY <1>3, FlattenLadder
<1> DEFINE E == [k \in 0 .. m |-> Len(F[k])]
<1>6. ASSUME NEW k \in 1 .. m
      PROVE  /\ F[k] \in Seq(Nat) /\ F[k - 1] \in Seq(Nat)
             /\ Len(F[k - 1]) \in Nat
             /\ Len(F[k]) = Len(F[k - 1]) + widths[k]
             /\ \A b \in 1 .. Len(F[k - 1]) : F[k][b] = F[k - 1][b]
             /\ \A b \in Len(F[k - 1]) + 1 .. Len(F[k]) : F[k][b] = k
  <2>1. k - 1 \in 0 .. m /\ k \in 0 .. m
    BY <1>1
  <2>2. F[k] \in Seq(Nat) /\ F[k - 1] \in Seq(Nat) /\ F[k] = F[k - 1] \o own[k]
        /\ own[k] \in Seq(Nat)
    BY <1>2, <1>5, <2>1
  <2> DEFINE f == F[k - 1]
             g == F[k]
             e == own[k]
  <2>3. e \in Seq(Nat) /\ f \in Seq(Nat) /\ g = f \o e /\ Len(e) = widths[k]
        /\ widths[k] \in Nat /\ \A b \in 1 .. widths[k] : e[b] = k
    BY <1>1, <1>2, <2>2
  <2> HIDE DEF e, f, g
  <2>4. /\ Len(g) = Len(f) + Len(e)
        /\ \A b \in 1 .. Len(f) + Len(e) : g[b] = IF b <= Len(f) THEN f[b] ELSE e[b - Len(f)]
    BY <2>3, ConcatProperties
  <2>5. Len(f) \in Nat
    BY <2>3
  <2>6. \A b \in 1 .. Len(f) : g[b] = f[b]
    BY <2>3, <2>4, <2>5
  <2>7. \A b \in Len(f) + 1 .. Len(g) : g[b] = k
    <3> TAKE b \in Len(f) + 1 .. Len(g)
    <3>1. b \in 1 .. Len(f) + Len(e) /\ ~(b <= Len(f)) /\ b - Len(f) \in 1 .. widths[k]
      BY <2>3, <2>4, <2>5
    <3> QED
      BY <2>3, <2>4, <3>1
  <2> QED
    BY <2>2, <2>3, <2>4, <2>5, <2>6, <2>7 DEF e, f, g
<1>7. IsEnds(E, widths)
  <2>1. E \in [0 .. m -> Nat]
    BY <1>1, <1>5
  <2>2. E[0] = 0
    BY <1>1, <1>5
  <2>3. \A k \in 1 .. m : E[k] = E[k - 1] + widths[k]
    BY <1>1, <1>6
  <2> HIDE DEF E
  <2> QED
    BY <2>1, <2>2, <2>3 DEF IsEnds, m
<1>8. \A k \in 0 .. m : E[k] = Len(F[k])
  BY <1>1
<1> HIDE DEF E
<1>9. ASSUME NEW k \in 1 .. m, NEW b \in E[k - 1] + 1 .. E[k] PROVE F[m][b] = k
  <2> DEFINE T == {i \in 0 .. m : k <= i => E[k] <= Len(F[i]) /\ F[i][b] = k}
  <2>0. k \in 0 .. m /\ k - 1 \in 0 .. m /\ E[k] \in Nat /\ E[k - 1] \in Nat
    BY <1>1, <1>7 DEF IsEnds, m
  <2>1. 0 \in T
    BY <1>1
  <2>2. ASSUME NEW i \in 1 .. m, i - 1 \in T PROVE i \in T
    <3>1. CASE i < k
      BY <1>1, <3>1
    <3>2. CASE i = k
      <4>1. E[k] = Len(F[k]) /\ E[k - 1] = Len(F[k - 1])
        BY <1>8, <2>0
      <4>2. F[k][b] = k
        BY <1>6, <4>1
      <4> QED
        BY <1>1, <2>0, <3>2, <4>1, <4>2
    <3>3. CASE i > k
      <4>1. E[k] <= Len(F[i - 1]) /\ F[i - 1][b] = k
        BY <2>2, <3>3
      <4>2. Len(F[i - 1]) \in Nat /\ Len(F[i]) = Len(F[i - 1]) + widths[i] /\ widths[i] \in Nat
            /\ \A c \in 1 .. Len(F[i - 1]) : F[i][c] = F[i - 1][c]
        BY <1>1, <1>6
      <4>3. b \in 1 .. Len(F[i - 1])
        BY <2>0, <4>1, <4>2, SMTT(30)
      <4>4. E[k] <= Len(F[i])
        BY <2>0, <4>1, <4>2, SMTT(30)
      <4>5. F[i][b] = k
        BY <4>1, <4>2, <4>3
      <4> QED
        BY <1>1, <4>4, <4>5
    <3> QED
      BY <3>1, <3>2, <3>3
  <2>3. \A i \in 1 .. m : i - 1 \in T => i \in T
    BY <2>2
  <2> HIDE DEF T
  <2>4. \A i \in 0 .. m : i \in T
    BY <1>1, <2>1, <2>3, UpTo
  <2>5. m \in 0 .. m /\ k <= m
    BY <1>1
  <2> QED
    BY <2>4, <2>5 DEF T
<1>10. Bytes(widths) = F[m] /\ F[m] \in Seq(Nat) /\ Len(F[m]) = E[m]
  BY <1>1, <1>4, <1>5, <1>8
<1>11. \A k \in 1 .. m : \A b \in E[k - 1] + 1 .. E[k] : Bytes(widths)[b] = k
  BY <1>9, <1>10
<1> QED
  BY <1>7, <1>10, <1>11 DEF m

(* What is to be known of the bytes of a text.                              *)
IsBytes(B, E, widths) ==
    /\ widths \in Widths /\ IsEnds(E, widths)
    /\ B \in Seq(Nat) /\ Len(B) = E[Len(widths)]
    /\ \A k \in 1 .. Len(widths) : \A b \in E[k - 1] + 1 .. E[k] : B[b] = k

(* A byte between the ends of character k is of character k.                *)
LEMMA ByteIs ==
    ASSUME NEW B, NEW E, NEW widths, IsBytes(B, E, widths),
           NEW k \in 1 .. Len(widths), NEW b \in E[k - 1] + 1 .. E[k]
    PROVE  b \in 1 .. Len(B) /\ B[b] = k
<1> DEFINE m == Len(widths)
<1>1. m \in Nat /\ m \in 0 .. m /\ k \in 0 .. m /\ k - 1 \in 0 .. m /\ 0 \in 0 .. m
  BY DEF IsBytes, Widths
<1>2. E[m] \in Nat /\ E[k] \in Nat /\ E[k - 1] \in Nat
  BY <1>1 DEF IsBytes, IsEnds
<1>3. E[k] <= E[m]
  BY <1>1, EndsRise DEF IsBytes
<1> HIDE DEF m
<1>4. b \in 1 .. E[m]
  BY <1>2, <1>3
<1> QED
  BY <1>4 DEF IsBytes, m

(* Each byte lies between the ends of its character.                        *)
LEMMA ByteOf ==
    ASSUME NEW B, NEW E, NEW widths, IsBytes(B, E, widths), NEW b \in 1 .. Len(B)
    PROVE  /\ B[b] \in 1 .. Len(widths)
           /\ b \in E[B[b] - 1] + 1 .. E[B[b]]
<1> DEFINE m == Len(widths)
           In(k) == k \in 1 .. m /\ b \in E[k - 1] + 1 .. E[k]
           T == {i \in 0 .. m : b <= E[i] => \E k \in 1 .. m : In(k)}
<1>1. m \in Nat /\ m \in 0 .. m
  BY DEF IsBytes, Widths
<1>2. E[0] = 0 /\ \A i \in 0 .. m : E[i] \in Nat
  BY DEF IsBytes, IsEnds
<1>3. 0 \in T
  BY <1>1, <1>2
<1>4. ASSUME NEW i \in 1 .. m, i - 1 \in T PROVE i \in T
  <2>1. CASE b <= E[i - 1]
    BY <1>4, <2>1
  <2>2. CASE ~(b <= E[i - 1])
    <3>1. i - 1 \in 0 .. m /\ i \in 0 .. m
      BY <1>1
    <3>2. b <= E[i] => In(i)
      BY <1>2, <2>2, <3>1
    <3> HIDE DEF In
    <3> QED
      BY <3>1, <3>2
  <2> QED
    BY <2>1, <2>2
<1>5. \A i \in 1 .. m : i - 1 \in T => i \in T
  BY <1>4
<1> HIDE DEF T
<1>6. \A i \in 0 .. m : i \in T
  BY <1>1, <1>3, <1>5, UpTo
<1>7. b <= E[m]
  BY DEF IsBytes
<1>8. PICK k \in 1 .. m : In(k)
  BY <1>1, <1>6, <1>7 DEF T
<1>9. B[b] = k
  BY <1>8, ByteIs
<1> QED
  BY <1>8, <1>9

(* The next byte is of the same character, or of the next one.              *)
LEMMA ByteNext ==
    ASSUME NEW B, NEW E, NEW widths, IsBytes(B, E, widths), NEW b \in 1 .. Len(B) - 1
    PROVE  /\ b < E[B[b]] => B[b + 1] = B[b]
           /\ b = E[B[b]] => B[b + 1] = B[b] + 1
           /\ b <= E[B[b]]
<1> DEFINE m == Len(widths)
           k == B[b]
           n == Len(B)
<1>0. n \in Nat /\ m \in Nat /\ n = E[m]
  BY DEF IsBytes, Widths
<1>1. b \in 1 .. n
  BY <1>0
<1>2. k \in 1 .. m /\ b \in E[k - 1] + 1 .. E[k]
  BY <1>1, ByteOf
<1>3. E[k] \in Nat /\ E[k - 1] \in Nat
  BY <1>2, EndsRise DEF IsBytes
<1> HIDE DEF k, m, n
<1>4. ASSUME b < E[k] PROVE B[b + 1] = k
  <2>1. b + 1 \in E[k - 1] + 1 .. E[k]
    BY <1>2, <1>3, <1>4
  <2> QED
    BY <1>2, <2>1, ByteIs DEF m
<1>5. ASSUME b = E[k] PROVE B[b + 1] = k + 1
  <2>1. k # m
    BY <1>0, <1>5 DEF n
  <2> DEFINE j == k + 1
  <2>2. j \in 1 .. m /\ j - 1 = k
    BY <1>0, <1>2, <2>1
  <2> HIDE DEF j
  <2>3. E[j - 1] < E[j] /\ E[j] \in Nat /\ E[j - 1] \in Nat
    BY <2>2, EndsRise DEF IsBytes, m
  <2>4. b + 1 \in E[j - 1] + 1 .. E[j]
    BY <1>5, <2>2, <2>3
  <2>5. B[b + 1] = j
    BY <2>2, <2>4, ByteIs DEF m
  <2> QED
    BY <2>5 DEF j
<1>6. b <= E[k]
  BY <1>2, <1>3
<1> QED
  BY <1>4, <1>5, <1>6 DEF k

(* The first byte is of the first character, the last of the last.          *)
LEMMA ByteEnds ==
    ASSUME NEW B, NEW E, NEW widths, IsBytes(B, E, widths)
    PROVE  /\ Len(B) = 0 <=> Len(widths) = 0
           /\ Len(B) # 0 => B[1] = 1 /\ B[Len(B)] = Len(widths)
<1> DEFINE m == Len(widths)
           n == Len(B)
<1>1. m \in Nat /\ n \in Nat /\ n = E[m] /\ E[0] = 0
  BY DEF IsBytes, Widths, IsEnds
<1>2. CASE m = 0
  BY <1>1, <1>2
<1>3. CASE m # 0
  <2>1. 1 \in 1 .. m /\ m \in 1 .. m /\ 1 - 1 = 0
    BY <1>1, <1>3
  <2>2. /\ E[0] < E[1] /\ E[1] \in Nat
        /\ E[m - 1] < E[m] /\ E[m] \in Nat /\ E[m - 1] \in Nat
    BY <2>1, EndsRise DEF IsBytes
  <2> HIDE DEF m, n
  <2>3. n # 0
    BY <1>1, <2>2
  <2>4. 1 \in E[1 - 1] + 1 .. E[1] /\ n \in E[m - 1] + 1 .. E[m]
    BY <1>1, <2>1, <2>2
  <2>5. B[1] = 1 /\ B[n] = m
    BY <2>1, <2>4, ByteIs DEF m
  <2> QED
    BY <1>3, <2>3, <2>5 DEF m, n
<1> QED
  BY <1>2, <1>3

-----------------------------------------------------------------------------
(* A slice of the bytes from lo to hi has all of a character when it has    *)
(* its first byte and its last.                                             *)
LEMMA SliceIs ==
    ASSUME NEW B \in Seq(Nat), NEW lo \in 1 .. Len(B), NEW hi \in lo .. Len(B)
    PROVE  /\ SubSeq(B, lo, hi) \in Seq(Nat)
           /\ Len(SubSeq(B, lo, hi)) = hi - lo + 1
           /\ DOMAIN SubSeq(B, lo, hi) = 1 .. hi - lo + 1
           /\ \A i \in 1 .. hi - lo + 1 : SubSeq(B, lo, hi)[i] = B[lo + i - 1]
<1>1. lo \in Int /\ hi \in Int /\ lo <= hi /\ \A i \in lo .. hi : B[i] \in Nat
  OBVIOUS
<1>2. /\ SubSeq(B, lo, hi) \in Seq(Nat)
      /\ Len(SubSeq(B, lo, hi)) = IF lo <= hi THEN hi - lo + 1 ELSE 0
      /\ \A i \in 1 .. hi - lo + 1 : SubSeq(B, lo, hi)[i] = B[lo + i - 1]
  BY <1>1, SubSeqProperties
<1> QED
  BY <1>1, <1>2

(* A slice has all of a character exactly if its ends lie within it.        *)
LEMMA WholeWhen ==
    ASSUME NEW B, NEW E, NEW widths, IsBytes(B, E, widths),
           NEW lo \in 1 .. Len(B), NEW hi \in lo .. Len(B), NEW k \in 1 .. Len(widths)
    PROVE  Whole(SubSeq(B, lo, hi), k, widths) <=> lo <= E[k - 1] + 1 /\ E[k] <= hi
<1> DEFINE slice == SubSeq(B, lo, hi)
           at == {b \in DOMAIN slice : slice[b] = k}
           from == E[k - 1] + 1
           to == E[k]
           a == IF lo <= from THEN from - lo + 1 ELSE 1
           z == IF to <= hi THEN to - lo + 1 ELSE hi - lo + 1
<1>1. /\ from \in Nat /\ to \in Nat /\ from <= to
      /\ widths[k] = to - from + 1 /\ lo \in Nat /\ hi \in Nat /\ lo <= hi
  <2>1. E[k - 1] \in Nat /\ E[k] \in Nat /\ E[k - 1] < E[k]
        /\ E[k] = E[k - 1] + widths[k] /\ widths[k] \in Nat \ {0}
    BY EndsRise DEF IsBytes
  <2>2. lo \in Nat /\ hi \in Nat /\ lo <= hi
    OBVIOUS
  <2> DEFINE p == E[k - 1]
             q == E[k]
             w == widths[k]
  <2>3. p \in Nat /\ q \in Nat /\ p < q /\ q = p + w /\ w \in Nat
        /\ from = p + 1 /\ to = q
    BY <2>1
  <2> HIDE DEF p, q, w, from, to
  <2>4. from \in Nat /\ to \in Nat /\ from <= to /\ w = to - from + 1
    BY <2>3
  <2> QED
    BY <2>2, <2>4 DEF w
<1>2. /\ DOMAIN slice = 1 .. hi - lo + 1
      /\ \A i \in 1 .. hi - lo + 1 : slice[i] = B[lo + i - 1]
  BY SliceIs DEF IsBytes
<1>3. \A b \in lo .. hi : B[b] = k <=> b \in from .. to
  <2> TAKE b \in lo .. hi
  <2>1. b \in 1 .. Len(B)
    BY DEF IsBytes
  <2>2. ASSUME B[b] = k PROVE b \in from .. to
    BY <2>1, <2>2, ByteOf
  <2>3. ASSUME b \in from .. to PROVE B[b] = k
    BY <2>3, ByteIs
  <2> QED
    BY <2>2, <2>3
<1> HIDE DEF from, to
<1>4. at = a .. z
  <2>1. \A i \in 1 .. hi - lo + 1 : slice[i] = k <=> lo + i - 1 \in from .. to
    <3> TAKE i \in 1 .. hi - lo + 1
    <3>1. lo + i - 1 \in lo .. hi
      BY <1>1
    <3> QED
      BY <1>2, <1>3, <3>1
  <2>2. \A i \in 1 .. hi - lo + 1 : lo + i - 1 \in from .. to <=> i \in a .. z
    BY <1>1
  <2>3. \A i \in a .. z : i \in 1 .. hi - lo + 1
    BY <1>1
  <2> HIDE DEF slice, a, z
  <2> QED
    BY <1>2, <2>1, <2>2, <2>3
<1>5. a \in Int /\ z \in Int
  BY <1>1
<1>6. Cardinality(a .. z) = IF a > z THEN 0 ELSE z - a + 1
  <2> HIDE DEF a, z
  <2> QED
    BY <1>5, FS_Interval
<1>7. (IF a > z THEN 0 ELSE z - a + 1) = widths[k] <=> lo <= from /\ to <= hi
  BY <1>1
<1>8. Cardinality(at) = widths[k] <=> lo <= from /\ to <= hi
  BY <1>4, <1>6, <1>7
<1> QED
  BY <1>8 DEF Whole, from, to

-----------------------------------------------------------------------------
(* The characters from a to b, in order.                                    *)
Run(a, b) == [i \in 1 .. b - a + 1 |-> a + i - 1]

(* The elements of a run.                                                   *)
LEMMA RunType ==
    ASSUME NEW a \in Nat, NEW b \in Nat, a <= b + 1
    PROVE  /\ Run(a, b) \in Seq(Nat) /\ Len(Run(a, b)) = b - a + 1
           /\ \A i \in 1 .. b - a + 1 : Run(a, b)[i] = a + i - 1
<1> DEFINE n == b - a + 1
<1>1. n \in Nat
  OBVIOUS
<1>2. \A i \in 1 .. n : a + i - 1 \in Nat
  OBVIOUS
<1>3. Run(a, b) = [i \in 1 .. n |-> a + i - 1]
  BY DEF Run
<1> HIDE DEF n
<1>4. Run(a, b) \in Seq(Nat) /\ Len(Run(a, b)) = n
      /\ \A i \in 1 .. n : Run(a, b)[i] = a + i - 1
  BY <1>1, <1>2, <1>3
<1> QED
  BY <1>4 DEF n

(* Two runs, one behind the other, are one.                                 *)
LEMMA RunJoin ==
    ASSUME NEW a \in Nat, NEW b \in Nat, NEW c \in Nat, a <= b + 1, b <= c
    PROVE  Run(a, b) \o Run(b + 1, c) = Run(a, c)
<1> DEFINE r == Run(a, b)
           s == Run(b + 1, c)
           t == Run(a, c)
<1>1. /\ r \in Seq(Nat) /\ Len(r) = b - a + 1
      /\ \A i \in 1 .. b - a + 1 : r[i] = a + i - 1
  BY RunType
<1>2. /\ s \in Seq(Nat) /\ Len(s) = c - b
      /\ \A i \in 1 .. c - b : s[i] = b + i
  <2> DEFINE d == b + 1
  <2>1. d \in Nat /\ d <= c + 1
    OBVIOUS
  <2> HIDE DEF d
  <2>2. /\ Run(d, c) \in Seq(Nat) /\ Len(Run(d, c)) = c - d + 1
        /\ \A i \in 1 .. c - d + 1 : Run(d, c)[i] = d + i - 1
    BY <2>1, RunType
  <2>3. c - d + 1 = c - b /\ \A i \in 1 .. c - b : d + i - 1 = b + i
    BY DEF d
  <2>4. s = Run(d, c)
    BY DEF d
  <2> HIDE DEF s
  <2> QED
    BY <2>2, <2>3, <2>4
<1>3. /\ t \in Seq(Nat) /\ Len(t) = c - a + 1
      /\ \A i \in 1 .. c - a + 1 : t[i] = a + i - 1
  <2>1. a <= c + 1
    OBVIOUS
  <2> QED
    BY <2>1, RunType
<1> HIDE DEF r, s, t
<1>4. /\ r \o s \in Seq(Nat) /\ Len(r \o s) = Len(r) + Len(s)
      /\ \A i \in 1 .. Len(r) + Len(s) :
            (r \o s)[i] = IF i <= Len(r) THEN r[i] ELSE s[i - Len(r)]
  BY <1>1, <1>2, ConcatProperties
<1>5. Len(r) + Len(s) = c - a + 1
  BY <1>1, <1>2
<1>6. \A i \in 1 .. c - a + 1 : (r \o s)[i] = t[i]
  <2> TAKE i \in 1 .. c - a + 1
  <2>1. CASE i <= Len(r)
    <3>1. i \in 1 .. b - a + 1 /\ (r \o s)[i] = r[i]
      BY <1>1, <1>4, <1>5, <2>1
    <3> QED
      BY <1>1, <1>3, <3>1
  <2>2. CASE ~(i <= Len(r))
    <3>1. i - Len(r) \in 1 .. c - b /\ (r \o s)[i] = s[i - Len(r)]
      BY <1>1, <1>4, <1>5, <2>2
    <3>2. s[i - Len(r)] = b + (i - Len(r))
      BY <1>2, <3>1
    <3> QED
      BY <1>1, <1>3, <3>1, <3>2
  <2> QED
    BY <2>1, <2>2
<1>7. r \o s = t
  BY <1>3, <1>4, <1>5, <1>6, SeqEqual
<1> QED
  BY <1>7 DEF r, s, t

(* What is in one of the sequences is in what they flatten to.              *)
LEMMA FlattenHolds ==
    ASSUME NEW A, NEW seqs \in Seq(Seq(A)), NEW s \in 1 .. Len(seqs), NEW x,
           x \in ToSet(seqs[s])
    PROVE  x \in ToSet(FlattenSeq(seqs))
<1> DEFINE n == Len(seqs)
<1>1. n \in Nat /\ s \in 1 .. n /\ \A i \in 1 .. n : seqs[i] \in Seq(A)
  OBVIOUS
<1> HIDE DEF n
<1>2. PICK F \in [0 .. n -> Seq(A)] :
          /\ F[0] = <<>>
          /\ \A i \in 1 .. n : F[i] = F[i - 1] \o seqs[i]
          /\ F[n] = FlattenSeq(seqs)
  BY FlattenLadder DEF n
<1> DEFINE T == {i \in 0 .. n : s <= i => x \in ToSet(F[i])}
<1>3. \A f, g \in Seq(A) : ToSet(f) \subseteq ToSet(f \o g) /\ ToSet(g) \subseteq ToSet(f \o g)
  <2> TAKE f, g \in Seq(A)
  <2>1. /\ f \o g \in Seq(A) /\ Len(f \o g) = Len(f) + Len(g)
        /\ \A i \in 1 .. Len(f) + Len(g) :
              (f \o g)[i] = IF i <= Len(f) THEN f[i] ELSE g[i - Len(f)]
    BY ConcatProperties
  <2>2. Len(f) \in Nat /\ Len(g) \in Nat /\ DOMAIN f = 1 .. Len(f) /\ DOMAIN g = 1 .. Len(g)
        /\ DOMAIN (f \o g) = 1 .. Len(f) + Len(g)
    BY <2>1
  <2> DEFINE h == f \o g
  <2>3. DOMAIN h = 1 .. Len(f) + Len(g)
        /\ \A i \in 1 .. Len(f) + Len(g) : h[i] = IF i <= Len(f) THEN f[i] ELSE g[i - Len(f)]
    BY <2>1, <2>2
  <2> HIDE DEF h
  <2>4. ASSUME NEW i \in 1 .. Len(f) PROVE f[i] \in ToSet(h)
    <3>1. i \in DOMAIN h /\ h[i] = f[i]
      BY <2>2, <2>3
    <3> QED
      BY <3>1 DEF ToSet
  <2>5. ASSUME NEW i \in 1 .. Len(g) PROVE g[i] \in ToSet(h)
    <3> DEFINE j == i + Len(f)
    <3>2. j \in 1 .. Len(f) + Len(g) /\ ~(j <= Len(f)) /\ j - Len(f) = i
      BY <2>2
    <3> HIDE DEF j
    <3>1. j \in DOMAIN h /\ h[j] = g[i]
      BY <2>3, <3>2
    <3> QED
      BY <3>1 DEF ToSet
  <2>6. ToSet(f) \subseteq ToSet(h) /\ ToSet(g) \subseteq ToSet(h)
    BY <2>2, <2>4, <2>5 DEF ToSet
  <2> QED
    BY <2>6 DEF h
<1>4. 0 \in T
  BY <1>1
<1>5. ASSUME NEW i \in 1 .. n, i - 1 \in T PROVE i \in T
  <2>1. F[i - 1] \in Seq(A) /\ seqs[i] \in Seq(A) /\ F[i] = F[i - 1] \o seqs[i]
    <3>1. i - 1 \in 0 .. n
      BY <1>1
    <3> QED
      BY <1>1, <1>2, <3>1
  <2>2. ToSet(F[i - 1]) \subseteq ToSet(F[i]) /\ ToSet(seqs[i]) \subseteq ToSet(F[i])
    BY <1>3, <2>1
  <2>3. CASE i = s
    BY <1>1, <2>2, <2>3
  <2>4. CASE i # s
    BY <1>1, <1>5, <2>2, <2>4
  <2> QED
    BY <2>3, <2>4
<1>6. \A i \in 1 .. n : i - 1 \in T => i \in T
  BY <1>5
<1> HIDE DEF T
<1>7. \A i \in 0 .. n : i \in T
  BY <1>1, <1>4, <1>6, UpTo
<1>8. n \in 0 .. n /\ s <= n
  BY <1>1
<1> QED
  BY <1>2, <1>7, <1>8 DEF T

-----------------------------------------------------------------------------
(* What becomes of each byte of a slice.                                    *)
Part(slice, widths, b) ==
    IF ~Whole(slice, slice[b], widths) THEN <<Broken>>
    ELSE IF b = 1 \/ slice[b - 1] # slice[b] THEN <<slice[b]>> ELSE <<>>
Parts(slice, widths) == [b \in DOMAIN slice |-> Part(slice, widths, b)]

(* What a slice reads as is put together from the parts of its bytes.       *)
LEMMA PartsType ==
    ASSUME NEW slice \in Seq(Nat), NEW widths
    PROVE  /\ Parts(slice, widths) \in Seq(Seq(Nat)) /\ Len(Parts(slice, widths)) = Len(slice)
           /\ \A b \in 1 .. Len(slice) : Parts(slice, widths)[b] = Part(slice, widths, b)
           /\ Readable(slice, widths) = FlattenSeq(Parts(slice, widths))
           /\ Readable(slice, widths) \in Seq(Nat)
<1>1. \A b \in 1 .. Len(slice) : Part(slice, widths, b) \in Seq(Nat)
  BY DEF Part, Broken
<1>2. Parts(slice, widths) = [b \in 1 .. Len(slice) |-> Part(slice, widths, b)]
      /\ Len(slice) \in Nat
  BY DEF Parts
<1>3. /\ Parts(slice, widths) \in Seq(Seq(Nat)) /\ Len(Parts(slice, widths)) = Len(slice)
      /\ \A b \in 1 .. Len(slice) : Parts(slice, widths)[b] = Part(slice, widths, b)
  BY <1>1, <1>2
<1>4. Readable(slice, widths) = FlattenSeq(Parts(slice, widths))
  BY DEF Readable, Parts, Part
<1>5. \E F \in [0 .. Len(slice) -> Seq(Nat)] : F[Len(slice)] = FlattenSeq(Parts(slice, widths))
  BY <1>3, FlattenLadder, ZenonT(40)
<1>6. FlattenSeq(Parts(slice, widths)) \in Seq(Nat)
  BY <1>2, <1>5
<1> QED
  BY <1>3, <1>4, <1>6

(* A byte of a character that is not whole stands for no character.         *)
LEMMA ReadableBroken ==
    ASSUME NEW slice \in Seq(Nat), NEW widths, NEW b \in 1 .. Len(slice),
           ~Whole(slice, slice[b], widths)
    PROVE  Broken \in ToSet(Readable(slice, widths))
<1>1. Parts(slice, widths) \in Seq(Seq(Nat)) /\ b \in 1 .. Len(Parts(slice, widths))
  BY PartsType
<1>2. Parts(slice, widths)[b] = <<Broken>>
  BY PartsType DEF Part
<1>3. Broken \in ToSet(<<Broken>>)
  BY DEF ToSet
<1> QED
  BY <1>1, <1>2, <1>3, FlattenHolds, PartsType

(* A slice without a broken character reads as the characters from that of  *)
(* its first byte to that of its last.                                      *)
LEMMA SliceReads ==
    ASSUME NEW B, NEW E, NEW widths, IsBytes(B, E, widths),
           NEW lo \in 1 .. Len(B), NEW hi \in lo .. Len(B),
           \A b \in lo .. hi : Whole(SubSeq(B, lo, hi), B[b], widths)
    PROVE  /\ Readable(SubSeq(B, lo, hi), widths) = Run(B[lo], B[hi])
           /\ B[lo] <= B[hi]
<1> DEFINE n == hi - lo + 1
           slice == SubSeq(B, lo, hi)
           parts == Parts(slice, widths)
           c(i) == B[lo + i - 1]
<1>1. /\ lo \in Nat /\ hi \in Nat /\ n \in Nat /\ n >= 1 /\ lo + n - 1 = hi
      /\ \A i \in 1 .. n : lo + i - 1 \in lo .. hi /\ lo + i - 1 \in 1 .. Len(B)
  BY DEF IsBytes
<1>2. /\ slice \in Seq(Nat) /\ Len(slice) = n
      /\ \A i \in 1 .. n : slice[i] = c(i)
  <2>1. B \in Seq(Nat)
    BY DEF IsBytes
  <2>2. /\ slice \in Seq(Nat) /\ Len(slice) = hi - lo + 1
        /\ \A i \in 1 .. hi - lo + 1 : slice[i] = B[lo + i - 1]
    BY <2>1, SliceIs
  <2> HIDE DEF slice
  <2> QED
    BY <2>2
<1>3. \A i \in 1 .. n : c(i) \in Nat
  BY <1>1 DEF IsBytes
<1>4. \A i \in 2 .. n : c(i) = c(i - 1) \/ c(i) = c(i - 1) + 1
  <2> TAKE i \in 2 .. n
  <2> DEFINE b == lo + i - 2
  <2>1. b \in 1 .. Len(B) - 1 /\ lo + (i - 1) - 1 = b /\ lo + i - 1 = b + 1
    <3>1. Len(B) \in Nat
      BY DEF IsBytes
    <3> QED
      BY <1>1, <3>1
  <2>2. b \in Nat /\ E[B[b]] \in Nat
    <3>1. b \in 1 .. Len(B)
      BY <2>1 DEF IsBytes
    <3>2. B[b] \in 1 .. Len(widths)
      BY <3>1, ByteOf
    <3> QED
      BY <2>1, <3>2, EndsRise DEF IsBytes
  <2> HIDE DEF b
  <2>3. B[b + 1] = B[b] \/ B[b + 1] = B[b] + 1
    BY <2>1, <2>2, ByteNext
  <2> QED
    BY <2>1, <2>3
<1>5. /\ parts \in Seq(Seq(Nat)) /\ Len(parts) = n
      /\ \A i \in 1 .. n : parts[i] = Part(slice, widths, i)
      /\ Readable(slice, widths) = FlattenSeq(parts)
  BY <1>2, PartsType
<1>6. ASSUME NEW i \in 1 .. n
      PROVE  parts[i] = IF i = 1 \/ c(i - 1) # c(i) THEN <<c(i)>> ELSE <<>>
  <2>1. Whole(slice, c(i), widths)
    BY <1>1
  <2>2. i # 1 => i - 1 \in 1 .. n
    OBVIOUS
  <2> HIDE DEF c, slice, parts
  <2> QED
    BY <1>2, <1>5, <2>1, <2>2 DEF Part
<1>7. B[lo] = c(1) /\ B[hi] = c(n)
  BY <1>1
<1> HIDE DEF parts, n, slice
<1>8. PICK H \in [0 .. n -> Seq(Nat)] :
          /\ H[0] = <<>>
          /\ \A i \in 1 .. n : H[i] = H[i - 1] \o parts[i]
          /\ H[n] = FlattenSeq(parts)
  BY <1>5, FlattenLadder
<1> HIDE DEF c
<1> DEFINE T == {i \in 0 .. n : i >= 1 => H[i] = Run(c(1), c(i)) /\ c(1) <= c(i)}
<1>9. 0 \in T
  BY <1>1
<1>10. \A x \in Nat : Run(x, x) = <<x>>
  <2> TAKE x \in Nat
  <2>0. x <= x + 1 /\ x - x + 1 = 1 /\ x + 1 - 1 = x /\ 1 \in 1 .. 1
    OBVIOUS
  <2>1. Run(x, x) \in Seq(Nat) /\ Len(Run(x, x)) = 1 /\ Run(x, x)[1] = x
    <3>1. /\ Run(x, x) \in Seq(Nat) /\ Len(Run(x, x)) = x - x + 1
          /\ \A i \in 1 .. x - x + 1 : Run(x, x)[i] = x + i - 1
      BY <2>0, RunType
    <3> QED
      BY <2>0, <3>1
  <2> HIDE DEF Run
  <2> QED
    BY <2>1
<1>11. ASSUME NEW i \in 1 .. n, i - 1 \in T PROVE i \in T
  <2>1. H[i] = H[i - 1] \o parts[i]
    BY <1>8
  <2>2. CASE i = 1
    <3>1. H[i] = <<>> \o <<c(1)>>
      <4>1. parts[i] = <<c(i)>>
        BY <1>6, <2>2
      <4>2. c(i) = c(1) /\ H[i - 1] = H[0]
        BY <2>2
      <4> QED
        BY <1>8, <2>1, <4>1, <4>2
    <3>2. H[i] = <<c(1)>> /\ c(1) \in Nat
      BY <1>1, <1>3, <3>1, ConcatEmptySeq
    <3> QED
      BY <1>1, <1>10, <2>2, <3>2
  <2>3. CASE i # 1
    <3>1. i \in 2 .. n /\ i - 1 \in 1 .. n /\ i - 1 >= 1 /\ 1 \in 1 .. n /\ i \in 0 .. n
      BY <1>1, <2>3
    <3>2. H[i - 1] = Run(c(1), c(i - 1)) /\ c(1) <= c(i - 1)
      BY <1>11, <3>1
    <3>3. c(1) \in Nat /\ c(i - 1) \in Nat /\ c(i) \in Nat
      BY <1>3, <3>1
    <3>4. H[i - 1] \in Seq(Nat)
      <4>1. i - 1 \in 0 .. n
        BY <1>1
      <4> QED
        BY <1>8, <4>1
    <3>5. CASE c(i) = c(i - 1)
      <4>1. H[i] = H[i - 1] \o <<>>
        BY <1>6, <2>1, <2>3, <3>5
      <4>2. H[i] = H[i - 1]
        BY <3>4, <4>1, ConcatEmptySeq
      <4> QED
        BY <3>1, <3>2, <3>5, <4>2
    <3>6. CASE c(i) = c(i - 1) + 1
      <4>1. c(i - 1) # c(i)
        BY <3>3, <3>6
      <4>2. H[i] = H[i - 1] \o <<c(i)>>
        BY <1>6, <2>1, <4>1
      <4>3. <<c(i)>> = Run(c(i - 1) + 1, c(i))
        BY <1>10, <3>3, <3>6
      <4>4. c(1) <= c(i - 1) + 1 /\ c(i - 1) <= c(i) /\ c(1) <= c(i)
        BY <3>2, <3>3, <3>6
      <4>5. Run(c(1), c(i - 1)) \o Run(c(i - 1) + 1, c(i)) = Run(c(1), c(i))
        BY <3>3, <4>4, RunJoin
      <4> QED
        BY <3>1, <3>2, <4>2, <4>3, <4>4, <4>5
    <3> QED
      BY <1>4, <3>1, <3>5, <3>6
  <2> QED
    BY <2>2, <2>3
<1>12. \A i \in 1 .. n : i - 1 \in T => i \in T
  BY <1>11
<1> HIDE DEF T
<1>13. \A i \in 0 .. n : i \in T
  BY <1>1, <1>9, <1>12, UpTo
<1>14. n \in 0 .. n
  BY <1>1
<1>15. H[n] = Run(c(1), c(n)) /\ c(1) <= c(n)
  BY <1>1, <1>13, <1>14 DEF T
<1> QED
  BY <1>5, <1>7, <1>8, <1>15 DEF slice

-----------------------------------------------------------------------------
(* The slices follow one another, each but the last of Cut bytes.           *)
Count(N) == (N + Cut - 1) \div Cut
Low(s) == (s - 1) * Cut + 1
High(s, N) == IF s * Cut < N THEN s * Cut ELSE N

(* The slices cover all bytes, each begins where the one before has ended.  *)
LEMMA SliceBounds ==
    ASSUME NEW N \in Nat
    PROVE  /\ Count(N) \in Nat
           /\ Count(N) = 0 <=> N = 0
           /\ N <= Count(N) * Cut
           /\ Low(1) = 1
           /\ \A s \in 1 .. Count(N) :
                 /\ Low(s) \in 1 .. N /\ High(s, N) \in Low(s) .. N
                 /\ s < Count(N) => High(s, N) = s * Cut /\ High(s, N) < N
                                    /\ Low(s + 1) = High(s, N) + 1
                 /\ s = Count(N) => High(s, N) = N
                 /\ High(s, N) < N => High(s, N) = s * Cut
<1> DEFINE M == Count(N)
<1>1. Cut \in Nat \ {0}
  BY CutAssumption
<1>2. M \in Nat /\ M * Cut <= N + Cut - 1 /\ N + Cut - 1 < M * Cut + Cut /\ M * Cut \in Nat
  <2> DEFINE x == N + Cut - 1
  <2>1. x \in Nat
    BY <1>1
  <2>2. M = x \div Cut
    BY DEF Count
  <2> HIDE DEF x, M
  <2>3. M \in Nat /\ M * Cut <= x /\ x < M * Cut + Cut /\ M * Cut \in Nat
    BY <2>1, <2>2, Quotient, Multiples
  <2> QED
    BY <2>3 DEF x
<1> HIDE DEF M
<1>3. N <= M * Cut
  BY <1>1, <1>2
<1>4. M = 0 <=> N = 0
  <2>1. CASE M = 0
    <3>1. M * Cut = 0
      BY <1>1, <2>1
    <3> QED
      BY <1>3, <2>1, <3>1
  <2>2. CASE M # 0
    <3>1. 0 * Cut + Cut <= M * Cut /\ 0 * Cut = 0
      <4>1. 0 < M
        BY <1>2, <2>2
      <4> QED
        BY <1>1, <1>2, <4>1, Multiples
    <3> QED
      BY <1>1, <1>2, <2>2, <3>1
  <2> QED
    BY <2>1, <2>2
<1>5. Low(1) = 1
  BY <1>1 DEF Low
<1>6. ASSUME NEW s \in 1 .. M
      PROVE  /\ Low(s) \in 1 .. N /\ High(s, N) \in Low(s) .. N
             /\ s < M => High(s, N) = s * Cut /\ High(s, N) < N /\ Low(s + 1) = High(s, N) + 1
             /\ s = M => High(s, N) = N
             /\ High(s, N) < N => High(s, N) = s * Cut
  <2> DEFINE p == s - 1
             r == p * Cut
             q == s * Cut
  <2>1. p \in Nat /\ s = p + 1 /\ s \in Nat /\ p < M
    BY <1>2
  <2>2. r \in Nat /\ q = r + Cut /\ q \in Nat
    BY <2>1, Multiples
  <2>3. r + Cut <= M * Cut
    BY <1>2, <2>1, Multiples
  <2>4. r < N
    BY <1>1, <1>2, <2>2, <2>3
  <2>5. s < M => q + Cut <= M * Cut
    BY <1>2, <2>1, Multiples
  <2>6. s < M => q < N
    BY <1>1, <1>2, <2>2, <2>5
  <2>7. Low(s) = r + 1 /\ High(s, N) = (IF q < N THEN q ELSE N)
    BY DEF Low, High
  <2>8. Low(s + 1) = q + 1
    <3>1. (s + 1) - 1 = s
      BY <2>1
    <3> QED
      BY <3>1 DEF Low
  <2>9. s = M => ~(q < N)
    BY <1>3, <2>2
  <2> HIDE DEF r, q
  <2> QED
    BY <1>1, <2>2, <2>4, <2>6, <2>7, <2>8, <2>9 DEF q
<1> QED
  BY <1>2, <1>3, <1>4, <1>5, <1>6 DEF M

(* What the slices read as.                                                 *)
Reads(B, widths) == [s \in DOMAIN Slices(B) |-> Readable(Slices(B)[s], widths)]

(* The slices one by one, and what they read as.                            *)
LEMMA ReadsType ==
    ASSUME NEW B \in Seq(Nat), NEW widths
    PROVE  /\ Reads(B, widths) \in Seq(Seq(Nat))
           /\ Len(Reads(B, widths)) = Count(Len(B)) /\ Count(Len(B)) \in Nat
           /\ \A s \in 1 .. Count(Len(B)) :
                 /\ SubSeq(B, Low(s), High(s, Len(B))) \in Seq(Nat)
                 /\ Reads(B, widths)[s]
                       = Readable(SubSeq(B, Low(s), High(s, Len(B))), widths)
<1> DEFINE N == Len(B)
           M == Count(N)
           slice(s) == SubSeq(B, Low(s), High(s, N))
           R == Reads(B, widths)
<1>1. N \in Nat
  OBVIOUS
<1>2. M \in Nat /\ \A s \in 1 .. M : Low(s) \in 1 .. N /\ High(s, N) \in Low(s) .. N
  BY <1>1, SliceBounds
<1>3. DOMAIN Slices(B) = 1 .. M /\ \A s \in 1 .. M : Slices(B)[s] = slice(s)
  BY DEF Slices, Count, Low, High
<1>4. \A s \in 1 .. M : slice(s) \in Seq(Nat)
  <2> TAKE s \in 1 .. M
  <2> DEFINE lo == Low(s)
             hi == High(s, N)
  <2>1. lo \in 1 .. Len(B) /\ hi \in lo .. Len(B)
    BY <1>2
  <2> HIDE DEF lo, hi
  <2>2. SubSeq(B, lo, hi) \in Seq(Nat)
    BY <2>1, SliceIs
  <2> QED
    BY <2>2 DEF lo, hi
<1> HIDE DEF slice, M, N
<1>5. R = [s \in 1 .. M |-> Readable(slice(s), widths)]
  BY <1>3 DEF Reads
<1>6. \A s \in 1 .. M : Readable(slice(s), widths) \in Seq(Nat)
  BY <1>4, PartsType
<1> HIDE DEF R
<1>7. R \in Seq(Seq(Nat)) /\ Len(R) = M
  BY <1>2, <1>5, <1>6
<1>8. \A s \in 1 .. M : R[s] = Readable(slice(s), widths)
  BY <1>5
<1> QED
  BY <1>2, <1>4, <1>7, <1>8 DEF R, M, N, slice

(* When no character lies across a cut, each slice has all of those it has  *)
(* a byte of.                                                               *)
LEMMA CleanWhole ==
    ASSUME NEW widths, NEW E, IsBytes(Bytes(widths), E, widths), CutsClean(widths),
           NEW s \in 1 .. Count(Len(Bytes(widths))),
           NEW b \in Low(s) .. High(s, Len(Bytes(widths)))
    PROVE  Whole(SubSeq(Bytes(widths), Low(s), High(s, Len(Bytes(widths)))),
                 Bytes(widths)[b], widths)
<1> DEFINE B == Bytes(widths)
           N == Len(B)
           lo == Low(s)
           hi == High(s, N)
           k == B[b]
<1>1. N \in Nat /\ \A c \in 1 .. N : (c % Cut = 0 /\ c < N) => B[c] # B[c + 1]
  BY DEF IsBytes, CutsClean
<1>2. lo \in 1 .. N /\ hi \in lo .. N /\ (hi < N => hi = s * Cut) /\ lo = (s - 1) * Cut + 1
      /\ s \in Nat /\ s - 1 \in Nat
  <2>1. s \in Nat /\ s - 1 \in Nat
    BY <1>1, SliceBounds
  <2>2. lo = (s - 1) * Cut + 1
    BY DEF Low
  <2>3. lo \in 1 .. N /\ hi \in lo .. N /\ (hi < N => hi = s * Cut)
    BY <1>1, SliceBounds
  <2> QED
    BY <2>1, <2>2, <2>3
<1>3. b \in lo .. hi
  OBVIOUS
<1> HIDE DEF lo, hi, N
<1>4. b \in 1 .. N
  BY <1>1, <1>2, <1>3
<1>5. k \in 1 .. Len(widths) /\ b \in E[k - 1] + 1 .. E[k]
  BY <1>4, ByteOf DEF N
<1>6. E[k - 1] \in Nat /\ E[k] \in Nat
  BY <1>5, EndsRise DEF IsBytes
<1> HIDE DEF k, B
<1>7. \A c \in E[k - 1] + 1 .. E[k] : c \in 1 .. N /\ B[c] = k
  BY <1>5, ByteIs DEF N, B
<1>8. lo <= E[k - 1] + 1
  <2> SUFFICES ASSUME ~(lo <= E[k - 1] + 1) PROVE FALSE
    OBVIOUS
  <2> DEFINE c == (s - 1) * Cut
  <2>1. c % Cut = 0 /\ c \in Nat
    BY <1>2, MultipleRest, Multiples
  <2>2. lo = c + 1
    BY <1>2
  <2> HIDE DEF c
  <2>3. c \in E[k - 1] + 1 .. E[k] /\ c + 1 \in E[k - 1] + 1 .. E[k]
    BY <1>1, <1>2, <1>3, <1>5, <1>6, <2>1, <2>2, SMTT(30)
  <2>4. c \in 1 .. N /\ c < N /\ B[c] = B[c + 1]
    BY <1>1, <1>7, <2>3
  <2> QED
    BY <1>1, <2>1, <2>4
<1>9. E[k] <= hi
  <2> SUFFICES ASSUME ~(E[k] <= hi) PROVE FALSE
    OBVIOUS
  <2>1. hi \in E[k - 1] + 1 .. E[k] /\ hi + 1 \in E[k - 1] + 1 .. E[k]
    BY <1>1, <1>2, <1>3, <1>5, <1>6, SMTT(30)
  <2>2. hi \in 1 .. N /\ hi < N /\ B[hi] = B[hi + 1]
    BY <1>1, <1>7, <2>1
  <2>3. hi % Cut = 0
    BY <1>2, <2>2, MultipleRest
  <2> QED
    BY <1>1, <2>2, <2>3
<1>10. Whole(SubSeq(B, lo, hi), k, widths)
  BY <1>2, <1>5, <1>8, <1>9, WholeWhen DEF N, B
<1> QED
  BY <1>10 DEF B, N, lo, hi, k

(* Then the slices read as the characters of the text, one after another.   *)
LEMMA CleanReads ==
    ASSUME NEW widths, NEW E, IsBytes(Bytes(widths), E, widths), CutsClean(widths)
    PROVE  FlattenSeq(Reads(Bytes(widths), widths)) = Run(1, Len(widths))
<1> DEFINE B == Bytes(widths)
           N == Len(B)
           M == Count(N)
           m == Len(widths)
           R == Reads(B, widths)
<1>1. /\ N \in Nat /\ m \in Nat /\ B \in Seq(Nat)
      /\ \A b \in 1 .. N : B[b] \in Nat
      /\ (N = 0 <=> m = 0) /\ (N # 0 => B[1] = 1 /\ B[N] = m)
  <2>1. B \in Seq(Nat) /\ widths \in Widths /\ IsBytes(B, E, widths)
    BY DEF IsBytes
  <2> HIDE DEF B
  <2>2. N \in Nat /\ m \in Nat /\ \A b \in 1 .. N : B[b] \in Nat
    BY <2>1 DEF Widths
  <2>3. (N = 0 <=> m = 0) /\ (N # 0 => B[1] = 1 /\ B[N] = m)
    BY <2>1, ByteEnds
  <2> QED
    BY <2>1, <2>2, <2>3
<1>2. /\ M \in Nat /\ (M = 0 <=> N = 0) /\ Low(1) = 1
      /\ \A s \in 1 .. M :
            /\ Low(s) \in 1 .. N /\ High(s, N) \in Low(s) .. N
            /\ s < M => High(s, N) = s * Cut /\ High(s, N) < N /\ Low(s + 1) = High(s, N) + 1
            /\ s = M => High(s, N) = N
  BY <1>1, SliceBounds
<1>3. /\ R \in Seq(Seq(Nat)) /\ Len(R) = M
      /\ \A s \in 1 .. M : R[s] = Readable(SubSeq(B, Low(s), High(s, N)), widths)
  BY <1>1, ReadsType
<1>4. \A s \in 1 .. M : /\ R[s] = Run(B[Low(s)], B[High(s, N)])
                        /\ B[Low(s)] <= B[High(s, N)]
  <2> TAKE s \in 1 .. M
  <2> DEFINE lo == Low(s)
             hi == High(s, N)
  <2>1. lo \in 1 .. Len(B) /\ hi \in lo .. Len(B)
    BY <1>2
  <2>2. \A b \in lo .. hi : Whole(SubSeq(B, lo, hi), B[b], widths)
    BY CleanWhole
  <2>3. IsBytes(B, E, widths) /\ R[s] = Readable(SubSeq(B, lo, hi), widths)
    BY <1>3
  <2> HIDE DEF lo, hi, B, R
  <2>4. Readable(SubSeq(B, lo, hi), widths) = Run(B[lo], B[hi]) /\ B[lo] <= B[hi]
    BY <2>1, <2>2, <2>3, SliceReads
  <2> QED
    BY <2>3, <2>4 DEF lo, hi
<1>5. \A s \in 1 .. M : s < M => B[Low(s + 1)] = B[High(s, N)] + 1
  <2> SUFFICES ASSUME NEW s \in 1 .. M, s < M PROVE B[Low(s + 1)] = B[High(s, N)] + 1
    OBVIOUS
  <2> DEFINE b == High(s, N)
  <2>1. b = s * Cut /\ b < N /\ Low(s + 1) = b + 1 /\ b \in 1 .. N /\ b \in 1 .. N - 1
    BY <1>1, <1>2
  <2>2. b % Cut = 0
    BY <1>2, <2>1, MultipleRest
  <2>3. B[b] # B[b + 1]
    BY <1>1, <2>1, <2>2, SMTT(30) DEF CutsClean
  <2>4. B[b] \in 1 .. Len(widths) /\ b \in Nat
    BY <2>1, ByteOf
  <2>5. E[B[b]] \in Nat
    BY <2>4, EndsRise DEF IsBytes
  <2>6. IsBytes(B, E, widths) /\ b \in 1 .. Len(B) - 1
    BY <2>1
  <2> HIDE DEF b, B
  <2>7. /\ b < E[B[b]] => B[b + 1] = B[b]
        /\ b = E[B[b]] => B[b + 1] = B[b] + 1
        /\ b <= E[B[b]]
    BY <2>6, ByteNext
  <2>8. B[b + 1] = B[b] + 1
    BY <2>3, <2>4, <2>5, <2>7
  <2> QED
    BY <2>1, <2>8 DEF b
<1> HIDE DEF R, B, N, M, m
<1>6. PICK G \in [0 .. M -> Seq(Nat)] :
          /\ G[0] = <<>>
          /\ \A s \in 1 .. M : G[s] = G[s - 1] \o R[s]
          /\ G[M] = FlattenSeq(R)
  BY <1>3, FlattenLadder
<1> DEFINE lo(s) == B[Low(s)]
           hi(s) == B[High(s, N)]
<1>7. /\ \A s \in 1 .. M : lo(s) \in Nat /\ hi(s) \in Nat /\ lo(s) <= hi(s)
                          /\ R[s] = Run(lo(s), hi(s))
      /\ \A s \in 2 .. M : lo(s) = hi(s - 1) + 1
  <2>1. \A s \in 1 .. M : Low(s) \in 1 .. N /\ High(s, N) \in 1 .. N
    BY <1>1, <1>2
  <2>2. \A s \in 2 .. M : s - 1 \in 1 .. M /\ s - 1 < M /\ (s - 1) + 1 = s
    BY <1>2
  <2> QED
    BY <1>1, <1>4, <1>5, <2>1, <2>2
<1>8. M # 0 => lo(1) = 1 /\ hi(M) = m
  <2>1. M # 0 => M \in 1 .. M
    BY <1>2
  <2> QED
    BY <1>1, <1>2, <2>1
<1> HIDE DEF lo, hi
<1> DEFINE T == {s \in 0 .. M : s >= 1 => G[s] = Run(1, hi(s)) /\ 1 <= hi(s)}
<1>9. 0 \in T
  BY <1>2
<1>10. ASSUME NEW s \in 1 .. M, s - 1 \in T PROVE s \in T
  <2>1. G[s] = G[s - 1] \o R[s] /\ R[s] = Run(lo(s), hi(s))
        /\ lo(s) \in Nat /\ hi(s) \in Nat /\ lo(s) <= hi(s) /\ R[s] \in Seq(Nat)
    BY <1>3, <1>6, <1>7, SMTT(30)
  <2>2. CASE s = 1
    <3>1. G[s - 1] = <<>> /\ lo(s) = 1
      BY <1>2, <1>6, <1>8, <2>2
    <3>2. G[s] = R[s]
      BY <2>1, <3>1, ConcatEmptySeq
    <3> QED
      BY <2>1, <3>1, <3>2
  <2>3. CASE s # 1
    <3>1. s \in 2 .. M /\ s - 1 \in 1 .. M /\ s - 1 >= 1
      BY <1>2, <2>3
    <3>2. G[s - 1] = Run(1, hi(s - 1)) /\ 1 <= hi(s - 1) /\ hi(s - 1) \in Nat
          /\ lo(s) = hi(s - 1) + 1
      BY <1>7, <1>10, <3>1
    <3> DEFINE h == hi(s - 1)
               k == hi(s)
    <3>3. h \in Nat /\ k \in Nat /\ 1 <= h + 1 /\ h <= k /\ 1 <= k
      BY <2>1, <3>2
    <3>4. G[s] = Run(1, h) \o Run(h + 1, k)
      BY <2>1, <3>2
    <3> HIDE DEF h, k
    <3>5. G[s] = Run(1, k)
      BY <3>3, <3>4, RunJoin
    <3> QED
      BY <3>3, <3>5 DEF k
  <2> QED
    BY <2>2, <2>3
<1>11. \A s \in 1 .. M : s - 1 \in T => s \in T
  BY <1>10
<1> HIDE DEF T
<1>12. \A s \in 0 .. M : s \in T
  BY <1>2, <1>9, <1>11, UpTo
<1>13. CASE M = 0
  <2>1. G[M] = <<>> /\ m = 0
    BY <1>1, <1>2, <1>6, <1>13
  <2>2. Run(1, 0) = <<>>
    BY DEF Run
  <2> QED
    BY <1>6, <2>1, <2>2 DEF R, B, m
<1>14. CASE M # 0
  <2>1. M \in T /\ M >= 1
    BY <1>2, <1>12, <1>14
  <2>2. G[M] = Run(1, hi(M))
    BY <2>1 DEF T
  <2> QED
    BY <1>6, <1>8, <1>14, <2>2 DEF R, B, m
<1> QED
  BY <1>13, <1>14

(* A character that lies across a cut is broken.                            *)
LEMMA UncleanReads ==
    ASSUME NEW widths, NEW E, IsBytes(Bytes(widths), E, widths), ~CutsClean(widths)
    PROVE  FlattenSeq(Reads(Bytes(widths), widths)) # Run(1, Len(widths))
<1> DEFINE B == Bytes(widths)
           N == Len(B)
           M == Count(N)
           R == Reads(B, widths)
<1>1. N \in Nat /\ B \in Seq(Nat) /\ DOMAIN B = 1 .. N /\ Len(widths) \in Nat
  BY DEF IsBytes, Widths
<1>2. PICK b \in 1 .. N : b % Cut = 0 /\ b < N /\ B[b] = B[b + 1]
  BY <1>1 DEF CutsClean
<1> DEFINE s == b \div Cut
           k == B[b]
<1>3. b \in Nat /\ s \in Nat /\ b = s * Cut
  BY <1>2, Quotient
<1>4. s \in 1 .. M /\ High(s, N) = b /\ Low(s) \in 1 .. N /\ b \in Low(s) .. N
  <2>1. M \in Nat /\ N <= M * Cut
    BY <1>1, SliceBounds
  <2> HIDE DEF s, M, N, B, k
  <2>2. s # 0
    <3>1. 0 * Cut = 0
      BY CutAssumption
    <3> QED
      BY <1>2, <1>3, <3>1
  <2>3. s < M
    <3>1. M * Cut \in Nat
      BY <2>1, Multiples
    <3>2. ~(M < s)
      <4>1. M < s => M * Cut + Cut <= s * Cut
        BY <1>3, <2>1, Multiples
      <4> QED
        BY <1>1, <1>2, <1>3, <2>1, <3>1, <4>1, CutAssumption
    <3>3. M # s
      BY <1>1, <1>2, <1>3, <2>1
    <3> QED
      BY <1>3, <2>1, <3>2, <3>3
  <2>4. s \in 1 .. M
    BY <1>3, <2>1, <2>2, <2>3
  <2>5. High(s, N) = b
    BY <1>2, <1>3 DEF High
  <2>6. Low(s) \in 1 .. N /\ High(s, N) \in Low(s) .. N
    BY <1>1, <2>4, SliceBounds DEF M
  <2> QED
    BY <2>4, <2>5, <2>6
<1> HIDE DEF s
<1>5. k \in 1 .. Len(widths) /\ b + 1 \in 1 .. N
  BY <1>1, <1>2, ByteOf
<1>6. b + 1 <= E[k] /\ E[k] \in Nat
  <2>1. b + 1 \in E[B[b + 1] - 1] + 1 .. E[B[b + 1]]
    BY <1>5, ByteOf
  <2>2. E[k] \in Nat /\ E[k - 1] \in Nat
    BY <1>5, EndsRise DEF IsBytes
  <2> QED
    BY <1>2, <2>1, <2>2
<1> DEFINE lo == Low(s)
           slice == SubSeq(B, lo, b)
           last == b - lo + 1
<1>7. lo \in 1 .. Len(B) /\ b \in lo .. Len(B) /\ IsBytes(B, E, widths)
  BY <1>4
<1> HIDE DEF lo, B, k
<1>8. slice \in Seq(Nat) /\ Len(slice) = last /\ slice[last] = k /\ last \in 1 .. Len(slice)
  <2>1. /\ slice \in Seq(Nat) /\ Len(slice) = b - lo + 1
        /\ \A i \in 1 .. b - lo + 1 : slice[i] = B[lo + i - 1]
    BY <1>1, <1>7, SliceIs
  <2>2. last \in 1 .. last /\ lo + last - 1 = b
    BY <1>1, <1>7
  <2> HIDE DEF slice
  <2> QED
    BY <2>1, <2>2 DEF k
<1>9. ~Whole(slice, k, widths)
  <2>1. Whole(slice, k, widths) <=> lo <= E[k - 1] + 1 /\ E[k] <= b
    BY <1>5, <1>7, WholeWhen
  <2> QED
    BY <1>3, <1>6, <2>1
<1> HIDE DEF slice, last
<1>10. Broken \in ToSet(Readable(slice, widths))
  BY <1>8, <1>9, ReadableBroken
<1>11. R \in Seq(Seq(Nat)) /\ Len(R) = M /\ R[s] = Readable(slice, widths)
  BY <1>1, <1>4, ReadsType DEF slice, lo
<1> HIDE DEF R
<1>12. Broken \in ToSet(FlattenSeq(R))
  BY <1>4, <1>10, <1>11, FlattenHolds
<1>13. Broken \notin ToSet(Run(1, Len(widths)))
  <2> DEFINE m == Len(widths)
  <2>1. 1 \in Nat /\ m \in Nat /\ 1 <= m + 1 /\ m - 1 + 1 = m
    BY <1>1
  <2> HIDE DEF m
  <2>2. Run(1, m) \in Seq(Nat) /\ Len(Run(1, m)) = m /\ \A i \in 1 .. m : Run(1, m)[i] = 1 + i - 1
    BY <2>1, RunType
  <2>3. DOMAIN Run(1, m) = 1 .. m
    BY <2>2
  <2>4. Broken \notin ToSet(Run(1, m))
    BY <2>1, <2>2, <2>3 DEF ToSet, Broken
  <2> QED
    BY <2>4 DEF m
<1> QED
  BY <1>12, <1>13 DEF R, B

-----------------------------------------------------------------------------
(* Characters of one byte or more, four at most in the code.                *)
LEMMA AnswerWidths ==
    ASSUME NEW widths \in Seq(1 .. 4)
    PROVE  widths \in Widths /\ [k \in DOMAIN widths |-> k] = Run(1, Len(widths))
<1>1. Len(widths) \in Nat /\ DOMAIN widths = 1 .. Len(widths)
      /\ widths = [i \in 1 .. Len(widths) |-> widths[i]]
      /\ \A i \in 1 .. Len(widths) : widths[i] \in 1 .. 4
  OBVIOUS
<1>2. widths \in Widths
  BY <1>1 DEF Widths
<1>3. [k \in 1 .. Len(widths) |-> k] = Run(1, Len(widths))
  <2> DEFINE m == Len(widths)
  <2>1. m - 1 + 1 = m /\ \A i \in 1 .. m : 1 + i - 1 = i
    BY <1>1
  <2> HIDE DEF m
  <2> QED
    BY <2>1 DEF Run, m
<1> QED
  BY <1>1, <1>2, <1>3

(* The pieces of a paid completion: text that reads as the slices do, and   *)
(* a call exactly when there are tools to call.                             *)
LEMMA PiecesAre ==
    ASSUME NEW answer, answer.widths \in Seq(1 .. 4), answer.calls \in Nat
    PROVE  /\ Pieces(answer) \in Seq(Chunks)
           /\ answer.readable =>
                 /\ Datas(Pieces(answer), "text", 0)
                       = FlattenSeq(Reads(Bytes(answer.widths), answer.widths))
                 /\ (\E x \in ToSet(Pieces(answer)) : x.kind = "call")
                       <=> answer.calls # 0
<1> DEFINE widths == answer.widths
           B == Bytes(widths)
           R == Reads(B, widths)
           M == Count(Len(B))
           texts == [n \in DOMAIN Slices(B) |-> Text(Readable(Slices(B)[n], widths))]
           call == IF answer.calls > 0 THEN <<Call(0, answer.calls)>> ELSE <<>>
           mid == texts \o call
<1>1. widths \in Widths
  BY AnswerWidths
<1>2. B \in Seq(Nat)
  BY <1>1, BytesAre
<1>3. R \in Seq(Seq(Nat)) /\ Len(R) = M /\ M \in Nat
  BY <1>2, ReadsType
<1>4. DOMAIN Slices(B) = 1 .. M
  BY DEF Slices, Count
<1>5. texts = [n \in 1 .. M |-> Text(R[n])]
  BY <1>4 DEF Reads
<1>6. /\ texts \in Seq(Chunks) /\ Len(texts) = M
      /\ \A n \in 1 .. M : texts[n] = Text(R[n])
  <2>1. \A n \in 1 .. M : Text(R[n]) \in Chunks
    <3> TAKE n \in 1 .. M
    <3> DEFINE data == R[n]
    <3>1. data \in Seq(Nat)
      BY <1>3
    <3> HIDE DEF data
    <3>2. Text(data) \in Chunks
      BY <3>1 DEF Text, Chunks
    <3> QED
      BY <3>2 DEF data
  <2> HIDE DEF texts, R, M
  <2> QED
    BY <1>3, <1>5, <2>1
<1>7. Pieces(answer) = IF ~answer.readable THEN <<>> ELSE mid \o <<Stop>>
  BY DEF Pieces
<1>8. Stop \in Chunks /\ Stop.kind = "stop"
      /\ Carried(<<Stop>>, "text", 0) = <<>>
  <2>1. <<>> \in Seq(Nat)
    OBVIOUS
  <2> QED
    BY <2>1 DEF Stop, Chunks, Carried
<1>9. Datas(texts, "text", 0) = FlattenSeq(R)
  <2> DEFINE data == [i \in DOMAIN texts |->
                 IF texts[i].kind = "text" /\ texts[i].index = 0 THEN texts[i].data ELSE <<>>]
  <2>1. DOMAIN texts = 1 .. M
    BY <1>5
  <2>2. \A i \in 1 .. M : data[i] = R[i]
    <3> TAKE i \in 1 .. M
    <3>1. texts[i] = Text(R[i])
      BY <1>6
    <3>2. texts[i].kind = "text" /\ texts[i].index = 0 /\ texts[i].data = R[i]
      BY <3>1 DEF Text
    <3> QED
      BY <2>1, <3>2
  <2>3. data = [i \in 1 .. M |-> R[i]]
    BY <2>1, <2>2
  <2> HIDE DEF data, R, M, texts
  <2>4. data = R
    BY <1>3, <2>3
  <2> QED
    BY <2>4 DEF Datas, data
<1> HIDE DEF texts, R, M
<1>10. /\ mid \in Seq(Chunks)
       /\ Datas(mid, "text", 0) = FlattenSeq(R)
       /\ (\E x \in ToSet(mid) : x.kind = "call") <=> answer.calls # 0
  <2>0. ~\E x \in ToSet(texts) : x.kind = "call"
    BY <1>6 DEF ToSet, Text
  <2>1. CASE answer.calls = 0
    <3>1. mid = texts
      BY <1>6, <2>1, ConcatEmptySeq
    <3> HIDE DEF mid
    <3> QED
      BY <1>6, <1>9, <2>0, <2>1, <3>1
  <2>2. CASE answer.calls # 0
    <3> DEFINE c == Call(0, answer.calls)
    <3>1. answer.calls > 0 /\ answer.calls \in Nat
      BY <2>2
    <3>2. c \in Chunks /\ c.kind = "call"
      <4>1. <<answer.calls>> \in Seq(Nat)
        BY <3>1
      <4> QED
        BY <4>1 DEF Call, Chunks
    <3> HIDE DEF c
    <3>3. mid = texts \o <<c>>
      BY <3>1 DEF c
    <3>4. mid = Append(texts, c)
      BY <1>6, <3>2, <3>3, AppendIsConcat
    <3> HIDE DEF mid
    <3>5. mid \in Seq(Chunks)
      BY <1>6, <3>2, <3>4, AppendProperties
    <3>6. Datas(mid, "text", 0) = Datas(texts, "text", 0) \o Carried(<<c>>, "text", 0)
          /\ Datas(texts, "text", 0) \in Seq(Nat)
      BY <1>6, <3>2, <3>4, DatasNext
    <3>7. Carried(<<c>>, "text", 0) = <<>>
      BY <3>2 DEF Carried
    <3>8. Datas(mid, "text", 0) = Datas(texts, "text", 0)
      BY <3>6, <3>7, ConcatEmptySeq
    <3>9. c \in ToSet(mid)
      BY <1>6, <3>4, ElementsAnd
    <3> QED
      BY <1>9, <2>2, <3>2, <3>5, <3>8, <3>9
  <2> QED
    BY <2>1, <2>2
<1> HIDE DEF mid
<1> DEFINE all == mid \o <<Stop>>
<1>11. all = Append(mid, Stop)
  BY <1>8, <1>10, AppendIsConcat
<1> HIDE DEF all
<1>12. /\ all \in Seq(Chunks)
       /\ Datas(all, "text", 0) = Datas(mid, "text", 0) \o <<>>
       /\ Datas(mid, "text", 0) \in Seq(Nat)
  <2>1. all \in Seq(Chunks)
    BY <1>8, <1>10, <1>11, AppendProperties
  <2>2. /\ Datas(all, "text", 0) = Datas(mid, "text", 0) \o Carried(<<Stop>>, "text", 0)
        /\ Datas(mid, "text", 0) \in Seq(Nat)
    BY <1>8, <1>10, <1>11, DatasNext
  <2> QED
    BY <1>8, <2>1, <2>2
<1>13. Datas(all, "text", 0) = FlattenSeq(R)
  BY <1>10, <1>12, ConcatEmptySeq
<1>14. (\E x \in ToSet(all) : x.kind = "call") <=> answer.calls # 0
  <2>1. ToSet(all) = ToSet(mid) \cup {Stop}
    BY <1>8, <1>10, <1>11, ElementsAnd
  <2> QED
    BY <1>8, <1>10, <2>1
<1>15. <<>> \in Seq(Chunks)
  OBVIOUS
<1> QED
  BY <1>7, <1>12, <1>13, <1>14, <1>15 DEF all, R

(* What a client reads from the pieces of a paid completion: the text as it *)
(* was exactly when no character lies across a cut, and a call exactly when *)
(* there is one.                                                            *)
LEMMA PaidReads ==
    ASSUME NEW answer, answer.widths \in Seq(1 .. 4), answer.calls \in Nat,
           answer.readable
    PROVE  LET m == Message(Pieces(answer))
           IN  /\ (m.text = [k \in DOMAIN answer.widths |-> k]) <=> CutsClean(answer.widths)
               /\ DOMAIN m.calls = {} <=> answer.calls = 0
<1> DEFINE widths == answer.widths
           m == Message(Pieces(answer))
<1>1. widths \in Widths /\ [k \in DOMAIN widths |-> k] = Run(1, Len(widths))
  BY AnswerWidths
<1>2. PICK E : IsBytes(Bytes(widths), E, widths)
  BY <1>1, BytesAre DEF IsBytes
<1>3. /\ m.text = FlattenSeq(Reads(Bytes(widths), widths))
      /\ (\E x \in ToSet(Pieces(answer)) : x.kind = "call") <=> answer.calls # 0
  BY PiecesAre DEF Message
<1>4. CutsClean(widths) => m.text = Run(1, Len(widths))
  BY <1>2, <1>3, CleanReads
<1>5. ~CutsClean(widths) => m.text # Run(1, Len(widths))
  BY <1>2, <1>3, UncleanReads
<1>6. DOMAIN m.calls = {x.index : x \in {y \in ToSet(Pieces(answer)) : y.kind = "call"}}
  BY DEF Message
<1>7. DOMAIN m.calls = {} <=> answer.calls = 0
  BY <1>3, <1>6
<1> HIDE DEF m
<1>8. (m.text = Run(1, Len(widths))) <=> CutsClean(widths)
  BY <1>4, <1>5
<1> QED
  BY <1>1, <1>7, <1>8 DEF m
=============================================================================
