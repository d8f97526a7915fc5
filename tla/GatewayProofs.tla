--------------------------- MODULE GatewayProofs ---------------------------
(***************************************************************************)
(* Theorems about Gateway, for all identities, headers, requests and        *)
(* configurations, any size of the pool and any number of turns and         *)
(* registrations.  First what sessionHeaderValue computes, for any header:  *)
(* the fold over the spellings and their values reads as what they agree    *)
(* on, whatever the order in which the map is walked.                       *)
(***************************************************************************)
EXTENDS Gateway, SessionPoolProofs, FoldProofs, FiniteSetTheorems

-----------------------------------------------------------------------------
(* What a header may hold: its spellings, each with its values.             *)
Values == Ids \cup {Invalid}
Spellings == Seq(Seq(Values))

(* A value is taken to an answer.                                           *)
LEMMA TakeValueType ==
    ASSUME NEW answer \in Answers, NEW value \in Values
    PROVE  TakeValue(answer, value) \in Answers
BY DEF TakeValue, Answers

(* The scan of one spelling takes its values from the first to the last.    *)
LEMMA ValuesFold ==
    ASSUME NEW base \in Answers, NEW seq \in Seq(Values)
    PROVE  \E g : /\ g \in [0 .. Len(seq) -> Answers]
                  /\ g[0] = base
                  /\ \A i \in 1 .. Len(seq) : g[i] = TakeValue(g[i - 1], seq[i])
                  /\ g[Len(seq)] = FoldLeft(TakeValue, base, seq)
<1> DEFINE n == Len(seq)
           step == [i \in 1 .. n |-> [a \in Answers |-> TakeValue(a, seq[i])]]
           Sat(f) == f = [s \in SUBSET DOMAIN seq |->
                             IF s = {} THEN base
                             ELSE TakeValue(f[s \ {Max(s)}], seq[Max(s)])]
           iter == CHOOSE f : Sat(f)
<1>1. n \in Nat /\ DOMAIN seq = 1 .. n /\ \A i \in 1 .. n : seq[i] \in Values
  OBVIOUS
<1>2. FoldLeft(TakeValue, base, seq) = iter[DOMAIN seq]
  BY DEF FoldLeft, MapThenFoldSet
<1>3. step \in Steps(n, Answers)
  BY <1>1, TakeValueType DEF Steps
<1> HIDE DEF n
<1>4. \A i \in 1 .. n : \A a \in Answers : step[i][a] = TakeValue(a, seq[i])
  OBVIOUS
<1> HIDE DEF step
<1>5. \E f : Sat(f)
  <2>1. PICK g : IsSetLadder(g, n, Answers, base, step)
    BY <1>1, <1>3, SetLadder
  <2>2. ASSUME NEW s \in SUBSET (1 .. n)
        PROVE  g[s] = IF s = {} THEN base ELSE TakeValue(g[s \ {Max(s)}], seq[Max(s)])
    <3>1. s # {} => Max(s) \in 1 .. n
      BY <1>1, MaxIsElement
    <3>2. g[s \ {Max(s)}] \in Answers
      BY <2>1 DEF IsSetLadder
    <3> QED
      BY <1>4, <2>1, <3>1, <3>2 DEF IsSetLadder
  <2>3. Sat(g)
    BY <1>1, <2>1, <2>2 DEF IsSetLadder
  <2> QED
    BY <2>3
<1>6. Sat(iter)
  BY <1>5
<1> HIDE DEF iter
<1>7. /\ DOMAIN iter = SUBSET (1 .. n)
      /\ \A s \in SUBSET (1 .. n) :
            iter[s] = IF s = {} THEN base ELSE TakeValue(iter[s \ {Max(s)}], seq[Max(s)])
  BY <1>1, <1>6
<1> DEFINE g == [k \in 0 .. n |-> iter[1 .. k]]
<1>8. g[0] = base
  <2>1. 1 .. 0 = {} /\ {} \in SUBSET (1 .. n)
    OBVIOUS
  <2>2. iter[{}] = base
    BY <1>7
  <2> QED
    BY <1>1, <2>1, <2>2
<1>9. \A k \in 1 .. n : g[k] = TakeValue(g[k - 1], seq[k])
  <2> TAKE k \in 1 .. n
  <2>1. /\ 1 .. k \in SUBSET (1 .. n) /\ 1 .. k # {}
        /\ Max(1 .. k) = k /\ (1 .. k) \ {k} = 1 .. k - 1
    BY <1>1, UpToTop
  <2>2. iter[1 .. k] = TakeValue(iter[1 .. k - 1], seq[k])
    BY <1>7, <2>1
  <2>3. g[k] = iter[1 .. k] /\ g[k - 1] = iter[1 .. k - 1]
    BY <1>1
  <2> QED
    BY <2>2, <2>3
<1>10. g[n] = iter[1 .. n] /\ g = [k \in 0 .. n |-> g[k]]
  BY <1>1
<1> HIDE DEF g
<1>11. \A k \in 0 .. n : g[k] \in Answers
  <2> DEFINE T == {k \in 0 .. n : g[k] \in Answers}
  <2>1. 0 \in T
    BY <1>1, <1>8
  <2>2. \A k \in 1 .. n : k - 1 \in T => k \in T
    BY <1>1, <1>9, TakeValueType
  <2> HIDE DEF T
  <2>3. \A k \in 0 .. n : k \in T
    BY <1>1, <2>1, <2>2, UpTo
  <2> QED
    BY <2>3 DEF T
<1>12. g \in [0 .. n -> Answers]
  BY <1>10, <1>11
<1> QED
  BY <1>1, <1>2, <1>8, <1>9, <1>10, <1>12 DEF n

-----------------------------------------------------------------------------
(* What a set of values reads as: the one identity, if that is all there is. *)
ReadAs(S) ==
    IF S = {} THEN Absent
    ELSE IF \E id \in Ids : S = {id} THEN Named(CHOOSE id \in Ids : S = {id})
    ELSE Closed

(* The three kinds of answers differ, and so do two identities.             *)
LEMMA AnswersDiffer ==
    /\ Absent # Closed
    /\ \A id \in Ids : Named(id) # Absent /\ Named(id) # Closed
    /\ \A x, y \in Ids : Named(x) = Named(y) => x = y
<1>1. Absent.present = FALSE /\ Closed.present = TRUE /\ Closed.id = NoId
  BY DEF Absent, Closed
<1>2. \A id \in Ids : Named(id).present = TRUE /\ Named(id).id = id /\ id # NoId
  BY SessionHeadersAssumption DEF Named
<1> QED
  BY <1>1, <1>2

(* One identity reads as itself, and any set as an answer.                  *)
LEMMA ReadAsOne == \A id \in Ids : ReadAs({id}) = Named(id)
<1> SUFFICES ASSUME NEW id \in Ids PROVE ReadAs({id}) = Named(id)
  OBVIOUS
<1>1. (CHOOSE x \in Ids : {id} = {x}) = id
  OBVIOUS
<1> QED
  BY <1>1 DEF ReadAs

(* A set of values reads as an answer.                                      *)
LEMMA ReadAsType == \A S : ReadAs(S) \in Answers
  BY DEF ReadAs, Answers

(* One value more.                                                          *)
LEMMA TakeOne ==
    ASSUME NEW S \in SUBSET Values, NEW value \in Values
    PROVE  TakeValue(ReadAs(S), value) = ReadAs(S \cup {value})
<1>1. CASE value \notin Ids
  <2>1. \A id \in Ids : S \cup {value} # {id}
    BY <1>1
  <2>2. ReadAs(S \cup {value}) = Closed
    BY <2>1 DEF ReadAs
  <2> QED
    BY <1>1, <2>2 DEF TakeValue
<1>2. CASE value \in Ids /\ S = {}
  <2>1. S \cup {value} = {value} /\ ReadAs(S) = Absent
    BY <1>2 DEF ReadAs
  <2> QED
    BY <1>2, <2>1, ReadAsOne, AnswersDiffer DEF TakeValue
<1>3. CASE value \in Ids /\ \E id \in Ids : S = {id}
  <2>1. PICK id \in Ids : S = {id}
    BY <1>3
  <2>2. ReadAs(S) = Named(id)
    BY <2>1, ReadAsOne
  <2>3. CASE id = value
    BY <1>3, <2>1, <2>2, <2>3, AnswersDiffer DEF TakeValue
  <2>4. CASE id # value
    <3>1. \A x \in Ids : S \cup {value} # {x}
      BY <2>1, <2>4
    <3>2. ReadAs(S \cup {value}) = Closed
      BY <3>1 DEF ReadAs
    <3> QED
      BY <1>3, <2>2, <2>4, <3>2, AnswersDiffer DEF TakeValue
  <2> QED
    BY <2>3, <2>4
<1>4. CASE value \in Ids /\ S # {} /\ ~ \E id \in Ids : S = {id}
  <2>1. ReadAs(S) = Closed
    BY <1>4 DEF ReadAs
  <2>2. \A x \in Ids : S \cup {value} # {x}
    BY <1>4
  <2>3. ReadAs(S \cup {value}) = Closed
    BY <2>2 DEF ReadAs
  <2> QED
    BY <2>1, <2>3 DEF TakeValue
<1> QED
  BY <1>1, <1>2, <1>3, <1>4

(* The values of a spelling; one that has none counts as one that is not    *)
(* valid.                                                                   *)
ValuesOf(spelling) ==
    IF spelling = <<>> THEN {Invalid} ELSE {spelling[i] : i \in 1 .. Len(spelling)}

(* One spelling more.                                                       *)
LEMMA TakeAll ==
    ASSUME NEW S \in SUBSET Values, NEW spelling \in Seq(Values)
    PROVE  TakeSpelling(ReadAs(S), spelling) = ReadAs(S \cup ValuesOf(spelling))
<1>1. CASE spelling = <<>>
  <2>1. \A id \in Ids : S \cup {Invalid} # {id}
    BY SessionHeadersAssumption
  <2> QED
    BY <1>1, <2>1 DEF TakeSpelling, ReadAs, ValuesOf
<1>2. CASE spelling # <<>>
  <2> DEFINE n == Len(spelling)
             Seen(k) == S \cup {spelling[i] : i \in 1 .. k}
  <2>1. n \in Nat /\ \A i \in 1 .. n : spelling[i] \in Values
    OBVIOUS
  <2>2. PICK g : /\ g[0] = ReadAs(S)
                 /\ \A i \in 1 .. n : g[i] = TakeValue(g[i - 1], spelling[i])
                 /\ g[n] = FoldLeft(TakeValue, ReadAs(S), spelling)
    BY ReadAsType, ValuesFold
  <2> HIDE DEF n
  <2> DEFINE T == {k \in 0 .. n : g[k] = ReadAs(Seen(k))}
  <2>3. 0 \in T
    <3>1. Seen(0) = S
      OBVIOUS
    <3> HIDE DEF Seen
    <3> QED
      BY <2>1, <2>2, <3>1
  <2>4. \A k \in 1 .. n : k - 1 \in T => k \in T
    <3> SUFFICES ASSUME NEW k \in 1 .. n, g[k - 1] = ReadAs(Seen(k - 1))
                 PROVE  g[k] = ReadAs(Seen(k))
      OBVIOUS
    <3>1. Seen(k) = Seen(k - 1) \cup {spelling[k]} /\ Seen(k - 1) \in SUBSET Values
      BY <2>1
    <3> HIDE DEF Seen
    <3> QED
      BY <2>1, <2>2, <3>1, TakeOne
  <2> HIDE DEF T
  <2>5. \A k \in 0 .. n : k \in T
    BY <2>1, <2>3, <2>4, UpTo
  <2>6. Seen(n) = S \cup ValuesOf(spelling)
    BY <1>2 DEF ValuesOf, n
  <2> QED
    BY <1>2, <2>1, <2>2, <2>5, <2>6 DEF T, TakeSpelling
<1> QED
  BY <1>1, <1>2

(* The scan of a header takes its spellings from the first to the last.     *)
LEMMA TakeSpellingType ==
    ASSUME NEW answer \in Answers, NEW spelling \in Seq(Values)
    PROVE  TakeSpelling(answer, spelling) \in Answers
<1>1. PICK g : /\ g \in [0 .. Len(spelling) -> Answers]
               /\ g[Len(spelling)] = FoldLeft(TakeValue, answer, spelling)
  BY ValuesFold
<1>2. g[Len(spelling)] \in Answers
  BY <1>1
<1>3. Closed \in Answers
  BY DEF Answers
<1> QED
  BY <1>1, <1>2, <1>3 DEF TakeSpelling

(* The scan over the spellings, step by step.                               *)
LEMMA SpellingsFold ==
    ASSUME NEW base \in Answers, NEW seq \in Spellings
    PROVE  \E g : /\ g \in [0 .. Len(seq) -> Answers]
                  /\ g[0] = base
                  /\ \A i \in 1 .. Len(seq) : g[i] = TakeSpelling(g[i - 1], seq[i])
                  /\ g[Len(seq)] = FoldLeft(TakeSpelling, base, seq)
<1> DEFINE n == Len(seq)
           step == [i \in 1 .. n |-> [a \in Answers |-> TakeSpelling(a, seq[i])]]
           Sat(f) == f = [s \in SUBSET DOMAIN seq |->
                             IF s = {} THEN base
                             ELSE TakeSpelling(f[s \ {Max(s)}], seq[Max(s)])]
           iter == CHOOSE f : Sat(f)
<1>1. n \in Nat /\ DOMAIN seq = 1 .. n /\ \A i \in 1 .. n : seq[i] \in Seq(Values)
  BY DEF Spellings
<1>2. FoldLeft(TakeSpelling, base, seq) = iter[DOMAIN seq]
  BY DEF FoldLeft, MapThenFoldSet
<1>3. step \in Steps(n, Answers)
  BY <1>1, TakeSpellingType DEF Steps
<1> HIDE DEF n
<1>4. \A i \in 1 .. n : \A a \in Answers : step[i][a] = TakeSpelling(a, seq[i])
  OBVIOUS
<1> HIDE DEF step
<1>5. \E f : Sat(f)
  <2>1. PICK g : IsSetLadder(g, n, Answers, base, step)
    BY <1>1, <1>3, SetLadder
  <2>2. ASSUME NEW s \in SUBSET (1 .. n)
        PROVE  g[s] = IF s = {} THEN base ELSE TakeSpelling(g[s \ {Max(s)}], seq[Max(s)])
    <3>1. s # {} => Max(s) \in 1 .. n
      BY <1>1, MaxIsElement
    <3>2. g[s \ {Max(s)}] \in Answers
      BY <2>1 DEF IsSetLadder
    <3> QED
      BY <1>4, <2>1, <3>1, <3>2 DEF IsSetLadder
  <2>3. Sat(g)
    BY <1>1, <2>1, <2>2 DEF IsSetLadder
  <2> QED
    BY <2>3
<1>6. Sat(iter)
  BY <1>5
<1> HIDE DEF iter
<1>7. /\ DOMAIN iter = SUBSET (1 .. n)
      /\ \A s \in SUBSET (1 .. n) :
            iter[s] = IF s = {} THEN base ELSE TakeSpelling(iter[s \ {Max(s)}], seq[Max(s)])
  BY <1>1, <1>6
<1> DEFINE g == [k \in 0 .. n |-> iter[1 .. k]]
<1>8. g[0] = base
  <2>1. 1 .. 0 = {} /\ {} \in SUBSET (1 .. n)
    OBVIOUS
  <2>2. iter[{}] = base
    BY <1>7
  <2> QED
    BY <1>1, <2>1, <2>2
<1>9. \A k \in 1 .. n : g[k] = TakeSpelling(g[k - 1], seq[k])
  <2> TAKE k \in 1 .. n
  <2>1. /\ 1 .. k \in SUBSET (1 .. n) /\ 1 .. k # {}
        /\ Max(1 .. k) = k /\ (1 .. k) \ {k} = 1 .. k - 1
    BY <1>1, UpToTop
  <2>2. iter[1 .. k] = TakeSpelling(iter[1 .. k - 1], seq[k])
    BY <1>7, <2>1
  <2>3. g[k] = iter[1 .. k] /\ g[k - 1] = iter[1 .. k - 1]
    BY <1>1
  <2> QED
    BY <2>2, <2>3
<1>10. g[n] = iter[1 .. n] /\ g = [k \in 0 .. n |-> g[k]]
  BY <1>1
<1> HIDE DEF g
<1>11. \A k \in 0 .. n : g[k] \in Answers
  <2> DEFINE T == {k \in 0 .. n : g[k] \in Answers}
  <2>1. 0 \in T
    BY <1>1, <1>8
  <2>2. \A k \in 1 .. n : k - 1 \in T => k \in T
    BY <1>1, <1>9, TakeSpellingType
  <2> HIDE DEF T
  <2>3. \A k \in 0 .. n : k \in T
    BY <1>1, <2>1, <2>2, UpTo
  <2> QED
    BY <2>3 DEF T
<1>12. g \in [0 .. n -> Answers]
  BY <1>10, <1>11
<1> QED
  BY <1>1, <1>2, <1>8, <1>9, <1>10, <1>12 DEF n

(* All the values of a header.                                              *)
AllValues(spellings) == UNION {ValuesOf(spellings[i]) : i \in DOMAIN spellings}

(* A scan answers what all the values it meets read as.                     *)
LEMMA ScanReads ==
    ASSUME NEW spellings \in Spellings
    PROVE  Scan(spellings) = ReadAs(AllValues(spellings))
<1> DEFINE n == Len(spellings)
           Seen(k) == UNION {ValuesOf(spellings[i]) : i \in 1 .. k}
<1>1. n \in Nat /\ DOMAIN spellings = 1 .. n /\ \A i \in 1 .. n : spellings[i] \in Seq(Values)
  BY DEF Spellings
<1>2. PICK g : /\ g[0] = Absent
               /\ \A i \in 1 .. n : g[i] = TakeSpelling(g[i - 1], spellings[i])
               /\ g[n] = Scan(spellings)
  <2>1. Absent \in Answers
    BY DEF Answers
  <2> QED
    BY <2>1, SpellingsFold DEF Scan
<1> HIDE DEF n
<1>3. \A i \in 1 .. n : ValuesOf(spellings[i]) \in SUBSET Values
  BY <1>1 DEF ValuesOf, Values
<1> DEFINE T == {k \in 0 .. n : g[k] = ReadAs(Seen(k))}
<1>4. 0 \in T
  <2>1. Seen(0) = {}
    OBVIOUS
  <2> HIDE DEF Seen
  <2> QED
    BY <1>1, <1>2, <2>1 DEF ReadAs
<1>5. \A k \in 1 .. n : k - 1 \in T => k \in T
  <2> SUFFICES ASSUME NEW k \in 1 .. n, g[k - 1] = ReadAs(Seen(k - 1))
               PROVE  g[k] = ReadAs(Seen(k))
    OBVIOUS
  <2>1. Seen(k) = Seen(k - 1) \cup ValuesOf(spellings[k]) /\ Seen(k - 1) \in SUBSET Values
    BY <1>1, <1>3
  <2> HIDE DEF Seen
  <2> QED
    BY <1>1, <1>2, <2>1, TakeAll
<1> HIDE DEF T
<1>6. \A k \in 0 .. n : k \in T
  BY <1>1, <1>4, <1>5, UpTo
<1>7. Seen(n) = AllValues(spellings)
  BY <1>1 DEF AllValues
<1> QED
  BY <1>1, <1>2, <1>6, <1>7 DEF T

(* What the spellings agree on is what their values read as.                *)
LEMMA AgreedReads ==
    ASSUME NEW spellings \in Spellings
    PROVE  Agreed(spellings) = ReadAs(AllValues(spellings))
<1> DEFINE values == UNION {ToSet(spellings[i]) : i \in DOMAIN spellings}
           V == AllValues(spellings)
<1>1. DOMAIN spellings = 1 .. Len(spellings) /\ \A i \in DOMAIN spellings : spellings[i] \in Seq(Values)
  BY DEF Spellings
<1>2. \A i \in DOMAIN spellings : ToSet(spellings[i]) = {spellings[i][j] : j \in 1 .. Len(spellings[i])}
  BY <1>1 DEF ToSet
<1>3. \A i \in DOMAIN spellings : ValuesOf(spellings[i]) # {}
  <2> TAKE i \in DOMAIN spellings
  <2>1. spellings[i] # <<>> => 1 \in 1 .. Len(spellings[i])
    BY <1>1
  <2> QED
    BY <2>1 DEF ValuesOf
<1>4. Agreed(spellings) = IF spellings = <<>> THEN Absent
                          ELSE IF /\ \A i \in DOMAIN spellings : spellings[i] # <<>>
                                  /\ \E id \in Ids : values = {id}
                               THEN Named(CHOOSE id \in Ids : values = {id})
                          ELSE Closed
  BY DEF Agreed
<1>5. CASE spellings = <<>>
  <2>1. V = {}
    BY <1>5 DEF AllValues
  <2> QED
    BY <1>4, <1>5, <2>1 DEF ReadAs
<1>6. CASE spellings # <<>>
  <2>1. V # {}
    <3>1. 1 \in DOMAIN spellings
      BY <1>1, <1>6 DEF Spellings
    <3> QED
      BY <1>3, <3>1 DEF AllValues
  <2>2. CASE \A i \in DOMAIN spellings : spellings[i] # <<>>
    <3>1. \A i \in DOMAIN spellings : ValuesOf(spellings[i]) = ToSet(spellings[i])
      BY <1>2, <2>2 DEF ValuesOf
    <3>2. V = values
      BY <3>1 DEF AllValues
    <3> HIDE DEF V, values
    <3> QED
      BY <1>4, <1>6, <2>1, <2>2, <3>2 DEF ReadAs, V
  <2>3. CASE ~ \A i \in DOMAIN spellings : spellings[i] # <<>>
    <3>1. Invalid \in V
      BY <2>3 DEF AllValues, ValuesOf
    <3>2. ~ \E id \in Ids : V = {id}
      BY <3>1, SessionHeadersAssumption
    <3> HIDE DEF V, values
    <3> QED
      BY <1>4, <1>6, <2>1, <2>3, <3>2 DEF ReadAs, V
  <2> QED
    BY <2>2, <2>3
<1> QED
  BY <1>5, <1>6

-----------------------------------------------------------------------------
(* Every order of the spellings has all of them, and there is one.          *)
LEMMA Orders ==
    ASSUME NEW n \in Nat
    PROVE  /\ SetToSeqs(1 .. n) # {}
           /\ \A order \in SetToSeqs(1 .. n) :
                 /\ order \in [1 .. n -> 1 .. n]
                 /\ \A j \in 1 .. n : \E i \in 1 .. n : order[i] = j
<1>1. IsFiniteSet(1 .. n) /\ Cardinality(1 .. n) = n
  BY FS_Interval
<1>2. SetToSeqs(1 .. n) = {f \in [1 .. n -> 1 .. n] : \A i, j \in 1 .. n : i # j => f[i] # f[j]}
  BY <1>1 DEF SetToSeqs
<1>3. [i \in 1 .. n |-> i] \in SetToSeqs(1 .. n)
  BY <1>2
<1>4. ASSUME NEW order \in SetToSeqs(1 .. n)
      PROVE  /\ order \in [1 .. n -> 1 .. n]
             /\ \A j \in 1 .. n : \E i \in 1 .. n : order[i] = j
  <2>1. order \in Injection(1 .. n, 1 .. n)
    BY <1>2 DEF Injection, IsInjective
  <2>2. order \in Surjection(1 .. n, 1 .. n)
    BY <1>1, <2>1, FS_Injection
  <2> QED
    BY <2>2 DEF Surjection
<1> QED
  BY <1>3, <1>4

(* So every order answers the same, and what the spellings agree on.        *)
LEMMA EveryOrderAgrees ==
    ASSUME NEW spellings \in Spellings
    PROVE  HeaderValue(spellings) = {Agreed(spellings)}
<1> DEFINE n == Len(spellings)
           Along(order) == [i \in 1 .. n |-> spellings[order[i]]]
<1>1. n \in Nat /\ DOMAIN spellings = 1 .. n /\ \A i \in 1 .. n : spellings[i] \in Seq(Values)
  BY DEF Spellings
<1>2. HeaderValue(spellings) = {Scan(Along(order)) : order \in SetToSeqs(1 .. n)}
  BY <1>1 DEF HeaderValue
<1> HIDE DEF n
<1>3. ASSUME NEW order \in SetToSeqs(1 .. n) PROVE Scan(Along(order)) = Agreed(spellings)
  <2>1. order \in [1 .. n -> 1 .. n] /\ \A j \in 1 .. n : \E i \in 1 .. n : order[i] = j
    BY <1>1, Orders
  <2>2. Along(order) \in Spellings /\ DOMAIN Along(order) = 1 .. n
    BY <1>1, <2>1 DEF Spellings
  <2>3. \A i \in 1 .. n : Along(order)[i] = spellings[order[i]]
    OBVIOUS
  <2> HIDE DEF Along
  <2>4. AllValues(Along(order)) = AllValues(spellings)
    BY <1>1, <2>1, <2>2, <2>3 DEF AllValues
  <2> QED
    BY <2>2, <2>4, ScanReads, AgreedReads
<1>4. SetToSeqs(1 .. n) # {}
  BY <1>1, Orders
<1> QED
  BY <1>2, <1>3, <1>4

-----------------------------------------------------------------------------
(* What the sources of a request say, and which of them are sent at all.    *)
Said(sources) == [i \in 1 .. NumSources |-> Agreed(sources[i])]
Sent(sources) == {i \in 1 .. NumSources : sources[i] # <<>>}

-----------------------------------------------------------------------------
(* The first of a set of places is one of them and before all others.       *)
LEMMA FirstIsLeast ==
    ASSUME NEW T \in SUBSET Nat, T # {}
    PROVE  First(T) \in T /\ \A j \in T : First(T) <= j
BY LeastNumber DEF First

(* What a header agrees on: an answer, present exactly if the header is     *)
(* sent, with an identity unless it is absent or closed.                    *)
LEMMA AgreedFacts ==
    ASSUME NEW h
    PROVE  /\ Agreed(h).present \in BOOLEAN
           /\ Agreed(h).present <=> h # <<>>
           /\ Agreed(h).id \in Ids \cup {NoId}
           /\ Agreed(h) = Closed <=> h # <<>> /\ Agreed(h).id = NoId
           /\ Agreed(h) = Absent <=> h = <<>>
           /\ h = <<>> => Agreed(h).id = NoId
<1> DEFINE values == UNION {ToSet(h[i]) : i \in DOMAIN h}
           whole == /\ \A i \in DOMAIN h : h[i] # <<>>
                    /\ \E id \in Ids : values = {id}
<1>1. Agreed(h) = IF h = <<>> THEN Absent
                  ELSE IF whole THEN Named(CHOOSE id \in Ids : values = {id}) ELSE Closed
  BY DEF Agreed
<1>2. whole => (CHOOSE id \in Ids : values = {id}) \in Ids
  OBVIOUS
<1> DEFINE one == CHOOSE id \in Ids : values = {id}
<1>3. /\ Absent.present = FALSE /\ Absent.id = NoId
      /\ Closed.present = TRUE /\ Closed.id = NoId
      /\ Named(one).present = TRUE /\ Named(one).id = one
  BY DEF Absent, Closed, Named
<1> HIDE DEF values, whole, one
<1>4. CASE h = <<>>
  BY <1>1, <1>3, <1>4
<1>5. CASE h # <<>> /\ whole
  <2>1. Agreed(h) = Named(one) /\ one \in Ids
    BY <1>1, <1>2, <1>5 DEF one
  <2>2. one # NoId
    BY <2>1, SessionHeadersAssumption
  <2> QED
    BY <1>3, <1>5, <2>1, <2>2
<1>6. CASE h # <<>> /\ ~whole
  BY <1>1, <1>3, <1>6
<1> QED
  BY <1>4, <1>5, <1>6

(* Every header a request or a pass can hold reads, in every order of its   *)
(* spellings, as what they agree on: one that a client sends, or the one    *)
(* that the plugin has set before.                                          *)
LEMMA HeadersAgree ==
    \A h \in Headers \cup {<< <<id>> >> : id \in Ids} : HeaderValue(h) = {Agreed(h)}
<1> SUFFICES ASSUME NEW h \in Headers \cup {<< <<id>> >> : id \in Ids}
             PROVE  h \in Spellings
  BY EveryOrderAgrees
<1>1. CASE h \in Headers
  BY <1>1, HeadersAssumption DEF Spellings, Values
<1>2. ASSUME NEW id \in Ids PROVE << <<id>> >> \in Spellings
  <2>1. <<id>> \in Seq(Values)
    BY DEF Values
  <2> QED
    BY <2>1 DEF Spellings
<1> QED
  BY <1>1, <1>2

(* The scan of the sources has one result.                                  *)
LEMMA ReadingsAgree ==
    ASSUME NEW sources \in [1 .. NumSources -> Headers],
           NEW r \in Readings(sources)
    PROVE  r = Said(sources)
<1> DEFINE values == [i \in 1 .. NumSources |-> HeaderValue(sources[i])]
<1>1. DOMAIN sources = 1 .. NumSources
  OBVIOUS
<1>2. /\ r \in [1 .. NumSources -> UNION {values[i] : i \in 1 .. NumSources}]
      /\ \A i \in 1 .. NumSources : r[i] \in values[i]
  BY <1>1 DEF Readings
<1>3. \A i \in 1 .. NumSources : values[i] = {Agreed(sources[i])}
  BY HeadersAgree
<1>4. \A i \in 1 .. NumSources : r[i] = Agreed(sources[i])
  BY <1>2, <1>3
<1> HIDE DEF values
<1> QED
  BY <1>2, <1>4 DEF Said

(* mapSessionHeaders and stickyDownstreamID, for what the sources say.      *)
LEMMA MappedOfSaid ==
    ASSUME NEW sources, NEW own, NEW canonical
    PROVE  Mapped(own, Said(sources), canonical) =
               IF own.present THEN NoId
               ELSE IF Sent(sources) # {} THEN Agreed(sources[First(Sent(sources))]).id
               ELSE SessionFallback(canonical)
<1> DEFINE there == {i \in DOMAIN Said(sources) : Said(sources)[i].present}
<1>1. there = Sent(sources)
  BY AgreedFacts DEF Said, Sent
<1>2. Sent(sources) # {} => First(Sent(sources)) \in 1 .. NumSources
  BY FirstIsLeast, GatewayAssumption DEF Sent
<1>3. Sent(sources) # {} =>
          Said(sources)[First(Sent(sources))] = Agreed(sources[First(Sent(sources))])
  BY <1>2 DEF Said
<1>4. Mapped(own, Said(sources), canonical) =
          IF own.present THEN NoId
          ELSE IF there # {} THEN Said(sources)[First(there)].id
          ELSE SessionFallback(canonical)
  BY DEF Mapped
<1> HIDE DEF there
<1> QED
  BY <1>1, <1>3, <1>4

NamedIn(sources) == {i \in 1 .. NumSources : Agreed(sources[i]).id # NoId}

LEMMA DownstreamOfSaid ==
    ASSUME NEW sources, NEW canonical
    PROVE  Downstream(Said(sources), canonical) =
               IF NamedIn(sources) # {} THEN Agreed(sources[First(NamedIn(sources))]).id
               ELSE SessionFallback(canonical)
<1> DEFINE named == {i \in DOMAIN Said(sources) : Said(sources)[i].id # NoId}
<1>1. named = NamedIn(sources)
  BY DEF Said, NamedIn
<1>2. NamedIn(sources) # {} => First(NamedIn(sources)) \in 1 .. NumSources
  BY FirstIsLeast, GatewayAssumption DEF NamedIn
<1>3. NamedIn(sources) # {} =>
          Said(sources)[First(NamedIn(sources))] = Agreed(sources[First(NamedIn(sources))])
  BY <1>2 DEF Said
<1>4. Downstream(Said(sources), canonical) =
          IF named # {} THEN Said(sources)[First(named)].id ELSE SessionFallback(canonical)
  BY DEF Downstream
<1> HIDE DEF named
<1> QED
  BY <1>1, <1>3, <1>4

LEMMA FallbackType == \A canonical : SessionFallback(canonical) \in Ids \cup {NoId}
  BY DEF SessionFallback

(* Both scans yield an identity or none.                                    *)
LEMMA IdentityTypes ==
    ASSUME NEW sources, NEW own, NEW canonical
    PROVE  /\ Mapped(own, Said(sources), canonical) \in Ids \cup {NoId}
           /\ Downstream(Said(sources), canonical) \in Ids \cup {NoId}
  BY MappedOfSaid, DownstreamOfSaid, FallbackType, AgreedFacts

(* When the header scan names a conversation, the sticky scan names the     *)
(* same.                                                                    *)
LEMMA SameIdentity ==
    ASSUME NEW sources, NEW own, NEW canonical,
           Mapped(own, Said(sources), canonical) # NoId
    PROVE  Downstream(Said(sources), canonical) = Mapped(own, Said(sources), canonical)
<1> DEFINE S == Sent(sources)
           N == NamedIn(sources)
<1>1. N \subseteq S
  BY AgreedFacts DEF Sent, NamedIn
<1>2. S \in SUBSET Nat /\ N \in SUBSET Nat
  BY GatewayAssumption DEF Sent, NamedIn
<1>3. CASE S = {}
  BY <1>1, <1>3, MappedOfSaid, DownstreamOfSaid
<1>4. CASE S # {}
  <2>1. Mapped(own, Said(sources), canonical) = Agreed(sources[First(S)]).id
    BY <1>4, MappedOfSaid
  <2>2. First(S) \in S /\ \A j \in S : First(S) <= j
    BY <1>2, <1>4, FirstIsLeast
  <2>3. First(S) \in N
    BY <2>1, <2>2 DEF Sent, NamedIn
  <2>4. First(N) \in N /\ \A j \in N : First(N) <= j
    BY <1>2, <2>3, FirstIsLeast
  <2>5. First(S) <= First(N) /\ First(N) <= First(S)
    BY <1>1, <2>2, <2>3, <2>4
  <2>6. First(S) = First(N)
    <3>1. First(S) \in Nat /\ First(N) \in Nat
      BY <1>2, <2>2, <2>4
    <3> HIDE DEF S, N
    <3> QED
      BY <2>5, <3>1
  <2> QED
    BY <2>1, <2>3, <2>6, DownstreamOfSaid
<1> QED
  BY <1>3, <1>4

-----------------------------------------------------------------------------
(* While a request is on its way the host holds one that was sent.          *)
InHand == pc # "idle" => req \in Requests

TypeInv == TypeOK /\ InHand

LEMMA RequestTypes ==
    ASSUME NEW r \in Requests
    PROVE  /\ r.sources \in [1 .. NumSources -> Headers]
           /\ r.own \in Headers /\ r.model \in Models
           /\ r.pin \in Sessions \cup {NoSession}
           /\ r.canonical \in Ids \cup {NoId, Invalid}
           /\ r.door \in {"direct", "abi"} /\ r.large \in BOOLEAN
  BY RequestsAssumption DEF RequestType

(* What a pass does to X-Opencode-Session: what mapSessionHeaders answers,  *)
(* if mapping is on and it answers anything.                                *)
LEMMA MapStep ==
    ASSUME NEW canonical, req.sources \in [1 .. NumSources -> Headers],
           OwnHeader \in Headers \cup {<< <<id>> >> : id \in Ids},
           MapHeaders(canonical)
    PROVE  LET id == Mapped(Agreed(OwnHeader), Said(req.sources), canonical)
           IN  \/ forwarded' = forwarded
               \/ /\ plugin.cfg.mapping /\ id # NoId /\ forwarded' = id
<1>1. CASE ~plugin.cfg.mapping
  BY <1>1 DEF MapHeaders
<1>2. CASE plugin.cfg.mapping
  <2>1. PICK own \in HeaderValue(OwnHeader), r \in Readings(req.sources) :
            LET id == Mapped(own, r, canonical)
            IN  forwarded' = IF id # NoId THEN id ELSE forwarded
    BY <1>2 DEF MapHeaders
  <2>2. own = Agreed(OwnHeader)
    BY HeadersAgree
  <2>3. r = Said(req.sources)
    BY ReadingsAgree
  <2> QED
    BY <1>2, <2>1, <2>2, <2>3
<1> QED
  BY <1>1, <1>2

(* What a pass does to the stamp: nothing, or it binds the conversation the *)
(* sources name, which is one, to what assign answers.                      *)
LEMMA BindStep ==
    ASSUME NEW canonical, req.sources \in [1 .. NumSources -> Headers],
           Bind(canonical)
    PROVE  LET id == Downstream(Said(req.sources), canonical)
           IN  \/ UNCHANGED <<stamp, bound>> /\ (~VisiblyFree \/ id = NoId)
               \/ /\ VisiblyFree /\ id \in Ids
                  /\ \E s \in Sessions \cup {NoSession} :
                        /\ Assigned(pool, Home[id], now, s)
                        /\ stamp' = IF s # NoSession THEN s ELSE stamp
                        /\ bound' = [id |-> id, session |-> s, by |-> plugin.number,
                                     usable |-> UsableSet(pool, now)]
<1> DEFINE id == Downstream(Said(req.sources), canonical)
<1>1. CASE ~VisiblyFree
  BY <1>1 DEF Bind
<1>2. CASE VisiblyFree
  <2>1. PICK x \in StickyId(canonical) :
            IF x = NoId THEN UNCHANGED <<stamp, bound>>
            ELSE \E s \in Sessions \cup {NoSession} :
                    /\ Assigned(pool, Home[x], now, s)
                    /\ stamp' = IF s # NoSession THEN s ELSE stamp
                    /\ bound' = [id |-> x, session |-> s, by |-> plugin.number,
                                 usable |-> UsableSet(pool, now)]
    BY <1>2 DEF Bind
  <2>2. PICK r \in Readings(req.sources) : x = Downstream(r, canonical)
    BY DEF StickyId
  <2>3. x = id
    BY <2>2, ReadingsAgree
  <2>4. id \in Ids \cup {NoId}
    BY IdentityTypes
  <2>5. CASE id = NoId
    BY <2>1, <2>3, <2>5
  <2>6. CASE id # NoId
    <3>1. id \in Ids
      BY <2>4, <2>6
    <3>2. \E s \in Sessions \cup {NoSession} :
              /\ Assigned(pool, Home[id], now, s)
              /\ stamp' = IF s # NoSession THEN s ELSE stamp
              /\ bound' = [id |-> id, session |-> s, by |-> plugin.number,
                           usable |-> UsableSet(pool, now)]
      BY <2>1, <2>3, <2>6
    <3> QED
      BY <1>2, <3>1, <3>2
  <2> QED
    BY <2>5, <2>6
<1> QED
  BY <1>1, <1>2

(* A pass sets only the two headers and the history of bindings, to values  *)
(* of their types.                                                          *)
LEMMA OwnHeaderType ==
    ASSUME TypeOK, req \in Requests
    PROVE  OwnHeader \in Headers \cup {<< <<id>> >> : id \in Ids}
  BY RequestTypes DEF OwnHeader, TypeOK

LEMMA PassTypes ==
    ASSUME TypeOK, req \in Requests, NEW canonical, Pass(canonical)
    PROVE  /\ forwarded' \in Ids \cup {NoId}
           /\ stamp' \in Sessions \cup {NoSession}
           /\ bound' \in [id : Ids \cup {NoId}, session : Sessions \cup {NoSession},
                           by : 0 .. MaxRegisters + 1, usable : SUBSET Sessions]
<1>1. CASE Refused
  BY <1>1 DEF Pass, TypeOK
<1>2. CASE ~Refused
  <2>1. MapHeaders(canonical) /\ Bind(canonical)
    BY <1>2 DEF Pass
  <2>2. req.sources \in [1 .. NumSources -> Headers]
    BY RequestTypes
  <2>3. forwarded' \in Ids \cup {NoId}
    <3>1. OwnHeader \in Headers \cup {<< <<id>> >> : id \in Ids}
      BY OwnHeaderType
    <3>2. \/ forwarded' = forwarded
          \/ forwarded' = Mapped(Agreed(OwnHeader), Said(req.sources), canonical)
      BY <2>1, <2>2, <3>1, MapStep
    <3> QED
      BY <3>2, IdentityTypes DEF TypeOK
  <2>4. plugin.number \in 0 .. MaxRegisters + 1
    BY GatewayAssumption DEF TypeOK, None, Instances
  <2>5. UsableSet(pool, now) \in SUBSET Sessions
    BY DEF UsableSet
  <2>6. CASE UNCHANGED <<stamp, bound>>
    BY <2>3, <2>6 DEF TypeOK
  <2>7. CASE ~ UNCHANGED <<stamp, bound>>
    <3> DEFINE id == Downstream(Said(req.sources), canonical)
    <3>1. PICK s \in Sessions \cup {NoSession} :
              /\ id \in Ids
              /\ stamp' = IF s # NoSession THEN s ELSE stamp
              /\ bound' = [id |-> id, session |-> s, by |-> plugin.number,
                           usable |-> UsableSet(pool, now)]
      BY <2>1, <2>2, <2>7, BindStep
    <3> HIDE DEF id
    <3> QED
      BY <2>3, <2>4, <2>5, <3>1 DEF TypeOK
  <2> QED
    BY <2>6, <2>7
<1> QED
  BY <1>1, <1>2

LEMMA InitTypes == Init => TypeInv
<1> SUFFICES ASSUME Init PROVE TypeInv
  OBVIOUS
<1>1. plugin \in Instances
  <2>1. 1 \in 1 .. MaxRegisters + 1
    BY GatewayAssumption
  <2> QED
    BY <2>1 DEF Init, Instances
<1>2. pool \in [Sessions -> Health]
  BY DEF Init, Fresh, Health
<1>3. bound \in [id : Ids \cup {NoId}, session : Sessions \cup {NoSession},
                 by : 0 .. MaxRegisters + 1, usable : SUBSET Sessions]
  BY GatewayAssumption DEF Init, Unbound
<1> QED
  BY <1>1, <1>2, <1>3, GatewayAssumption DEF Init, TypeInv, TypeOK, InHand

LEMMA NextTypes ==
    ASSUME TypeInv, [Next]_vars
    PROVE  TypeInv'
<1> USE GatewayAssumption DEF TypeInv, InHand
<1>1. ASSUME NEW r \in Requests, Arrive(r) PROVE TypeInv'
  BY <1>1, RequestTypes DEF Arrive, pluginVars, TypeOK
<1>2. CASE Route
  BY <1>2 DEF Route, Leave, pluginVars, TypeOK, Instances, None
<1>3. CASE Before
  <2>1. req \in Requests /\ Pass(NoId) /\ pc' = "after"
    BY <1>3 DEF Before
  <2> QED
    BY <2>1, PassTypes DEF Pass, pluginVars, TypeOK
<1>4. CASE After
  <2>1. req \in Requests /\ Pass(req.canonical) /\ pc' = "execute"
    BY <1>4 DEF After
  <2> QED
    BY <2>1, PassTypes DEF Pass, pluginVars, TypeOK
<1>5. CASE Execute
  BY <1>5 DEF Execute, Leave, pluginVars, TypeOK
<1>6. ASSUME NEW c \in Configs, RegisterBuild(c) PROVE TypeInv'
  <2>1. built \in 0 .. MaxRegisters /\ built < MaxRegisters
    BY <1>6 DEF RegisterBuild, TypeOK
  <2>2. built + 1 \in 0 .. MaxRegisters /\ built + 2 \in 1 .. MaxRegisters + 1
    BY <2>1
  <2>3. [number |-> built + 2, cfg |-> c] \in Instances
    BY <2>2 DEF Instances
  <2> QED
    BY <1>6, <2>2, <2>3 DEF RegisterBuild, requestVars, TypeOK
<1>7. ASSUME NEW i \in builds, NEW file \in {pool, Fresh}, RegisterStore(i, file)
      PROVE  TypeInv'
  <2>1. file \in [Sessions -> Health]
    BY DEF Fresh, Health, TypeOK
  <2> QED
    BY <1>7, <2>1 DEF RegisterStore, requestVars, TypeOK
<1>8. CASE Shutdown
  BY <1>8 DEF Shutdown, requestVars, TypeOK
<1>9. ASSUME NEW s \in Sessions, NEW ok \in BOOLEAN, NEW cooldown \in Nat,
             OtherReports(s, ok, cooldown)
      PROVE  TypeInv'
  <2>1. pool[s].fails \in Nat /\ pool[s].until \in Nat /\ now \in Nat
    BY DEF TypeOK, Health
  <2>2. Reported(pool[s], ok, cooldown, now) \in Health
    BY <2>1 DEF Reported, Health
  <2>3. pool' \in [Sessions -> Health]
    BY <1>9, <2>2 DEF OtherReports, Report, TypeOK
  <2> QED
    BY <1>9, <2>3 DEF OtherReports, requestVars, TypeOK
<1>10. CASE Tick
  <2>1. now + 1 \in 0 .. MaxTime
    BY <1>10 DEF Tick, TypeOK
  <2> QED
    BY <1>10, <2>1 DEF Tick, requestVars, TypeOK
<1>11. CASE UNCHANGED vars
  BY <1>11 DEF vars, TypeOK
<1> QED
  BY <1>1, <1>2, <1>3, <1>4, <1>5, <1>6, <1>7, <1>8, <1>9, <1>10, <1>11 DEF Next

(* The types of the variables: the headers of a request that is on its way  *)
(* hold identities and sessions only, whatever its client has sent.         *)
THEOREM TypeCorrect == Spec => []TypeOK
<1>1. TypeInv /\ [Next]_vars => TypeInv'
  BY NextTypes
<1>2. TypeInv => TypeOK
  BY DEF TypeInv
<1> QED
  BY InitTypes, <1>1, <1>2, PTL DEF Spec

(* A header reads the same in every order of the map, for any number of     *)
(* spellings and values: sessionHeaderValue never chooses between them.     *)
THEOREM OrderIrrelevant == Spec => []ScanOrderIrrelevant
<1>1. ASSUME TypeInv PROVE ScanOrderIrrelevant
  <2> SUFFICES ASSUME pc = "route",
                      NEW h \in {req.sources[i] : i \in 1 .. NumSources} \cup {req.own}
               PROVE  HeaderValue(h) = {Agreed(h)}
    BY DEF ScanOrderIrrelevant
  <2>1. req \in Requests
    BY <1>1 DEF TypeInv, InHand
  <2>2. req.sources \in [1 .. NumSources -> Headers] /\ req.own \in Headers
    BY <2>1, RequestTypes
  <2>3. h \in Headers
    BY <2>2
  <2> QED
    BY <2>3, HeadersAgree
<1>2. TypeInv /\ [Next]_vars => TypeInv'
  BY NextTypes
<1> QED
  BY InitTypes, <1>1, <1>2, PTL DEF Spec

-----------------------------------------------------------------------------
(* Where the instances are.  Each has a number of its own; the one that     *)
(* claimed the model of the request at hand is never built again, so if the *)
(* current instance has its number it has its configuration.                *)
PathInv ==
    /\ plugin \in {None} \cup Instances /\ builds \subseteq Instances
    /\ built \in Nat /\ routed \in Nat
    /\ plugin.number <= built + 1 /\ routed <= built + 1
    /\ \A i \in builds : /\ i.number <= built + 1
                         /\ i.number # plugin.number /\ i.number # routed
    /\ \A i, j \in builds : i.number = j.number => i = j
    /\ pc \in {"before", "after", "execute"} => routed # 0
    /\ routed # 0 /\ plugin.number = routed =>
           plugin # None /\ req.model \in Claimed(plugin.cfg)

LEMMA NumberTypes ==
    /\ None.number = 0
    /\ \A i \in Instances : /\ i.number \in 1 .. MaxRegisters + 1 /\ i.cfg \in Configs
                            /\ i # None
  BY GatewayAssumption DEF None, Instances

LEMMA PathStep ==
    ASSUME PathInv, [Next]_vars
    PROVE  PathInv'
<1> USE NumberTypes, GatewayAssumption DEF PathInv
<1>1. ASSUME NEW r \in Requests, Arrive(r) PROVE PathInv'
  BY <1>1 DEF Arrive, pluginVars
<1>2. CASE Route
  BY <1>2 DEF Route, Leave, pluginVars
<1>3. CASE Before \/ After
  BY <1>3 DEF Before, After, Pass, pluginVars
<1>4. CASE Execute
  BY <1>4 DEF Execute, Leave, pluginVars
<1>5. ASSUME NEW c \in Configs, RegisterBuild(c) PROVE PathInv'
  <2> DEFINE new == [number |-> built + 2, cfg |-> c]
  <2>1. built + 2 \in 1 .. MaxRegisters + 1
    BY <1>5 DEF RegisterBuild
  <2>2. new \in Instances /\ new.number = built + 2
    BY <2>1 DEF Instances
  <2>3. builds' = builds \cup {new} /\ built' = built + 1 /\ UNCHANGED <<plugin, pc, req, routed>>
    BY <1>5 DEF RegisterBuild, requestVars
  <2> HIDE DEF new
  <2>4. /\ built' \in Nat /\ plugin'.number <= built' + 1 /\ routed' <= built' + 1
        /\ builds' \subseteq Instances
    BY <2>2, <2>3
  <2>5. \A i \in builds' : /\ i.number <= built' + 1
                           /\ i.number # plugin'.number /\ i.number # routed'
    BY <2>2, <2>3
  <2>6. \A i, j \in builds' : i.number = j.number => i = j
    BY <2>2, <2>3
  <2> QED
    BY <2>3, <2>4, <2>5, <2>6
<1>6. ASSUME NEW i \in builds, NEW file, RegisterStore(i, file) PROVE PathInv'
  BY <1>6 DEF RegisterStore, requestVars
<1>7. CASE Shutdown
  BY <1>7 DEF Shutdown, requestVars
<1>8. ASSUME NEW s \in Sessions, NEW ok, NEW cooldown, OtherReports(s, ok, cooldown)
      PROVE  PathInv'
  BY <1>8 DEF OtherReports, requestVars
<1>9. CASE Tick
  BY <1>9 DEF Tick, requestVars
<1>10. CASE UNCHANGED vars
  BY <1>10 DEF vars
<1> QED
  BY <1>1, <1>2, <1>3, <1>4, <1>5, <1>6, <1>7, <1>8, <1>9, <1>10 DEF Next

LEMMA PathInit == Init => PathInv
<1> SUFFICES ASSUME Init PROVE PathInv
  OBVIOUS
<1>1. plugin \in Instances /\ plugin.number = 1
  <2>1. 1 \in 1 .. MaxRegisters + 1
    BY GatewayAssumption
  <2> QED
    BY <2>1 DEF Init, Instances
<1> QED
  BY <1>1 DEF Init, PathInv

(* A request that one instance hijacks and serves goes where its model      *)
(* belongs, however many instances come and go in between; nothing is       *)
(* assumed of the headers.                                                  *)
THEOREM PathGiven == Spec => HijackedHasPath
<1> DEFINE Given == (pc = "execute" /\ pc' # pc /\ plugin # None /\ plugin.number = routed)
          => (\/ outcome' = "free" /\ plugin.cfg.freeOn /\ req.model \in plugin.cfg.free
              \/ outcome' = "paid" /\ req.model \in plugin.cfg.paid)
<1>1. ASSUME PathInv, [Next]_vars PROVE [Given]_vars
  <2> SUFFICES ASSUME pc = "execute", pc' # pc, plugin # None, plugin.number = routed
               PROVE  \/ outcome' = "free" /\ plugin.cfg.freeOn /\ req.model \in plugin.cfg.free
                      \/ outcome' = "paid" /\ req.model \in plugin.cfg.paid
    OBVIOUS
  <2>1. Execute
    BY <1>1 DEF Next, Arrive, Route, Before, After, RegisterBuild, RegisterStore, Shutdown,
                OtherReports, Tick, requestVars, vars
  <2>2. outcome' = IF FreeEntry(plugin.cfg, req.model) THEN "free" ELSE "paid"
    BY <2>1 DEF Execute, Leave
  <2>3. req.model \in Claimed(plugin.cfg)
    BY <1>1 DEF PathInv
  <2> QED
    BY <2>2, <2>3 DEF Claimed, FreeEntry
<1>2. PathInv /\ [Next]_vars => PathInv'
  BY PathStep
<1>3. Spec => [][Given]_vars
  BY PathInit, <1>1, <1>2, PTL DEF Spec
<1> QED
  BY <1>3 DEF HijackedHasPath

-----------------------------------------------------------------------------
(* A step that changes the last binding is a pass that binds the            *)
(* conversation its request names.                                          *)
Binds(canonical, s) ==
    LET id == Downstream(Said(req.sources), canonical)
    IN  /\ id \in Ids
        /\ Assigned(pool, Home[id], now, s)
        /\ stamp' = IF s # NoSession THEN s ELSE stamp
        /\ bound' = [id |-> id, session |-> s, by |-> plugin.number,
                     usable |-> UsableSet(pool, now)]

LEMMA BoundByPass ==
    ASSUME TypeInv, [Next]_vars, bound' # bound
    PROVE  \E canonical, s : /\ (Before /\ canonical = NoId) \/ (After /\ canonical = req.canonical)
                             /\ ~Refused /\ req \in Requests
                             /\ s \in Sessions \cup {NoSession} /\ Binds(canonical, s)
<1>1. Before \/ After
  BY DEF Next, Arrive, Route, Execute, RegisterBuild, RegisterStore, Shutdown,
         OtherReports, Tick, requestVars, vars
<1>2. req \in Requests
  BY <1>1 DEF Before, After, TypeInv, InHand
<1>3. req.sources \in [1 .. NumSources -> Headers]
  BY <1>2, RequestTypes
<1>4. ASSUME NEW canonical, Pass(canonical)
      PROVE  ~Refused /\ \E s \in Sessions \cup {NoSession} : Binds(canonical, s)
  <2>1. ~Refused /\ Bind(canonical)
    BY <1>4 DEF Pass
  <2> QED
    BY <1>3, <2>1, BindStep DEF Binds
<1>5. CASE Before
  BY <1>2, <1>4, <1>5 DEF Before
<1>6. CASE After
  BY <1>2, <1>4, <1>6 DEF After
<1> QED
  BY <1>1, <1>5, <1>6

(* The last binding went to the first session, from the conversation's      *)
(* place on, of those that were usable.                                     *)
FirstFrom(id, s, usable) ==
    \E k \in 0 .. NumSessions - 1 :
        /\ s = (Home[id] + k) % NumSessions
        /\ \A j \in 0 .. k - 1 : (Home[id] + j) % NumSessions \notin usable

StayInv ==
    /\ bound.session \in Sessions =>
           bound.id \in Ids /\ FirstFrom(bound.id, bound.session, bound.usable)
    /\ bound.usable \subseteq Sessions

LEMMA AssignedIsFirst ==
    ASSUME NEW id \in Ids, NEW s \in Sessions, Assigned(pool, Home[id], now, s)
    PROVE  s \in UsableSet(pool, now) /\ FirstFrom(id, s, UsableSet(pool, now))
<1>1. s # NoSession
  BY SessionPoolAssumption DEF Sessions, NoSession
<1> QED
  BY <1>1 DEF Assigned, FirstUsable, FirstFrom, UsableSet

LEMMA AssignedIfAny ==
    ASSUME NEW id \in Ids, NEW s \in Sessions \cup {NoSession},
           Assigned(pool, Home[id], now, s), UsableSet(pool, now) # {}
    PROVE  s \in Sessions /\ s # NoSession
<1>1. NoSession \notin Sessions
  BY SessionPoolAssumption DEF Sessions, NoSession
<1>2. s # NoSession
  <2>1. Home[id] \in Nat
    BY GatewayAssumption DEF Sessions
  <2> QED
    BY <2>1, FruitlessScan DEF UsableSet, Assigned
<1>3. PICK k \in 0 .. NumSessions - 1 : s = (Home[id] + k) % NumSessions
  BY <1>2 DEF Assigned, FirstUsable
<1>4. Home[id] \in Sessions
  BY GatewayAssumption
<1>5. s \in Nat
  BY <1>3, <1>4, SessionPoolAssumption DEF Sessions
<1> QED
  BY <1>1, <1>5 DEF NoSession

(* Two scans from one place, the second over fewer sessions: if the first   *)
(* one's answer is still usable, it is the answer of the second.            *)
LEMMA FirstStaysFirst ==
    ASSUME NEW id \in Ids, NEW s, NEW t, NEW U, NEW V \in SUBSET U,
           FirstFrom(id, s, U), s \in V, FirstFrom(id, t, V), t \in V
    PROVE  s = t
<1>1. PICK k \in 0 .. NumSessions - 1 :
          /\ s = (Home[id] + k) % NumSessions
          /\ \A j \in 0 .. k - 1 : (Home[id] + j) % NumSessions \notin U
  BY DEF FirstFrom
<1>2. PICK l \in 0 .. NumSessions - 1 :
          /\ t = (Home[id] + l) % NumSessions
          /\ \A j \in 0 .. l - 1 : (Home[id] + j) % NumSessions \notin V
  BY DEF FirstFrom
<1>3. ~ (l < k)
  BY <1>1, <1>2
<1>4. ~ (k < l)
  BY <1>1, <1>2
<1>5. k = l
  BY <1>3, <1>4
<1> QED
  BY <1>1, <1>2, <1>5

LEMMA StayStep ==
    ASSUME TypeInv, StayInv, [Next]_vars
    PROVE  StayInv'
<1>1. CASE bound' = bound
  BY <1>1 DEF StayInv, FirstFrom
<1>2. CASE bound' # bound
  <2>1. PICK canonical, s : s \in Sessions \cup {NoSession} /\ Binds(canonical, s)
    BY <1>2, BoundByPass
  <2> DEFINE id == Downstream(Said(req.sources), canonical)
  <2>2. /\ id \in Ids /\ Assigned(pool, Home[id], now, s)
        /\ bound' = [id |-> id, session |-> s, by |-> plugin.number,
                     usable |-> UsableSet(pool, now)]
    BY <2>1 DEF Binds
  <2> HIDE DEF id
  <2>3. bound'.id = id /\ bound'.session = s /\ bound'.usable = UsableSet(pool, now)
    BY <2>2
  <2>4. s \in Sessions => FirstFrom(id, s, UsableSet(pool, now))
    BY <2>2, AssignedIsFirst
  <2> QED
    BY <2>2, <2>3, <2>4 DEF StayInv, FirstFrom, UsableSet
<1> QED
  BY <1>1, <1>2

(* A conversation is moved only by the death of its session or the return   *)
(* of one before it: the death of any others, in any number, leaves it.     *)
THEOREM ConversationStays == Spec => StaysPut
<1> DEFINE Stays ==
        (/\ bound'.id = bound.id /\ bound'.by = bound.by
         /\ bound.session \in bound'.usable
         /\ bound'.usable \subseteq bound.usable)
          => bound'.session = bound.session
<1>1. ASSUME TypeInv, StayInv, [Next]_vars PROVE [Stays]_vars
  <2> SUFFICES ASSUME bound'.id = bound.id, bound.session \in bound'.usable,
                      bound'.usable \subseteq bound.usable, bound' # bound
               PROVE  bound'.session = bound.session
    OBVIOUS
  <2>1. PICK canonical, s : s \in Sessions \cup {NoSession} /\ Binds(canonical, s)
    BY <1>1, BoundByPass
  <2> DEFINE id == Downstream(Said(req.sources), canonical)
             V == UsableSet(pool, now)
  <2>2. /\ id \in Ids /\ Assigned(pool, Home[id], now, s)
        /\ bound' = [id |-> id, session |-> s, by |-> plugin.number, usable |-> V]
    BY <2>1 DEF Binds
  <2> HIDE DEF id
  <2>3. bound'.id = id /\ bound'.session = s /\ bound'.usable = V
    BY <2>2
  <2>4. bound.session \in V /\ V \in SUBSET bound.usable /\ bound.id = id
    BY <2>3
  <2>5. bound.session \in Sessions /\ FirstFrom(id, bound.session, bound.usable)
    BY <1>1, <2>4 DEF StayInv, UsableSet
  <2>6. s \in Sessions
    BY <2>1, <2>2, <2>4, AssignedIfAny
  <2>7. s \in V /\ FirstFrom(id, s, V)
    BY <2>2, <2>6, AssignedIsFirst
  <2> HIDE DEF V
  <2> QED
    BY <2>2, <2>3, <2>4, <2>5, <2>7, FirstStaysFirst
<1>2. TypeInv /\ [Next]_vars => TypeInv'
  BY NextTypes
<1>3. TypeInv /\ StayInv /\ [Next]_vars => StayInv'
  BY StayStep
<1>4. Init => StayInv
  BY SessionPoolAssumption DEF Init, StayInv, Unbound, Sessions, NoSession
<1>5. Spec => [][Stays]_vars
  BY InitTypes, <1>1, <1>2, <1>3, <1>4, PTL DEF Spec
<1> QED
  BY <1>5 DEF StaysPut

(* While there is a usable session, every pass of the Go API stamps one on  *)
(* a free request that names its conversation.                              *)
THEOREM StampGiven == Spec => DirectRequestIsStamped
<1> DEFINE Stamps == (ReadyToStamp /\ req.door = "direct" /\ pc' # pc)
                         => stamp' \in UsableSet(pool, now)
<1>1. ASSUME TypeInv, [Next]_vars PROVE [Stamps]_vars
  <2> SUFFICES ASSUME ReadyToStamp, req.door = "direct", pc' # pc
               PROVE  stamp' \in UsableSet(pool, now)
    OBVIOUS
  <2>1. Before \/ After
    BY <1>1 DEF ReadyToStamp, Next, Arrive, Route, Execute, RegisterBuild, RegisterStore,
                Shutdown, OtherReports, Tick, requestVars, vars
  <2>2. PICK canonical : Pass(canonical)
    BY <2>1 DEF Before, After
  <2>3. Bind(canonical) /\ VisiblyFree
    BY <2>2 DEF Pass, ReadyToStamp, VisiblyFree
  <2>4. req.sources \in [1 .. NumSources -> Headers]
    BY <1>1, <2>1, RequestTypes DEF Before, After, TypeInv, InHand
  <2> DEFINE id == Downstream(Said(req.sources), canonical)
             N == NamedIn(req.sources)
  <2>5. N # {} /\ N \in SUBSET Nat
    BY AgreedFacts, GatewayAssumption DEF ReadyToStamp, NamedIn
  <2>6. First(N) \in N
    BY <2>5, FirstIsLeast
  <2>7. id # NoId
    BY <2>5, <2>6, DownstreamOfSaid DEF NamedIn
  <2>8. PICK s \in Sessions \cup {NoSession} :
            /\ id \in Ids /\ Assigned(pool, Home[id], now, s)
            /\ stamp' = IF s # NoSession THEN s ELSE stamp
    BY <2>3, <2>4, <2>7, BindStep
  <2> HIDE DEF id
  <2>9. s \in Sessions /\ s # NoSession
    BY <2>8, AssignedIfAny DEF ReadyToStamp
  <2> QED
    BY <2>8, <2>9, AssignedIsFirst
<1>2. TypeInv /\ [Next]_vars => TypeInv'
  BY NextTypes
<1>3. Spec => [][Stamps]_vars
  BY InitTypes, <1>1, <1>2, PTL DEF Spec
<1> QED
  BY <1>3 DEF DirectRequestIsStamped

-----------------------------------------------------------------------------
(* What X-Opencode-Session may be while a request is on its way: nothing    *)
(* before the first pass, nothing when the client has sent its own or the   *)
(* first source it sends is closed, and after the first pass only what that *)
(* source says, since the host's identity is not there yet.                 *)
IdentityInv ==
    /\ pc = "idle" => req = NoRequest
    /\ pc \in {"route", "before"} => forwarded = NoId
    /\ pc # "idle" /\ forwarded # NoId =>
           /\ req.own = <<>>
           /\ Sent(req.sources) # {} =>
                  Agreed(req.sources[First(Sent(req.sources))]).id # NoId
    /\ pc = "after" /\ forwarded # NoId =>
           /\ Sent(req.sources) # {}
           /\ forwarded = Agreed(req.sources[First(Sent(req.sources))]).id

(* A pass keeps what was set, and sets what mapSessionHeaders answers only  *)
(* if nothing was.                                                          *)
LEMMA PassKeeps ==
    ASSUME TypeInv, IdentityInv, NEW canonical, Pass(canonical),
           pc \in {"before", "after"}
    PROVE  \/ forwarded' = forwarded
           \/ LET id == Mapped(Absent, Said(req.sources), canonical)
              IN  /\ forwarded = NoId /\ req.own = <<>> /\ id # NoId /\ forwarded' = id
<1>1. req \in Requests
  BY DEF TypeInv, InHand
<1>2. CASE Refused
  BY <1>2 DEF Pass
<1>3. CASE ~Refused
  <2>1. MapHeaders(canonical)
    BY <1>3 DEF Pass
  <2> DEFINE own == Agreed(OwnHeader)
             id == Mapped(own, Said(req.sources), canonical)
  <2>2. forwarded' = forwarded \/ (id # NoId /\ forwarded' = id)
    BY <1>1, <2>1, MapStep, OwnHeaderType, RequestTypes DEF TypeInv
  <2>3. CASE OwnHeader # <<>>
    <3>1. own.present
      BY <2>3, AgreedFacts
    <3>2. id = NoId
      BY <3>1, MappedOfSaid
    <3> QED
      BY <2>2, <3>2
  <2>4. CASE OwnHeader = <<>>
    <3>1. forwarded = NoId /\ req.own = <<>>
      BY <2>4 DEF OwnHeader
    <3>2. own = Absent
      BY <2>4, AgreedFacts
    <3> QED
      BY <2>2, <3>1, <3>2
  <2> QED
    BY <2>3, <2>4
<1> QED
  BY <1>2, <1>3

(* mapSessionHeaders without a header of the client's own.                  *)
LEMMA MappedUnlessClosed ==
    ASSUME NEW canonical, NEW sources, Mapped(Absent, Said(sources), canonical) # NoId
    PROVE  /\ Sent(sources) # {} =>
                  Mapped(Absent, Said(sources), canonical) =
                      Agreed(sources[First(Sent(sources))]).id
           /\ Sent(sources) = {} => SessionFallback(canonical) # NoId
<1>1. ~Absent.present
  BY DEF Absent
<1> QED
  BY <1>1, MappedOfSaid

LEMMA IdentityStep ==
    ASSUME TypeInv, IdentityInv, [Next]_vars
    PROVE  IdentityInv'
<1> USE DEF IdentityInv
<1>1. ASSUME NEW r \in Requests, Arrive(r) PROVE IdentityInv'
  BY <1>1 DEF Arrive, pluginVars
<1>2. CASE Route
  BY <1>2 DEF Route, Leave, pluginVars
<1>3. CASE Before
  <2>1. /\ Pass(NoId) /\ pc = "before" /\ pc' = "after" /\ req' = req /\ forwarded = NoId
    BY <1>3 DEF Before, Pass
  <2>2. SessionFallback(NoId) = NoId
    BY DEF SessionFallback
  <2>3. CASE forwarded' = forwarded
    BY <2>1, <2>3
  <2>4. CASE forwarded' # forwarded
    <3> DEFINE id == Mapped(Absent, Said(req.sources), NoId)
    <3>1. req.own = <<>> /\ id # NoId /\ forwarded' = id
      BY <2>1, <2>4, PassKeeps
    <3>2. Sent(req.sources) # {} /\ id = Agreed(req.sources[First(Sent(req.sources))]).id
      BY <2>2, <3>1, MappedUnlessClosed
    <3> HIDE DEF id
    <3> QED
      BY <2>1, <3>1, <3>2
  <2> QED
    BY <2>3, <2>4
<1>4. CASE After
  <2>1. /\ Pass(req.canonical) /\ pc = "after" /\ pc' = "execute" /\ req' = req
    BY <1>4 DEF After, Pass
  <2>2. CASE forwarded' = forwarded
    BY <2>1, <2>2
  <2>3. CASE forwarded' # forwarded
    <3> DEFINE id == Mapped(Absent, Said(req.sources), req.canonical)
    <3>1. req.own = <<>> /\ id # NoId /\ forwarded' = id
      BY <2>1, <2>3, PassKeeps
    <3>2. Sent(req.sources) # {} => id = Agreed(req.sources[First(Sent(req.sources))]).id
      BY <3>1, MappedUnlessClosed
    <3> HIDE DEF id
    <3> QED
      BY <2>1, <3>1, <3>2
  <2> QED
    BY <2>2, <2>3
<1>5. CASE Execute
  BY <1>5 DEF Execute, Leave
<1>6. CASE UNCHANGED requestVars
  BY <1>6 DEF requestVars
<1> QED
  BY <1>1, <1>2, <1>3, <1>4, <1>5, <1>6
     DEF Next, RegisterBuild, RegisterStore, Shutdown, OtherReports, Tick, vars, requestVars

LEMMA IdentityInit == Init => IdentityInv
  BY DEF Init, IdentityInv

IdentityInductive == TypeInv /\ IdentityInv

LEMMA IdentityInvariance == Spec => []IdentityInductive
<1>1. Init => IdentityInductive
  BY InitTypes, IdentityInit DEF IdentityInductive
<1>2. IdentityInductive /\ [Next]_vars => IdentityInductive'
  BY NextTypes, IdentityStep DEF IdentityInductive
<1> QED
  BY <1>1, <1>2, PTL DEF Spec

(* An empty, invalid or contradictory first source leaves a request without *)
(* a mapped identity through both passes.                                   *)
THEOREM FailedClosed == Spec => []FailClosed
<1>1. ASSUME IdentityInductive PROVE FailClosed
  <2> SUFFICES ASSUME req # NoRequest, Sent(req.sources) # {},
                      Agreed(req.sources[First(Sent(req.sources))]) = Closed
               PROVE  forwarded = NoId
    BY DEF FailClosed, Sent
  <2>1. Agreed(req.sources[First(Sent(req.sources))]).id = NoId
    BY AgreedFacts
  <2> QED
    BY <1>1, <2>1 DEF IdentityInductive, IdentityInv
<1> QED
  BY <1>1, IdentityInvariance, PTL

(* What one pass has mapped the next keeps, and what the client has sent    *)
(* itself neither replaces.                                                 *)
THEOREM IdentityKept == Spec => OneIdentity
<1> DEFINE Keeps == (pc \in {"before", "after"}) =>
                        /\ forwarded # NoId => forwarded' = forwarded
                        /\ req.own # <<>> => forwarded' = NoId
<1>1. ASSUME IdentityInductive, [Next]_vars PROVE [Keeps]_vars
  <2> SUFFICES ASSUME pc \in {"before", "after"}
               PROVE  /\ forwarded # NoId => forwarded' = forwarded
                      /\ req.own # <<>> => forwarded' = NoId
    OBVIOUS
  <2>1. req.own # <<>> => forwarded = NoId
    BY <1>1 DEF IdentityInductive, IdentityInv
  <2>2. CASE forwarded' = forwarded
    BY <2>1, <2>2
  <2>3. CASE forwarded' # forwarded
    <3>1. PICK canonical : Pass(canonical)
      BY <1>1, <2>3 DEF Next, Arrive, Route, Execute, Before, After, RegisterBuild,
             RegisterStore, Shutdown, OtherReports, Tick, requestVars, vars
    <3> QED
      BY <1>1, <2>3, <3>1, PassKeeps DEF IdentityInductive
  <2> QED
    BY <2>2, <2>3
<1>2. Spec => [][Keeps]_vars
  BY <1>1, IdentityInvariance, PTL DEF Spec
<1> QED
  BY <1>2 DEF OneIdentity

(* The identity a request leaves a pass with is that of the conversation    *)
(* the pass bound, though the two are found by different scans.             *)
THEOREM OneConversation == Spec => IdentitiesAgree
<1> DEFINE Agrees == (pc \in {"before", "after"} /\ bound' # bound /\ forwarded' # NoId)
                         => bound'.id = forwarded'
<1>1. ASSUME IdentityInductive, [Next]_vars PROVE [Agrees]_vars
  <2> SUFFICES ASSUME pc \in {"before", "after"}, bound' # bound, forwarded' # NoId
               PROVE  bound'.id = forwarded'
    OBVIOUS
  <2>1. PICK canonical, s : /\ (Before /\ canonical = NoId) \/ (After /\ canonical = req.canonical)
                            /\ Binds(canonical, s)
    BY <1>1, BoundByPass DEF IdentityInductive
  <2>2. Pass(canonical)
    BY <2>1 DEF Before, After
  <2>3. bound'.id = Downstream(Said(req.sources), canonical)
    BY <2>1 DEF Binds
  <2>4. Mapped(Absent, Said(req.sources), canonical) = forwarded'
    <3>1. CASE forwarded' # forwarded
      BY <1>1, <2>2, <3>1, PassKeeps DEF IdentityInductive
    <3>2. CASE forwarded' = forwarded
      <4>1. pc = "after" /\ forwarded # NoId
        BY <1>1, <3>2 DEF IdentityInductive, IdentityInv
      <4>2. /\ Sent(req.sources) # {}
            /\ forwarded = Agreed(req.sources[First(Sent(req.sources))]).id
        BY <1>1, <4>1 DEF IdentityInductive, IdentityInv
      <4>3. ~Absent.present
        BY DEF Absent
      <4> QED
        BY <3>2, <4>2, <4>3, MappedOfSaid
    <3> QED
      BY <3>1, <3>2
  <2> QED
    BY <2>3, <2>4, SameIdentity
<1>2. Spec => [][Agrees]_vars
  BY <1>1, IdentityInvariance, PTL DEF Spec
<1> QED
  BY <1>2 DEF IdentitiesAgree
=============================================================================
