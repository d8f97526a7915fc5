---------------------------- MODULE StreamProofs ----------------------------
(***************************************************************************)
(* Theorems about Stream, for all jobs, channel capacities and shutdowns,   *)
(* and, with the lemmas about the converters, for bodies and answers of any *)
(* length.                                                                  *)
(***************************************************************************)
EXTENDS Stream, ConverterProofs

(* A chunk that moves from the head of one channel to the end of the next   *)
(* leaves their concatenation as it was.                                    *)
LEMMA MoveOne ==
    ASSUME NEW S, NEW s \in Seq(S), NEW t \in Seq(S), NEW r \in Seq(S), s # <<>>
    PROVE  /\ Head(s) \in S /\ Tail(s) \in Seq(S)
           /\ Append(t, Head(s)) \in Seq(S)
           /\ Append(t, Head(s)) \o (Tail(s) \o r) = t \o (s \o r)
<1>1. Head(s) \in S /\ Tail(s) \in Seq(S)
  BY HeadTailProperties
<1>2. Append(t, Head(s)) \in Seq(S) /\ Append(t, Head(s)) = t \o <<Head(s)>>
  BY <1>1, AppendProperties, AppendIsConcat
<1>3. <<Head(s)>> \in Seq(S) /\ <<Head(s)>> \o Tail(s) = s
  BY <1>1
<1>4. Tail(s) \o r \in Seq(S)
  BY <1>1, ConcatProperties
<1>5. (t \o <<Head(s)>>) \o (Tail(s) \o r) = t \o (<<Head(s)>> \o (Tail(s) \o r))
  BY <1>3, <1>4, ConcatAssociative, SMTT(30)
<1>6. <<Head(s)>> \o (Tail(s) \o r) = (<<Head(s)>> \o Tail(s)) \o r
  BY <1>1, <1>3, ConcatAssociative
<1> QED
  BY <1>1, <1>2, <1>3, <1>5, <1>6

(* A sequence of at most one element is empty or that element.              *)
LEMMA Single ==
    ASSUME NEW S, NEW s \in Seq(S), Len(s) <= 1, s # <<>>
    PROVE  s = <<Head(s)>> /\ Head(s) \in S
<1>1. Head(s) \in S /\ Tail(s) \in Seq(S) /\ Len(Tail(s)) = Len(s) - 1
  BY HeadTailProperties
<1>2. Len(s) \in Nat /\ Len(s) # 0
  BY EmptySeq
<1>3. Tail(s) = <<>>
  BY <1>1, <1>2, EmptySeq
<1>4. s = <<Head(s)>> \o Tail(s)
  OBVIOUS
<1> QED
  BY <1>1, <1>3, <1>4

(* The next element of a sequence is the first behind a prefix of it.       *)
LEMMA NextOfPrefix ==
    ASSUME NEW S, NEW s \in Seq(S), NEW t \in Seq(S), NEW e \in S
    PROVE  /\ Len(s) < Len(s \o (<<e>> \o t))
           /\ (s \o (<<e>> \o t))[Len(s) + 1] = e
<1> DEFINE u == <<e>> \o t
<1>1. <<e>> \in Seq(S) /\ Len(<<e>>) = 1 /\ <<e>>[1] = e
  OBVIOUS
<1>2. u \in Seq(S) /\ Len(u) = 1 + Len(t) /\ u[1] = e
  BY <1>1, ConcatProperties
<1>3. Len(s) \in Nat /\ Len(t) \in Nat
  OBVIOUS
<1>4. /\ Len(s \o u) = Len(s) + Len(u)
      /\ \A i \in 1 .. Len(s) + Len(u) :
            (s \o u)[i] = IF i <= Len(s) THEN s[i] ELSE u[i - Len(s)]
  BY <1>2, ConcatProperties
<1> HIDE DEF u
<1>5. (s \o u)[Len(s) + 1] = u[1]
  BY <1>2, <1>3, <1>4
<1> QED
  BY <1>2, <1>3, <1>4, <1>5 DEF u

-----------------------------------------------------------------------------
(* The parts of a job.                                                      *)
LEMMA JobTypes ==
    ASSUME NEW j \in Jobs
    PROVE  /\ j.source \in Sources /\ j.body \in Seq(Line) /\ j.answer \in Answers
           /\ j.collect \in BOOLEAN /\ j.failover \in BOOLEAN
           /\ j.answer.widths \in Seq(1 .. 4) /\ j.answer.calls \in Nat
BY StreamAssumption DEF Answers

(* What a body or a paid answer converts to is a sequence of chunks.        *)
LEMMA JobChunks ==
    ASSUME NEW j \in Jobs
    PROVE  Source(j) \in Seq(Chunks) /\ Fallback(j) \in Seq(Chunks)
<1>1. Pieces(j.answer) \in Seq(Chunks)
  BY JobTypes, PiecesAre
<1>2. ChatChunks(j.body) \in Seq(Chunks) /\ ResponsesChunks(j.body) \in Seq(Chunks)
  BY JobTypes, ChatText, ResponsesText
<1>3. Text(<<1>>) \in Chunks /\ Stop \in Chunks
  <2>1. <<1>> \in Seq(Nat) /\ <<>> \in Seq(Nat)
    OBVIOUS
  <2> QED
    BY <2>1 DEF Text, Stop, Chunks
<1>4. <<Text(<<1>>)>> \in Seq(Chunks) /\ <<Stop>> \in Seq(Chunks)
  BY <1>3
<1> QED
  BY <1>1, <1>2, <1>4 DEF Source, Fallback

(* The types of the sequences, one by one.                                  *)
LEMMA Types ==
    ASSUME TypeOK
    PROVE  /\ source \in Seq(Chunks) /\ todo \in Seq(Chunks) /\ base \in Seq(Chunks)
           /\ hand \in Seq(Chunks) /\ out \in Seq(Chunks) /\ held \in Seq(Chunks)
           /\ got \in Seq(Chunks)
           /\ Source(job) \in Seq(Chunks) /\ Fallback(job) \in Seq(Chunks)
           /\ job.collect \in BOOLEAN /\ job.failover \in BOOLEAN
           /\ Cap \in Nat /\ MaxDowns \in Nat /\ downs \in Nat /\ late \in Nat
           /\ Answer \in Seq(Chunks)
BY StreamAssumption, JobTypes, JobChunks DEF TypeOK, Answer

LEMMA TypesNext ==
    ASSUME TypeOK'
    PROVE  /\ source' \in Seq(Chunks) /\ todo' \in Seq(Chunks) /\ base' \in Seq(Chunks)
           /\ hand' \in Seq(Chunks) /\ out' \in Seq(Chunks) /\ held' \in Seq(Chunks)
           /\ got' \in Seq(Chunks)
BY DEF TypeOK

-----------------------------------------------------------------------------
(* Type correctness.                                                        *)
LEMMA InitType == Init => TypeOK
<1> SUFFICES ASSUME Init PROVE TypeOK
  OBVIOUS
<1>1. job \in Jobs /\ Source(job) \in Seq(Chunks)
  BY JobChunks DEF Init
<1>2. Prefilled(job) => Len(Source(job)) <= 1
  BY DEF Prefilled, Source
<1>3. Cap \in Nat \ {0} /\ MaxDowns \in Nat
  BY StreamAssumption
<1>4. /\ {source, todo, base, hand, out, held, got} \subseteq Seq(Chunks)
      /\ Len(base) <= Cap /\ Len(out) <= Cap /\ Len(held) <= 1
  BY <1>1, <1>2, <1>3 DEF Init
<1>5. {baseClosed, outClosed, counted, failed} \subseteq BOOLEAN
  <2>1. Prefilled(job) \in BOOLEAN
    BY DEF Prefilled
  <2>2. baseClosed = Prefilled(job)
    BY DEF Init
  <2>3. baseClosed \in BOOLEAN
    BY <2>1, <2>2
  <2> QED
    BY <2>3 DEF Init
<1> QED
  BY <1>1, <1>3, <1>4, <1>5 DEF Init, TypeOK

LEMMA ProducerType == TypeOK /\ Producer => TypeOK'
<1> SUFFICES ASSUME TypeOK, Producer PROVE TypeOK'
  OBVIOUS
<1>1. CASE Produce
  <2>1. /\ base' = Append(base, Head(todo)) /\ todo' = Tail(todo)
        /\ todo # <<>> /\ Len(base) < Cap
    BY <1>1 DEF Produce, Room
  <2>2. base' \in Seq(Chunks) /\ todo' \in Seq(Chunks) /\ Len(base') = Len(base) + 1
    BY <2>1, Types, HeadTailProperties, AppendProperties
  <2>3. Len(base') <= Cap
    BY <2>1, <2>2, Types
  <2> QED
    BY <1>1, <2>2, <2>3 DEF Produce, TypeOK, jobVars, relayVars, pumpVars, hostVars
<1>2. CASE ProducerEnds
  BY <1>2 DEF ProducerEnds, TypeOK, jobVars, relayVars, pumpVars, hostVars
<1> QED
  BY <1>1, <1>2 DEF Producer

LEMMA RelayType == TypeOK /\ Relay => TypeOK'
<1> SUFFICES ASSUME TypeOK, Relay PROVE TypeOK'
  OBVIOUS
<1> USE DEF jobVars, producerVars, pumpVars, hostVars
<1>1. CASE RelayTake
  <2>1. hand' = <<Head(base)>> /\ base' = Tail(base) /\ base # <<>>
    BY <1>1 DEF RelayTake
  <2>2. base' \in Seq(Chunks) /\ Len(base') = Len(base) - 1 /\ hand' \in Seq(Chunks)
    BY <2>1, Types, HeadTailProperties
  <2>3. Len(base') <= Cap
    BY <2>2, Types, SMTT(30) DEF TypeOK
  <2> QED
    BY <1>1, <2>2, <2>3 DEF RelayTake, TypeOK
<1>2. CASE RelayPut
  <2>1. out' = Append(out, Head(hand)) /\ hand' = Tail(hand) /\ hand # <<>> /\ Len(out) < Cap
    BY <1>2 DEF RelayPut, Room
  <2>2. out' \in Seq(Chunks) /\ hand' \in Seq(Chunks) /\ Len(out') = Len(out) + 1
    BY <2>1, Types, HeadTailProperties, AppendProperties
  <2>3. Len(out') <= Cap
    BY <2>1, <2>2, Types
  <2> QED
    BY <1>2, <2>2, <2>3 DEF RelayPut, TypeOK
<1>3. CASE RelaySourceEnds
  BY <1>3 DEF RelaySourceEnds, TypeOK
<1>4. CASE RelayPays
  <2>1. hand' \in Seq(Chunks)
    BY <1>4, Types DEF RelayPays
  <2> QED
    BY <1>4, <2>1 DEF RelayPays, TypeOK
<1>5. CASE RelayEnds
  BY <1>5 DEF RelayEnds, TypeOK
<1> QED
  BY <1>1, <1>2, <1>3, <1>4, <1>5 DEF Relay

LEMMA PumpType == TypeOK /\ Pump => TypeOK'
<1> SUFFICES ASSUME TypeOK, Pump PROVE TypeOK'
  OBVIOUS
<1> USE DEF jobVars, producerVars, relayVars, hostVars
<1>1. CASE PumpTake
  <2> DEFINE channel == ReadFrom
  <2>1. channel \in Seq(Chunks) /\ channel # <<>> /\ Len(channel) <= Cap
    BY <1>1, Types DEF PumpTake, ReadFrom, TypeOK
  <2>2. /\ Head(channel) \in Chunks /\ Tail(channel) \in Seq(Chunks)
        /\ Len(Tail(channel)) = Len(channel) - 1
    BY <2>1, HeadTailProperties
  <2>3. Len(Tail(channel)) <= Cap
    BY <2>1, <2>2, Types
  <2>4. base' \in Seq(Chunks) /\ out' \in Seq(Chunks) /\ Len(base') <= Cap /\ Len(out') <= Cap
    BY <1>1, <2>2, <2>3, Types DEF PumpTake, TakeFrom, ReadFrom, TypeOK
  <2>5. /\ held' \in Seq(Chunks) /\ Len(held') <= 1 /\ got' \in Seq(Chunks)
        /\ pump' \in {"take", "emit"}
    <3>1. CASE job.collect
      <4>1. got' = Append(got, Head(channel)) /\ held' = held /\ pump' = pump /\ pump = "take"
        BY <1>1, <3>1 DEF PumpTake
      <4>2. got' \in Seq(Chunks)
        BY <2>2, <4>1, Types, AppendProperties
      <4> QED
        BY <4>1, <4>2, Types DEF TypeOK
    <3>2. CASE ~job.collect
      <4>1. held' = <<Head(channel)>> /\ pump' = "emit" /\ got' = got
        BY <1>1, <3>2 DEF PumpTake
      <4>2. held' \in Seq(Chunks) /\ Len(held') = 1
        BY <2>2, <4>1
      <4> QED
        BY <4>1, <4>2, Types
    <3> QED
      BY <3>1, <3>2
  <2> QED
    BY <1>1, <2>4, <2>5 DEF PumpTake, TypeOK
<1>2. CASE PumpSourceEnds
  BY <1>2 DEF PumpSourceEnds, TypeOK
<1>3. CASE PumpReads
  BY <1>3 DEF PumpReads, TypeOK
<1>4. CASE PumpEmits
  <2>1. late' \in Nat
    BY <1>4, Types DEF PumpEmits, Called
  <2>2. got' \in Seq(Chunks) /\ held' \in Seq(Chunks) /\ Len(held') <= 1
    <3>1. got \o held \in Seq(Chunks) /\ <<>> \in Seq(Chunks) /\ Len(<<>>) = 0
      BY Types, ConcatProperties
    <3>2. \/ got' = got \o held /\ held' = <<>>
          \/ got' = got /\ held' = held
      BY <1>4 DEF PumpEmits
    <3>3. CASE got' = got \o held /\ held' = <<>>
      BY <3>1, <3>3
    <3>4. CASE got' = got /\ held' = held
      BY <3>4, Types DEF TypeOK
    <3> QED
      BY <3>2, <3>3, <3>4
  <2> QED
    BY <1>4, <2>1, <2>2 DEF PumpEmits, TypeOK
<1>5. CASE PumpCloses
  <2>1. late' \in Nat
    BY <1>5, Types DEF PumpCloses, Called
  <2> QED
    BY <1>5, <2>1 DEF PumpCloses, TypeOK
<1> QED
  BY <1>1, <1>2, <1>3, <1>4, <1>5 DEF Pump

LEMMA HostType == TypeOK /\ (Shutdown \/ PluginInit) => TypeOK'
<1> SUFFICES ASSUME TypeOK, Shutdown \/ PluginInit PROVE TypeOK'
  OBVIOUS
<1>1. /\ downs' \in 0 .. MaxDowns /\ downs <= downs' /\ host' \in 0 .. downs' + 1
  BY Types, SMTT(30) DEF Shutdown, PluginInit, TypeOK, hostVars
<1>2. ptr \in 0 .. downs' + 1
  BY <1>1, Types, SMTT(30) DEF TypeOK
<1> QED
  BY <1>1, <1>2 DEF Shutdown, PluginInit, TypeOK, jobVars, producerVars, relayVars, pumpVars

LEMMA NextType == TypeOK /\ [Next]_vars => TypeOK'
<1> SUFFICES ASSUME TypeOK, [Next]_vars PROVE TypeOK'
  OBVIOUS
<1>1. CASE UNCHANGED vars
  BY <1>1 DEF TypeOK, vars, jobVars, producerVars, relayVars, pumpVars, hostVars
<1> QED
  BY <1>1, ProducerType, RelayType, PumpType, HostType DEF Next

(* The variables keep their types, and no channel outgrows its capacity.    *)
THEOREM TypeCorrect == Spec => []TypeOK
<1>1. Init => TypeOK
  BY InitType
<1>2. TypeOK /\ [Next]_vars => TypeOK'
  BY NextType
<1> QED
  BY <1>1, <1>2, PTL DEF Spec
-----------------------------------------------------------------------------
(* What the host has and what is on its way.                                *)
Flow == got \o InFlight

LEMMA InitPipe == Init => PipeInv
<1> SUFFICES ASSUME Init PROVE PipeInv
  OBVIOUS
<1>1. TypeOK
  BY InitType
<1>2. source \in Seq(Chunks) /\ <<>> \in Seq(Chunks)
  BY <1>1, Types
<1>3. base \o todo = source
  BY <1>2, ConcatEmptySeq DEF Init
<1>4. got \o InFlight = source
  BY <1>2, <1>3, ConcatEmptySeq DEF Init, InFlight
<1>5. PlacesInv
  BY <1>1, StreamAssumption DEF Init, PlacesInv
<1>6. Relayed(job) => ~Prefilled(job)
  BY DEF Relayed, Prefilled
<1>7. relay = "off" => Answer = source
  BY DEF Init, Answer
<1>8. OrderInv
  BY <1>4, <1>7 DEF Init, OrderInv
<1> QED
  BY <1>5, <1>8 DEF PipeInv

LEMMA ProduceFlow == TypeOK /\ Produce => Flow' = Flow
<1> SUFFICES ASSUME TypeOK, Produce PROVE Flow' = Flow
  OBVIOUS
<1>1. /\ base' = Append(base, Head(todo)) /\ todo' = Tail(todo) /\ todo # <<>>
      /\ got' = got /\ held' = held /\ out' = out /\ hand' = hand
  BY DEF Produce, relayVars, pumpVars
<1>2. /\ todo \in Seq(Chunks) /\ base \in Seq(Chunks) /\ <<>> \in Seq(Chunks)
  BY Types
<1>3. Tail(todo) \in Seq(Chunks)
      /\ Append(base, Head(todo)) \o (Tail(todo) \o <<>>) = base \o (todo \o <<>>)
  BY <1>1, <1>2, MoveOne
<1>4. base' \o todo' = base \o todo
  BY <1>1, <1>2, <1>3, ConcatEmptySeq
<1> QED
  BY <1>1, <1>4 DEF Flow, InFlight

LEMMA RelayTakeFlow == TypeOK /\ RelayTake => Flow' = Flow
<1> SUFFICES ASSUME TypeOK, RelayTake PROVE Flow' = Flow
  OBVIOUS
<1>1. /\ hand = <<>> /\ hand' = <<Head(base)>> /\ base' = Tail(base) /\ base # <<>>
      /\ got' = got /\ held' = held /\ out' = out /\ todo' = todo
  BY DEF RelayTake, producerVars, pumpVars
<1>2. todo \in Seq(Chunks) /\ base \in Seq(Chunks) /\ hand \in Seq(Chunks)
  BY Types
<1>3. /\ Head(base) \in Chunks
      /\ Append(hand, Head(base)) \o (Tail(base) \o todo) = hand \o (base \o todo)
  BY <1>1, <1>2, MoveOne
<1>4. Append(hand, Head(base)) = hand'
  BY <1>1, <1>3
<1> QED
  BY <1>1, <1>3, <1>4 DEF Flow, InFlight

LEMMA RelayPutFlow == TypeOK /\ RelayPut => Flow' = Flow
<1> SUFFICES ASSUME TypeOK, RelayPut PROVE Flow' = Flow
  OBVIOUS
<1>1. /\ out' = Append(out, Head(hand)) /\ hand' = Tail(hand) /\ hand # <<>>
      /\ got' = got /\ held' = held /\ base' = base /\ todo' = todo
  BY DEF RelayPut, producerVars, pumpVars
<1> DEFINE r == base \o todo
<1>2. out \in Seq(Chunks) /\ hand \in Seq(Chunks) /\ r \in Seq(Chunks)
  BY Types, ConcatProperties
<1>3. r' = r
  BY <1>1
<1>4. Flow = got \o (held \o (out \o (hand \o r)))
      /\ Flow' = got \o (held \o (out' \o (hand' \o r)))
  BY <1>1 DEF Flow, InFlight
<1> HIDE DEF r
<1>5. Append(out, Head(hand)) \o (Tail(hand) \o r) = out \o (hand \o r)
  BY <1>1, <1>2, MoveOne, SMTT(30)
<1> QED
  BY <1>1, <1>4, <1>5

(* The pump's chunk comes off the head of the channel it reads.             *)
LEMMA PumpTakeFlow == TypeOK /\ PlacesInv /\ PumpTake => Flow' = Flow
<1> SUFFICES ASSUME TypeOK, PlacesInv, PumpTake PROVE Flow' = Flow
  OBVIOUS
<1> DEFINE r == IF Relayed(job) THEN hand \o (base \o todo) ELSE todo
<1> DEFINE s == ReadFrom
<1>1. held = <<>> /\ ~failed /\ hand' = hand /\ todo' = todo /\ s # <<>>
  BY DEF PumpTake, PlacesInv, producerVars, relayVars
<1>2. r \in Seq(Chunks) /\ s \in Seq(Chunks) /\ got \in Seq(Chunks) /\ held \in Seq(Chunks)
  BY Types, ConcatProperties DEF ReadFrom
<1>3. s \o r \in Seq(Chunks) /\ Head(s) \in Chunks /\ Tail(s) \o r \in Seq(Chunks)
  BY <1>1, <1>2, ConcatProperties, HeadTailProperties
<1>4. ~Relayed(job) => out = <<>> /\ hand = <<>>
  BY DEF PlacesInv
<1>5. InFlight = held \o (s \o r)
  <2>1. CASE Relayed(job)
    BY <2>1 DEF InFlight, ReadFrom
  <2>2. CASE ~Relayed(job)
    BY <1>3, <1>4, <2>2, ConcatEmptySeq DEF InFlight, ReadFrom
  <2> QED
    BY <2>1, <2>2
<1>6. InFlight' = held' \o (Tail(s) \o r)
  <2>1. CASE Relayed(job)
    <3>1. out' = Tail(s) /\ base' = base
      BY <2>1 DEF PumpTake, TakeFrom, ReadFrom
    <3> QED
      BY <1>1, <2>1, <3>1 DEF InFlight
  <2>2. CASE ~Relayed(job)
    <3>1. base' = Tail(s) /\ out' = <<>> /\ hand' = <<>>
      BY <1>1, <1>4, <2>2 DEF PumpTake, TakeFrom, ReadFrom
    <3>2. out' \o (hand' \o (base' \o todo')) = Tail(s) \o r
      BY <1>1, <1>3, <2>2, <3>1, ConcatEmptySeq
    <3> QED
      BY <3>2 DEF InFlight
  <2> QED
    BY <2>1, <2>2
<1>7. CASE job.collect
  <2>1. held' = <<>> /\ got' = Append(got, Head(s))
    BY <1>1, <1>7 DEF PumpTake
  <2> HIDE DEF r, s
  <2>2. Append(got, Head(s)) \o (Tail(s) \o r) = got \o (s \o r)
    BY <1>1, <1>2, MoveOne
  <2>3. InFlight = s \o r /\ InFlight' = Tail(s) \o r
    BY <1>1, <1>3, <1>5, <1>6, <2>1, ConcatEmptySeq
  <2> QED
    BY <2>1, <2>2, <2>3 DEF Flow
<1>8. CASE ~job.collect
  <2>1. held' = <<Head(s)>> /\ got' = got
    BY <1>8 DEF PumpTake
  <2> HIDE DEF r, s
  <2>2. Append(held, Head(s)) \o (Tail(s) \o r) = held \o (s \o r)
    BY <1>1, <1>2, MoveOne
  <2>3. Append(held, Head(s)) = held'
    BY <1>1, <1>3, <2>1
  <2> QED
    BY <1>5, <1>6, <2>1, <2>2, <2>3 DEF Flow
<1> QED
  BY <1>7, <1>8

LEMMA PumpEmitsFlow == TypeOK /\ PumpEmits => Flow' = Flow
<1> SUFFICES ASSUME TypeOK, PumpEmits PROVE Flow' = Flow
  OBVIOUS
<1> DEFINE r == out \o (hand \o (base \o todo))
<1>1. out' = out /\ hand' = hand /\ base' = base /\ todo' = todo
  BY DEF PumpEmits, producerVars, relayVars
<1>2. r \in Seq(Chunks) /\ held \in Seq(Chunks) /\ got \in Seq(Chunks)
  BY Types, ConcatProperties
<1>3. Flow = got \o (held \o r) /\ Flow' = got' \o (held' \o r)
  BY <1>1 DEF Flow, InFlight
<1> HIDE DEF r
<1>4. CASE got' = got \o held /\ held' = <<>>
  <2>1. held' \o r = r
    BY <1>2, <1>4, ConcatEmptySeq
  <2>2. (got \o held) \o r = got \o (held \o r)
    BY <1>2, ConcatAssociative
  <2> QED
    BY <1>3, <1>4, <2>1, <2>2
<1>5. CASE got' = got /\ held' = held
  BY <1>3, <1>5
<1> QED
  BY <1>4, <1>5 DEF PumpEmits

(* No step but that which asks the paid keys changes the flow.              *)
LEMMA FlowKept == TypeOK /\ PlacesInv /\ [Next]_vars => RelayPays \/ Flow' = Flow
<1> SUFFICES ASSUME TypeOK, PlacesInv, [Next]_vars, ~RelayPays PROVE Flow' = Flow
  OBVIOUS
<1> DEFINE same == <<got, held, out, hand, base, todo>>
<1>1. CASE same' = same
  BY <1>1 DEF Flow, InFlight
<1>2. CASE Produce
  BY <1>2, ProduceFlow
<1>3. CASE RelayTake
  BY <1>3, RelayTakeFlow
<1>4. CASE RelayPut
  BY <1>4, RelayPutFlow
<1>5. CASE PumpTake
  BY <1>5, PumpTakeFlow
<1>6. CASE PumpEmits
  BY <1>6, PumpEmitsFlow
<1>7. CASE ProducerEnds \/ RelaySourceEnds \/ RelayEnds
  BY <1>1, <1>7 DEF ProducerEnds, RelaySourceEnds, RelayEnds, producerVars, pumpVars, relayVars
<1>8. CASE PumpSourceEnds \/ PumpReads \/ PumpCloses
  BY <1>1, <1>8 DEF PumpSourceEnds, PumpReads, PumpCloses, producerVars, relayVars
<1>9. CASE Shutdown \/ PluginInit
  BY <1>1, <1>9 DEF Shutdown, PluginInit, producerVars, relayVars, pumpVars
<1>10. CASE UNCHANGED vars
  BY <1>1, <1>10 DEF vars, producerVars, relayVars, pumpVars
<1> QED
  BY <1>2, <1>3, <1>4, <1>5, <1>6, <1>7, <1>8, <1>9, <1>10 DEF Next, Producer, Relay, Pump
-----------------------------------------------------------------------------
LEMMA PlacesNext == TypeOK /\ PlacesInv /\ [Next]_vars => PlacesInv'
<1> SUFFICES ASSUME TypeOK, PlacesInv, [Next]_vars PROVE PlacesInv'
  OBVIOUS
<1> USE DEF PlacesInv
<1>1. CASE Produce
  BY <1>1 DEF Produce, jobVars, relayVars, pumpVars, hostVars
<1>2. CASE ProducerEnds
  BY <1>2 DEF ProducerEnds, jobVars, relayVars, pumpVars, hostVars
<1>3. CASE RelayTake
  BY <1>3 DEF RelayTake, jobVars, producerVars, pumpVars, hostVars
<1>4. CASE RelayPut
  BY <1>4 DEF RelayPut, jobVars, producerVars, pumpVars, hostVars
<1>5. CASE RelaySourceEnds
  BY <1>5 DEF RelaySourceEnds, jobVars, producerVars, pumpVars, hostVars
<1>6. CASE RelayPays
  BY <1>6 DEF RelayPays, jobVars, producerVars, pumpVars, hostVars
<1>7. CASE RelayEnds
  BY <1>7 DEF RelayEnds, jobVars, producerVars, pumpVars, hostVars
<1>8. CASE PumpTake
  <2>1. relay # "off" => base' = base
    BY <1>8 DEF PumpTake
  <2>2. relay = "off" => out' = out
    BY <1>8 DEF PumpTake
  <2>3. IF job.collect THEN pump' = pump /\ held' = held ELSE pump' = "emit"
    BY <1>8 DEF PumpTake
  <2> QED
    BY <1>8, <2>1, <2>2, <2>3 DEF PumpTake, jobVars, producerVars, relayVars, hostVars
<1>9. CASE PumpSourceEnds
  BY <1>9 DEF PumpSourceEnds, jobVars, producerVars, relayVars, hostVars
<1>10. CASE PumpReads
  BY <1>10 DEF PumpReads, jobVars, producerVars, relayVars, hostVars
<1>11. CASE PumpEmits
  BY <1>11 DEF PumpEmits, jobVars, producerVars, relayVars, hostVars
<1>12. CASE PumpCloses
  BY <1>12 DEF PumpCloses, jobVars, producerVars, relayVars, hostVars
<1>13. CASE Shutdown \/ PluginInit
  BY <1>13 DEF Shutdown, PluginInit, jobVars, producerVars, relayVars, pumpVars
<1>14. CASE UNCHANGED vars
  BY <1>14 DEF vars, jobVars, producerVars, relayVars, pumpVars, hostVars
<1> QED
  BY <1>1, <1>2, <1>3, <1>4, <1>5, <1>6, <1>7, <1>8, <1>9, <1>10, <1>11, <1>12, <1>13, <1>14
     DEF Next, Producer, Relay, Pump

(* OrderInv with the flow as one value.                                     *)
LEMMA OrderByFlow ==
    OrderInv <=>
        /\ relay \in {"relay", "paying"} => Flow = source
        /\ relay \in {"off", "pieces", "done"} => Flow = Answer
        /\ relay \in {"relay", "paying"} /\ ~counted =>
               got = <<>> /\ held = <<>> /\ out = <<>> /\ hand = <<>>
        /\ relay \in {"relay", "done"} /\ counted => source # <<>>
        /\ pump \in {"close", "closing"} /\ ~failed => got = Answer
        /\ ended = "clean" => got = Answer
BY DEF OrderInv, Flow

(* What the host has when the pump finds its channel closed and empty.      *)
LEMMA AllThere == TypeOK /\ PipeInv /\ PumpSourceEnds => got = Answer
<1> SUFFICES ASSUME TypeOK, PipeInv, PumpSourceEnds PROVE got = Answer
  OBVIOUS
<1>1. held = <<>> /\ ~failed /\ ReadFrom = <<>> /\ ReadClosed
  BY DEF PumpSourceEnds, PipeInv, PlacesInv
<1>2. out = <<>> /\ hand = <<>> /\ base = <<>> /\ todo = <<>> /\ relay \in {"off", "done"}
  BY <1>1 DEF PipeInv, PlacesInv, ReadFrom, ReadClosed
<1>3. got \o InFlight = Answer
  BY <1>2 DEF PipeInv, OrderInv
<1>4. got \o InFlight = got
  BY <1>1, <1>2, Types, ConcatEmptySeq DEF InFlight
<1> QED
  BY <1>3, <1>4

(* The step that asks the paid keys: nothing was on its way.                *)
LEMMA PaysFlow == TypeOK /\ PipeInv /\ RelayPays => Flow' = Answer'
<1> SUFFICES ASSUME TypeOK, PipeInv, RelayPays PROVE Flow' = Answer'
  OBVIOUS
<1>1. /\ relay = "paying" /\ hand' = Fallback(job)
      /\ job' = job /\ source' = source /\ base' = base /\ todo' = todo
      /\ out' = out /\ held' = held /\ got' = got
  BY DEF RelayPays, jobVars, producerVars, pumpVars
<1>2. /\ base = <<>> /\ todo = <<>> /\ ~counted /\ Relayed(job)
      /\ got = <<>> /\ held = <<>> /\ out = <<>> /\ hand = <<>>
  BY <1>1 DEF PipeInv, PlacesInv, OrderInv
<1>3. got \o InFlight = <<>>
  BY <1>2, Types, ConcatEmptySeq DEF InFlight
<1>4. source = <<>>
  BY <1>1, <1>3 DEF PipeInv, OrderInv
<1>5. Answer' = Fallback(job)
  BY <1>1, <1>2, <1>4 DEF Answer, Relayed, Fallback, NoAnswer
<1>6. Flow' = Fallback(job)
  BY <1>1, <1>2, Types, ConcatEmptySeq DEF Flow, InFlight
<1> QED
  BY <1>5, <1>6

LEMMA AnswerKept == [Next]_vars => Answer' = Answer /\ source' = source /\ job' = job
<1> SUFFICES ASSUME [Next]_vars PROVE Answer' = Answer /\ source' = source /\ job' = job
  OBVIOUS
<1>1. job' = job /\ source' = source
  BY DEF vars, jobVars, Next, Producer, Produce, ProducerEnds, Relay, RelayTake, RelayPut,
         RelaySourceEnds, RelayPays, RelayEnds, Pump, PumpTake, PumpSourceEnds, PumpReads,
         PumpEmits, PumpCloses, Shutdown, PluginInit
<1> QED
  BY <1>1 DEF Answer
(* A chunk on its way makes the flow longer than what the host has.         *)
LEMMA FlowGrows ==
    ASSUME TypeOK, base # <<>>
    PROVE  Flow # <<>>
<1>1. /\ base \in Seq(Chunks) /\ todo \in Seq(Chunks) /\ hand \in Seq(Chunks)
      /\ out \in Seq(Chunks) /\ held \in Seq(Chunks) /\ got \in Seq(Chunks)
  BY Types
<1> DEFINE a == base \o todo
<1> DEFINE b == hand \o a
<1> DEFINE c == out \o b
<1>2. a \in Seq(Chunks) /\ Len(a) = Len(base) + Len(todo)
  BY <1>1, ConcatProperties
<1>3. b \in Seq(Chunks) /\ Len(b) = Len(hand) + Len(a)
  BY <1>1, <1>2, ConcatProperties
<1>4. c \in Seq(Chunks) /\ Len(c) = Len(out) + Len(b)
  BY <1>1, <1>3, ConcatProperties
<1>5. InFlight \in Seq(Chunks) /\ Len(InFlight) = Len(held) + Len(c)
  BY <1>1, <1>4, ConcatProperties DEF InFlight
<1>6. Len(Flow) = Len(got) + Len(InFlight)
  BY <1>1, <1>5, ConcatProperties DEF Flow
<1>7. Len(base) > 0 /\ Len(todo) \in Nat /\ Len(hand) \in Nat /\ Len(out) \in Nat
      /\ Len(held) \in Nat /\ Len(got) \in Nat
  BY <1>1
<1> HIDE DEF a, b, c
<1>8. Len(Flow) > 0
  BY <1>2, <1>3, <1>4, <1>5, <1>6, <1>7
<1> QED
  BY <1>8

LEMMA OrderNext == TypeOK /\ PipeInv /\ [Next]_vars => OrderInv'
<1> SUFFICES ASSUME TypeOK, PipeInv, [Next]_vars PROVE OrderInv'
  OBVIOUS
<1>1. PlacesInv /\ OrderInv
  BY DEF PipeInv
<1>2. Answer' = Answer /\ source' = source /\ job' = job
  BY AnswerKept
<1>3. \/ RelayPays /\ Flow' = Answer
      \/ ~RelayPays /\ Flow' = Flow
  BY <1>1, <1>2, PaysFlow, FlowKept
(* Conjunct by conjunct.  First, the flow.                                  *)
<1>4. /\ relay' \in {"relay", "paying"} => Flow' = source
      /\ relay' \in {"off", "pieces", "done"} => Flow' = Answer
  <2>1. CASE relay' = relay
    BY <1>1, <1>3, <2>1, OrderByFlow DEF RelayPays
  <2>2. CASE relay' # relay
    <3>1. RelaySourceEnds \/ RelayPays \/ RelayEnds
      BY <2>2 DEF vars, relayVars, Next, Producer, Produce, ProducerEnds, Relay, RelayTake,
                  RelayPut, Pump, PumpTake, PumpSourceEnds, PumpReads, PumpEmits, PumpCloses,
                  Shutdown, PluginInit
    <3>2. CASE RelaySourceEnds
      <4>1. relay = "relay" /\ relay' = IF counted THEN "done" ELSE "paying"
        BY <3>2 DEF RelaySourceEnds
      <4>2. Flow' = source
        BY <1>1, <1>3, <4>1, OrderByFlow DEF RelayPays
      <4>3. counted => Answer = source
        BY <1>1, <4>1 DEF OrderInv, Answer
      <4> QED
        BY <4>1, <4>2, <4>3
    <3>3. CASE RelayPays
      BY <1>3, <3>3 DEF RelayPays
    <3>4. CASE RelayEnds
      <4>1. relay = "pieces" /\ relay' = "done"
        BY <3>4 DEF RelayEnds
      <4> QED
        BY <1>1, <1>3, <4>1, OrderByFlow DEF RelayPays
    <3> QED
      BY <3>1, <3>2, <3>3, <3>4
  <2> QED
    BY <2>1, <2>2
(* Before anything is counted, nothing has left the base.                   *)
<1>5. relay' \in {"relay", "paying"} /\ ~counted' =>
          got' = <<>> /\ held' = <<>> /\ out' = <<>> /\ hand' = <<>>
  <2> SUFFICES ASSUME relay' \in {"relay", "paying"}, ~counted'
               PROVE  got' = <<>> /\ held' = <<>> /\ out' = <<>> /\ hand' = <<>>
    OBVIOUS
  <2>1. relay \in {"relay", "paying"} /\ ~counted
    BY DEF vars, relayVars, Next, Producer, Produce, ProducerEnds, Relay, RelayTake,
           RelayPut, RelaySourceEnds, RelayPays, RelayEnds, Pump, PumpTake, PumpSourceEnds,
           PumpReads, PumpEmits, PumpCloses, Shutdown, PluginInit
  <2>2. got = <<>> /\ held = <<>> /\ out = <<>> /\ hand = <<>>
    BY <1>1, <2>1 DEF OrderInv
  <2>3. ReadFrom = <<>>
    BY <1>1, <2>1, <2>2 DEF PlacesInv, ReadFrom
  <2>4. got \o held = <<>>
    BY <2>2, Types, ConcatEmptySeq
  <2>5. CASE PumpEmits
    BY <2>2, <2>4, <2>5 DEF PumpEmits, relayVars
  <2>6. CASE ~PumpEmits
    BY <2>1, <2>2, <2>3, <2>6
       DEF vars, relayVars, pumpVars, Next, Producer, Produce, ProducerEnds, Relay, RelayTake,
           RelayPut, RelaySourceEnds, RelayPays, RelayEnds, Pump, PumpTake, PumpSourceEnds,
           PumpReads, PumpCloses, Shutdown, PluginInit
  <2> QED
    BY <2>5, <2>6
<1>6. relay' \in {"relay", "done"} /\ counted' => source # <<>>
  <2>1. CASE RelayTake
    <3>1. relay = "relay" /\ base # <<>>
      BY <2>1 DEF RelayTake
    <3>2. Flow = source
      BY <1>1, <3>1, OrderByFlow
    <3> QED
      BY <3>1, <3>2, FlowGrows
  <2>2. CASE ~RelayTake
    BY <1>1, <2>2
       DEF PlacesInv, OrderInv, vars, relayVars, Next, Producer, Produce, ProducerEnds, Relay,
           RelayPut, RelaySourceEnds, RelayPays, RelayEnds, Pump, PumpTake, PumpSourceEnds,
           PumpReads, PumpEmits, PumpCloses, Shutdown, PluginInit
  <2> QED
    BY <2>1, <2>2
(* The ends.                                                                *)
<1>7. /\ pump' \in {"close", "closing"} /\ ~failed' => got' = Answer
      /\ ended' = "clean" => got' = Answer
  <2>1. CASE PumpTake
    <3>1. pump = "take" /\ ended' = ended /\ pump' \in {"take", "emit"}
      BY <2>1 DEF PumpTake
    <3> QED
      BY <1>1, <3>1 DEF PlacesInv
  <2>2. CASE PumpSourceEnds
    <3>1. got' = got /\ got = Answer
      BY <2>2, AllThere DEF PumpSourceEnds
    <3> QED
      BY <3>1
  <2>3. CASE PumpReads
    BY <1>1, <2>3 DEF PumpReads, PlacesInv, OrderInv
  <2>4. CASE PumpEmits
    <3>1. pump = "emitting" /\ ended' = ended /\ (pump' = "take" \/ failed' = TRUE)
      BY <2>4 DEF PumpEmits
    <3> QED
      BY <1>1, <3>1 DEF PlacesInv
  <2>5. CASE PumpCloses
    <3>1. pump = "closing" /\ pump' = "done" /\ got' = got
          /\ (ended' = "clean" => ~failed)
      BY <2>5 DEF PumpCloses
    <3> QED
      BY <1>1, <3>1 DEF OrderInv
  <2>6. CASE UNCHANGED pumpVars
    BY <1>1, <2>6 DEF pumpVars, OrderInv
  <2> QED
    BY <2>1, <2>2, <2>3, <2>4, <2>5, <2>6
       DEF vars, Next, Producer, Produce, ProducerEnds, Relay, RelayTake, RelayPut,
           RelaySourceEnds, RelayPays, RelayEnds, Pump, Shutdown, PluginInit
<1> QED
  BY <1>2, <1>4, <1>5, <1>6, <1>7 DEF OrderInv, Flow

(* Nothing is lost, doubled, overtaken or mixed between the goroutines.     *)
THEOREM PipelineKeepsOrder == Spec => []PipeInv
<1>1. Init => TypeOK /\ PipeInv
  BY InitType, InitPipe
<1>2. TypeOK /\ PipeInv /\ [Next]_vars => TypeOK' /\ PipeInv'
  BY NextType, PlacesNext, OrderNext DEF PipeInv
<1> QED
  BY <1>1, <1>2, PTL DEF Spec
-----------------------------------------------------------------------------
(* Stream implements Delivery.                                              *)
LEMMA NextOfAnswer ==
    ASSUME TypeOK, PipeInv, NEW e \in Chunks, NEW r \in Seq(Chunks),
           Flow = got \o (<<e>> \o r)
    PROVE  Len(got) < Len(Answer) /\ Answer[Len(got) + 1] = e
<1>0. got \in Seq(Chunks) /\ Len(got) \in Nat
  BY Types
<1>1. Len(got) < Len(Flow) /\ Flow[Len(got) + 1] = e
  <2>1. /\ Len(got) < Len(got \o (<<e>> \o r))
        /\ (got \o (<<e>> \o r))[Len(got) + 1] = e
    BY <1>0, NextOfPrefix
  <2> QED
    BY <2>1
<1>2. Flow # <<>>
  BY <1>0, <1>1
<1>3. Flow = Answer
  BY <1>2, OrderByFlow DEF PipeInv, Answer, TypeOK
<1> QED
  BY <1>1, <1>3

(* The pump hands over the chunk at the head of the flow, or nothing.       *)
LEMMA PumpSends ==
    ASSUME TypeOK, PipeInv, PumpTake \/ PumpEmits
    PROVE  \/ got' = got
           \/ Len(got) < Len(Answer) /\ got' = Append(got, Answer[Len(got) + 1])
<1>1. CASE PumpTake
  <2>1. CASE ~job.collect
    BY <1>1, <2>1 DEF PumpTake
  <2>2. CASE job.collect
    <3> DEFINE e == Head(ReadFrom)
    <3>1. got' = Append(got, e) /\ held' = held /\ held = <<>> /\ ReadFrom # <<>>
      BY <1>1, <2>2 DEF PumpTake, PipeInv, PlacesInv
    <3>2. e \in Chunks /\ TypeOK'
      BY <1>1, <3>1, PumpType, Types, HeadTailProperties DEF Pump, ReadFrom
    <3> DEFINE r == out' \o (hand' \o (base' \o todo'))
    <3>3. r \in Seq(Chunks)
      BY <3>2, TypesNext, ConcatProperties
    <3>4. Flow' = got' \o r
      BY <3>1, <3>3, ConcatEmptySeq DEF Flow, InFlight
    <3>5. Flow = Flow'
      BY <1>1, PumpTakeFlow DEF PipeInv
    <3> HIDE DEF e, r
    <3>6. got' = got \o <<e>> /\ <<e>> \in Seq(Chunks) /\ got \in Seq(Chunks)
      BY <3>1, <3>2, Types, AppendIsConcat
    <3>7. Flow = got \o (<<e>> \o r)
      BY <3>3, <3>4, <3>5, <3>6, ConcatAssociative
    <3> QED
      BY <3>1, <3>2, <3>3, <3>7, NextOfAnswer
  <2> QED
    BY <2>1, <2>2
<1>2. CASE PumpEmits
  <2>1. got' = got \/ got' = got \o held
    BY <1>2 DEF PumpEmits
  <2>2. held \in Seq(Chunks) /\ Len(held) <= 1 /\ got \in Seq(Chunks)
    BY Types DEF TypeOK
  <2>3. CASE held = <<>>
    BY <2>1, <2>2, <2>3, ConcatEmptySeq
  <2>4. CASE held # <<>>
    <3> DEFINE e == Head(held)
    <3>1. held = <<e>> /\ e \in Chunks
      BY <2>2, <2>4, Single
    <3> DEFINE r == out \o (hand \o (base \o todo))
    <3>2. r \in Seq(Chunks)
      BY Types, ConcatProperties
    <3>3. Flow = got \o (held \o r)
      BY DEF Flow, InFlight
    <3> HIDE DEF e, r
    <3>4. got \o held = Append(got, e)
      BY <2>2, <3>1, AppendIsConcat
    <3> QED
      BY <2>1, <3>1, <3>2, <3>3, <3>4, NextOfAnswer
  <2> QED
    BY <2>3, <2>4
<1> QED
  BY <1>1, <1>2

LEMMA StepMaps == TypeOK /\ PipeInv /\ [Next]_vars => [D!Next]_(D!vars)
<1> SUFFICES ASSUME TypeOK, PipeInv, [Next]_vars PROVE [D!Next]_(D!vars)
  OBVIOUS
<1>1. Answer' = Answer
  BY AnswerKept
<1>2. ended = "open" <=> pump # "done"
  BY DEF PipeInv, PlacesInv
<1>3. CASE PumpTake \/ PumpEmits
  <2>1. ended = "open" /\ ended' = ended
    BY <1>2, <1>3 DEF PumpTake, PumpEmits
  <2> QED
    BY <1>1, <1>3, <2>1, PumpSends DEF D!Next, D!Send, D!vars
<1>4. CASE PumpSourceEnds
  <2>1. got' = got /\ ended = "open" /\ (ended' = ended \/ ended' = "clean")
    BY <1>2, <1>4 DEF PumpSourceEnds
  <2> QED
    BY <1>1, <1>4, <2>1, AllThere DEF D!Next, D!Close, D!vars
<1>5. CASE PumpCloses
  <2>1. /\ pump = "closing" /\ got' = got /\ ended = "open"
        /\ ended' \in {"lost", "error"} \/ (ended' = "clean" /\ ~failed)
    BY <1>2, <1>5 DEF PumpCloses
  <2>2. ended' = "clean" => got = Answer
    BY <2>1 DEF PipeInv, OrderInv
  <2> QED
    BY <1>1, <2>1, <2>2 DEF D!Next, D!Close, D!vars
<1>6. CASE UNCHANGED <<got, ended>>
  BY <1>1, <1>6 DEF D!vars
<1> QED
  BY <1>3, <1>4, <1>5, <1>6
     DEF vars, pumpVars, Next, Producer, Produce, ProducerEnds, Relay, RelayTake, RelayPut,
         RelaySourceEnds, RelayPays, RelayEnds, Pump, PumpReads, Shutdown, PluginInit

(* The goroutines, channels and the C boundary deliver an answer as one     *)
(* ordered sequence of one tier, complete when it is said to be.            *)
THEOREM StreamImplementsDelivery == Spec => Delivers
<1>1. Init => D!Init
  BY InitType, Types DEF Init, D!Init
<1>2. TypeOK /\ PipeInv /\ [Next]_vars => [D!Next]_(D!vars)
  BY StepMaps
<1>3. Spec => []TypeOK
  BY TypeCorrect
<1>4. Spec => []PipeInv
  BY PipelineKeepsOrder
<1> QED
  BY <1>1, <1>2, <1>3, <1>4, PTL DEF Spec, Delivers, D!Spec

-----------------------------------------------------------------------------
(* A pump between the two halves of callHost that holds the pointer of a    *)
(* host that has gone.                                                      *)
Stale == pump \in {"emitting", "closing"} /\ ptr # 0 /\ ptr # host

(* Each late call, and the one about to be made, has a shutdown of its own: *)
(* a pointer goes stale only by a shutdown, and is read anew for each call. *)
LateInv ==
    /\ host = 0 \/ host = downs + 1
    /\ ptr # 0 /\ ptr = downs + 1 => host = ptr
    /\ late + (IF Stale THEN 1 ELSE 0) <= downs
LEMMA LateNext == TypeOK /\ LateInv /\ [Next]_vars => LateInv'
<1> SUFFICES ASSUME TypeOK, LateInv, [Next]_vars PROVE LateInv'
  OBVIOUS
<1>1. downs \in Nat /\ late \in Nat /\ ptr \in 0 .. downs + 1 /\ host \in 0 .. downs + 1
  BY Types DEF TypeOK
<1>2. CASE Shutdown
  <2>1. /\ host = downs + 1 /\ host' = 0 /\ downs' = downs + 1
        /\ pump' = pump /\ ptr' = ptr /\ late' = late
    BY <1>2 DEF Shutdown, LateInv, pumpVars
  <2>2. late + 1 <= downs'
    BY <1>1, <2>1 DEF LateInv
  <2> QED
    BY <1>1, <2>1, <2>2 DEF LateInv, Stale
<1>3. CASE PluginInit
  <2>1. /\ host = 0 /\ host' = downs + 1 /\ downs' = downs
        /\ pump' = pump /\ ptr' = ptr /\ late' = late
    BY <1>3 DEF PluginInit, pumpVars
  <2>2. ptr # 0 => ptr # host'
    BY <1>1, <2>1 DEF LateInv
  <2>3. Stale' <=> Stale
    BY <2>1, <2>2 DEF Stale
  <2> QED
    BY <1>1, <2>1, <2>2, <2>3 DEF LateInv
<1>4. CASE PumpReads
  <2>1. ptr' = host /\ UNCHANGED <<late, host, downs>>
    BY <1>4 DEF PumpReads, hostVars
  <2>2. ~Stale'
    BY <2>1 DEF Stale
  <2> QED
    BY <1>1, <2>1, <2>2 DEF LateInv
<1>5. CASE PumpEmits \/ PumpCloses
  <2>1. /\ Called /\ pump \in {"emitting", "closing"} /\ UNCHANGED <<ptr, host, downs>>
        /\ pump' \in {"take", "close", "done"}
    BY <1>5 DEF PumpEmits, PumpCloses, hostVars
  <2>2. ~Stale' /\ late' = late + (IF Stale THEN 1 ELSE 0)
    BY <1>1, <2>1 DEF Stale, Called
  <2> QED
    BY <1>1, <2>1, <2>2 DEF LateInv
<1>6. CASE PumpTake \/ PumpSourceEnds
  <2>1. /\ pump = "take" /\ pump' \in {"take", "emit", "close", "done"}
        /\ UNCHANGED <<ptr, late, host, downs>>
    BY <1>6 DEF PumpTake, PumpSourceEnds, hostVars
  <2> QED
    BY <1>1, <2>1 DEF LateInv, Stale
<1>7. CASE UNCHANGED <<pumpVars, hostVars>>
  BY <1>7 DEF LateInv, Stale, pumpVars, hostVars
<1> QED
  BY <1>2, <1>3, <1>4, <1>5, <1>6, <1>7
     DEF vars, Next, Producer, Produce, ProducerEnds, Relay, RelayTake, RelayPut,
         RelaySourceEnds, RelayPays, RelayEnds, Pump

(* A stream calls a host that has gone at most once per shutdown.           *)
THEOREM LateCallsBounded == Spec => []AtMostOneLateCall
<1>1. Init => LateInv
  BY DEF Init, LateInv, Stale
<1>2. TypeOK /\ LateInv /\ [Next]_vars => LateInv'
  BY LateNext
<1>3. TypeOK /\ LateInv => AtMostOneLateCall
  <2> SUFFICES ASSUME TypeOK, LateInv PROVE late <= downs
    BY DEF AtMostOneLateCall
  <2>1. late \in Nat /\ downs \in Nat
    BY Types
  <2> QED
    BY <2>1 DEF LateInv
<1>4. Spec => []TypeOK
  BY TypeCorrect
<1> QED
  BY <1>1, <1>2, <1>3, <1>4, PTL DEF Spec

-----------------------------------------------------------------------------
(* What the client reads.  The chunks the producer has to put are those of  *)
(* the job all along.                                                       *)
SourceInv == source = Source(job)

(* No step changes the job or its chunks.                                   *)
LEMMA SourceKept == [Next]_vars /\ SourceInv => SourceInv'
BY AnswerKept DEF SourceInv

(* A client that is told its stream is complete has the answer.             *)
LEMMA CompleteHas ==
    ASSUME TypeOK, PipeInv, SourceInv, NEW kind, Complete(kind)
    PROVE  /\ got = Source(job) /\ job.source = kind
           /\ job \in Jobs /\ job.body \in Seq(Line)
<1>1. got = Answer /\ source # <<>> /\ job.source = kind
  BY DEF PipeInv, OrderInv, Complete
<1>2. job \in Jobs
  BY DEF TypeOK
<1> QED
  BY <1>1, <1>2, JobTypes DEF Answer, SourceInv

(* The three properties, from the lemmas about the converters.              *)
LEMMA ChatComes == TypeOK /\ PipeInv /\ SourceInv => ChatArrives
<1> SUFFICES ASSUME TypeOK, PipeInv, SourceInv, Complete("chat")
             PROVE  (Message(got).text = ChatCompletion(job.body).text)
                       <=> ~\E at \in DOMAIN job.body : job.body[at].kind = "doubled"
  BY DEF ChatArrives
<1>1. got = Source(job) /\ job.source = "chat" /\ job.body \in Seq(Line)
  BY CompleteHas
<1>2. got = ChatChunks(job.body)
  BY <1>1 DEF Source
<1> QED
  BY <1>1, <1>2, ChatReads

LEMMA ResponsesCome == TypeOK /\ PipeInv /\ SourceInv => ResponsesArrive
<1> SUFFICES ASSUME TypeOK, PipeInv, SourceInv, Complete("responses")
             PROVE  (Message(got) = Meant(job.body)) <=> ~SaysItTwice(job.body)
  BY DEF ResponsesArrive
<1>1. got = Source(job) /\ job.source = "responses" /\ job.body \in Seq(Line)
  BY CompleteHas
<1>2. got = ResponsesChunks(job.body)
  BY <1>1 DEF Source
<1> QED
  BY <1>1, <1>2, ResponsesReads

LEMMA PaidComes == TypeOK /\ PipeInv /\ SourceInv => PaidArrives
<1> SUFFICES ASSUME TypeOK, PipeInv, SourceInv, ended = "clean", job.answer.readable,
                    job.source = "paid" \/ (Relayed(job) /\ source = <<>>)
             PROVE  LET m == Message(got)
                    IN  /\ (m.text = [k \in DOMAIN job.answer.widths |-> k])
                              <=> CutsClean(job.answer.widths)
                        /\ DOMAIN m.calls = {} <=> job.answer.calls = 0
  BY DEF PaidArrives
<1>1. got = Answer /\ job \in Jobs
  BY DEF PipeInv, OrderInv, TypeOK
<1>2. job.answer.widths \in Seq(1 .. 4) /\ job.answer.calls \in Nat
  BY <1>1, JobTypes
<1>3. got = Pieces(job.answer)
  <2>1. CASE job.source = "paid"
    BY <1>1, <2>1 DEF Answer, Relayed, SourceInv, Source
  <2>2. CASE Relayed(job) /\ source = <<>>
    <3>1. job.answer # NoAnswer
      BY DEF NoAnswer
    <3> QED
      BY <1>1, <2>2, <3>1 DEF Answer, Fallback
  <2> QED
    BY <2>1, <2>2
<1> QED
  BY <1>2, <1>3, PaidReads

(* The invariant the theorems on what a client reads rest on.               *)
LEMMA ClientReads ==
    Spec => [](TypeOK /\ PipeInv /\ SourceInv)
<1>1. Init => SourceInv
  BY DEF Init, SourceInv
<1>2. [Next]_vars /\ SourceInv => SourceInv'
  BY SourceKept
<1> QED
  BY <1>1, <1>2, TypeCorrect, PipelineKeepsOrder, PTL DEF Spec

(* A chat client told that its stream is complete reads the same text as    *)
(* from the completion of the same body, unless a line says "data:" twice.  *)
THEOREM ChatReadsTheSame == Spec => []ChatArrives
BY ClientReads, ChatComes, PTL

(* A client told that its responses stream is complete has the message the  *)
(* upstream meant, unless the body sends its text both ways.                *)
THEOREM ResponsesReadAsMeant == Spec => []ResponsesArrive
BY ClientReads, ResponsesCome, PTL

(* A paid answer arrives with its text exactly when no character lies       *)
(* across a cut, and with a call exactly when it has one.                   *)
THEOREM PaidReadsIfCutClean == Spec => []PaidArrives
BY ClientReads, PaidComes, PTL
=============================================================================
