--------------------------- MODULE ExecutorProofs ---------------------------
(***************************************************************************)
(* Theorems about Executor, for any number of paid keys.                    *)
(***************************************************************************)
EXTENDS Executor, TLAPS

Inv == TypeOK /\ SpendInv

(* The number of keys is a number, and only free models are not SystemOne.  *)
LEMMA Given ==
    ASSUME TypeOK
    PROVE  cfg.keys \in Nat /\ cfg.keys <= MaxKeys /\ req.free \in BOOLEAN
           /\ cfg.failover \in BOOLEAN
BY ExecutorAssumption DEF TypeOK, Configs, Requests, Models

(* Nothing has been spent.                                                  *)
LEMMA InitInv == Init => Inv
<1> SUFFICES ASSUME Init PROVE Inv
  OBVIOUS
<1>1. TypeOK
  <2>1. left \in 0 .. MaxKeys /\ asked \in Nat /\ billed \in Nat
    BY ExecutorAssumption DEF Init
  <2>2. delivered \subseteq {"free", "paid"} /\ chunks \in BOOLEAN /\ marked \in BOOLEAN
    BY DEF Init
  <2>3. req \in Requests /\ cfg \in Configs
    BY DEF Init
  <2>4. /\ pc \in {"start", "free", "keys", "convert", "done"}
        /\ why \in {"nothing", "paid_model", "exhausted", "error", "empty"}
        /\ body \in {"none", "text", "tools", "closing", "blank", "answers", "junk"}
        /\ outcome \in {"pending", "ok", "error"}
    BY DEF Init
  <2> QED
    BY <2>1, <2>2, <2>3, <2>4 DEF TypeOK
<1>2. cfg.keys \in Nat
  BY <1>1, Given
<1>3. SpendInv
  BY <1>2 DEF Init, SpendInv, WhyInv, CostInv, BodyInv, Allowance, FreeContentIsFree
<1> QED
  BY <1>1, <1>3 DEF Inv

(* A call that ends without an answer owes nothing it did not owe before.   *)
LEMMA EndStep ==
    ASSUME Inv, UNCHANGED <<req, cfg>>,
           pc # "done",
           Fail \/ FailFree,
           asked' \in Nat, billed' \in Nat,
           why = "nothing" => asked' = 0,
           asked' <= Allowance, billed' <= asked',
           billed' <= IF req.free THEN 2 ELSE 1
    PROVE  Inv'
<1> USE DEF Inv
<1>1. delivered = {}
  BY DEF SpendInv, BodyInv
<1>2. /\ pc' = "done"
      /\ outcome' \in {"ok", "error"}
      /\ UNCHANGED <<why, left, body>>
      /\ delivered' = {} /\ chunks' \in BOOLEAN /\ marked' \in BOOLEAN
  BY <1>1 DEF Fail, FailFree, Deliver, TypeOK
<1>3. TypeOK'
  BY <1>2 DEF TypeOK
<1>4. WhyInv'
  BY <1>2 DEF SpendInv, WhyInv
<1>5. CostInv'
  BY <1>2 DEF CostInv, Allowance
<1>6. BodyInv' /\ FreeContentIsFree'
  BY <1>2 DEF BodyInv, FreeContentIsFree
<1> QED
  BY <1>3, <1>4, <1>5, <1>6 DEF SpendInv

(* A loop over the keys begins within its allowance.                        *)
LEMMA AskStep ==
    ASSUME Inv, UNCHANGED <<req, cfg, billed>>,
           NEW purpose \in {"paid_model", "exhausted", "error", "empty"},
           AskKeys(purpose), CanAsk, pc # "done",
           asked' \in Nat, billed <= asked',
           billed <= 1, purpose # "empty" => billed = 0,
           purpose = "paid_model" <=> ~req.free,
           req.free => cfg.failover,
           asked' <= IF purpose \in {"paid_model", "exhausted"} THEN 0 ELSE cfg.keys
    PROVE  Inv'
<1> USE DEF Inv
<1>1. delivered = {}
  BY DEF SpendInv, BodyInv
<1>2. cfg.keys \in Nat /\ cfg.keys > 0 /\ cfg.keys <= MaxKeys
  BY Given DEF CanAsk
<1>3. pc' = "keys" /\ why' = purpose /\ left' = cfg.keys /\ UNCHANGED <<body, answer>>
  BY DEF AskKeys
<1>4. TypeOK'
  BY <1>2, <1>3, ExecutorAssumption DEF TypeOK, answer
<1>5. WhyInv'
  BY <1>2, <1>3, Given DEF WhyInv
<1>6. CostInv'
  BY <1>2, <1>3, <1>4, Given DEF CostInv, Allowance, TypeOK
<1>7. BodyInv' /\ FreeContentIsFree'
  BY <1>1, <1>3 DEF BodyInv, FreeContentIsFree, answer
<1> QED
  BY <1>4, <1>5, <1>6, <1>7 DEF SpendInv

(* An error of the free tier is answered with at most one more loop, and    *)
(* only with failover_paid.                                                 *)
LEMMA FreeErrorStep ==
    ASSUME Inv, UNCHANGED <<req, cfg, billed>>, req.free, FreeError,
           \/ pc = "free" /\ asked' = asked
           \/ pc = "keys" /\ why = "exhausted",
           asked' \in Nat, billed = 0, asked' <= cfg.keys,
           why = "nothing" => asked' = 0
    PROVE  Inv'
<1>1. CASE cfg.failover /\ CanAsk /\ AskKeys("error")
  BY <1>1, AskStep
<1>2. CASE FailFree
  <2>1. asked' <= Allowance /\ billed' <= asked' /\ billed' \in Nat
    BY Given DEF Allowance, Inv, TypeOK
  <2> QED
    BY <1>2, <2>1, EndStep, Given DEF Inv
<1> QED
  BY <1>1, <1>2 DEF FreeError

(* A loop over the keys that ends without an answer.                        *)
LEMMA KeysFailedStep ==
    ASSUME Inv, pc = "keys", KeysFailed, UNCHANGED <<req, cfg, billed>>,
           asked' \in Nat, asked <= asked', asked' <= asked + left
    PROVE  Inv'
<1>1. /\ why \in {"paid_model", "exhausted", "error", "empty"}
      /\ billed \in Nat /\ asked \in Nat /\ left \in Nat /\ cfg.keys \in Nat
      /\ asked' <= Allowance /\ billed <= asked /\ Allowance \in Nat
      /\ billed <= IF req.free THEN 2 ELSE 1
  BY Given, ExecutorAssumption DEF Inv, SpendInv, WhyInv, CostInv, TypeOK, Allowance
<1>2. CASE why = "exhausted"
  <2>1. req.free /\ FreeError /\ billed = 0 /\ asked' <= cfg.keys
    BY <1>1, <1>2 DEF KeysFailed, Inv, SpendInv, WhyInv, CostInv, Allowance
  <2> QED
    BY <1>2, <2>1, FreeErrorStep
<1>3. CASE why # "exhausted"
  <2>1. Fail \/ FailFree
    BY <1>1, <1>3 DEF KeysFailed
  <2> QED
    BY <1>1, <2>1, EndStep
<1> QED
  BY <1>2, <1>3

(* A key that answers with an error is the only cost of trying it.          *)
LEMMA KeyErrorStep ==
    ASSUME Inv, (\E called \in BOOLEAN : KeyRetryable(called)) \/ KeyFatal
    PROVE  Inv'
<1>1. pc = "keys" /\ UNCHANGED <<req, cfg, billed>> /\ asked' \in {asked, asked + 1}
  BY DEF KeyRetryable, KeyFatal
<1>2. asked \in Nat /\ left \in Nat /\ left > 0
  BY <1>1, ExecutorAssumption DEF Inv, TypeOK, SpendInv, WhyInv
<1>3. asked' \in Nat /\ asked <= asked' /\ asked' <= asked + left
  BY <1>1, <1>2
<1>4. CASE KeysFailed
  BY <1>1, <1>3, <1>4, KeysFailedStep
<1>5. CASE left > 1 /\ left' = left - 1 /\ UNCHANGED <<pc, why, body, answer>>
  <2>1. TypeOK'
    BY <1>1, <1>2, <1>3, <1>5, ExecutorAssumption DEF Inv, TypeOK, answer
  <2>2. WhyInv'
    BY <1>1, <1>2, <1>5 DEF Inv, SpendInv, WhyInv
  <2>3. asked' <= Allowance /\ asked' + left' <= Allowance /\ Allowance' = Allowance
        /\ billed \in Nat /\ Allowance \in Nat
    BY <1>1, <1>2, <1>5, Given DEF Inv, SpendInv, CostInv, Allowance, TypeOK
  <2>4. CostInv'
    <3>1. why # "nothing" /\ why' = why /\ pc' = pc /\ billed' = billed /\ req' = req
      BY <1>1, <1>5 DEF Inv, SpendInv, WhyInv
    <3>2. /\ billed <= asked /\ billed <= 1
          /\ why # "empty" => billed = 0
          /\ billed <= IF req.free THEN 2 ELSE 1
      BY <1>1 DEF Inv, SpendInv, CostInv
    <3>3. billed <= asked'
      BY <1>2, <1>3, <2>3, <3>2
    <3> QED
      BY <2>3, <3>1, <3>2, <3>3 DEF CostInv
  <2>5. BodyInv' /\ FreeContentIsFree'
    BY <1>1, <1>5 DEF Inv, SpendInv, BodyInv, FreeContentIsFree, answer
  <2> QED
    BY <2>1, <2>2, <2>4, <2>5 DEF Inv, SpendInv
<1> QED
  BY <1>4, <1>5 DEF KeyRetryable, KeyFatal

(* A paid answer is billed, within the allowance.                           *)
LEMMA KeyAnswerStep ==
    ASSUME Inv, PaidModelAnswers \/ FallbackPassedOn \/ FallbackDelivered
    PROVE  Inv'
<1> USE DEF Inv
<1>1. /\ pc = "keys" /\ UNCHANGED <<req, cfg>>
      /\ asked' = asked + 1 /\ billed' = billed + 1
      /\ UNCHANGED <<why, left>>
  BY DEF PaidModelAnswers, FallbackPassedOn, FallbackDelivered, Deliver, Fail
<1>2. /\ asked \in Nat /\ billed \in Nat /\ left \in Nat /\ left > 0
      /\ Allowance \in Nat /\ Allowance' = Allowance
      /\ delivered = {} /\ why # "nothing"
  BY <1>1, Given, ExecutorAssumption
     DEF TypeOK, SpendInv, WhyInv, CostInv, BodyInv, Allowance
<1>3. asked' <= Allowance /\ billed' <= asked' /\ billed' <= 2
      /\ (why # "empty" => billed' = 1)
  BY <1>1, <1>2 DEF SpendInv, CostInv
<1>4. pc' \in {"convert", "done"} /\ (pc' = "convert" => why = "exhausted")
      /\ delivered' \in {{}, {"paid"}} /\ (pc' = "convert" => delivered' = {})
      /\ (pc' = "convert" => body' \in PaidBodies)
      /\ (pc' = "done" => body' \in PaidBodies \cup {body})
      /\ outcome' \in {"pending", "ok", "error"} /\ chunks' \in BOOLEAN /\ marked' \in BOOLEAN
  <2>1. FallbackBodies(req) \subseteq PaidBodies
    BY DEF FallbackBodies, PaidBodies
  <2>2. CASE PaidModelAnswers
    BY <1>2, <2>2 DEF PaidModelAnswers, Deliver, Fail, TypeOK
  <2>3. CASE FallbackPassedOn
    BY <1>2, <2>1, <2>3 DEF FallbackPassedOn, answer, TypeOK
  <2>4. CASE FallbackDelivered
    <3>1. PICK b \in FallbackBodies(req) :
             /\ body' = b
             /\ Deliver(IF b = "paid_json" THEN {"paid"} ELSE {},
                        ~req.streaming \/ b \in {"paid_json", "paid_hollow"},
                        why = "error")
      BY <2>4 DEF FallbackDelivered
    <3>2. (~req.streaming \/ b \in {"paid_json", "paid_hollow"}) \in BOOLEAN
      BY Given
    <3> QED
      BY <1>2, <2>1, <3>1, <3>2 DEF Deliver
  <2> QED
    BY <2>2, <2>3, <2>4
<1>5. TypeOK'
  BY <1>1, <1>2, <1>4 DEF TypeOK
<1>6. WhyInv'
  BY <1>1, <1>2, <1>4 DEF SpendInv, WhyInv
<1>7. CostInv'
  BY <1>1, <1>2, <1>3, <1>4 DEF SpendInv, WhyInv, CostInv
<1>8. BodyInv' /\ FreeContentIsFree'
  BY <1>4 DEF BodyInv, FreeContentIsFree
<1> QED
  BY <1>5, <1>6, <1>7, <1>8 DEF SpendInv

(* The free tier's verdict, and the conversion of its body, cost nothing.   *)
LEMMA FreeStep ==
    ASSUME Inv, Start \/ Served \/ Rejected \/ Exhausted
    PROVE  Inv'
<1>1. pc \in {"start", "free"} /\ UNCHANGED <<req, cfg, asked, billed>>
  BY DEF Start, Served, Rejected, Exhausted, costs
<1>2. /\ why = "nothing" /\ asked = 0 /\ billed = 0 /\ delivered = {}
      /\ pc = "free" => req.free
      /\ cfg.keys \in Nat /\ Allowance \in Nat
  BY <1>1, Given DEF Inv, TypeOK, SpendInv, WhyInv, CostInv, BodyInv, Allowance
<1>3. CASE /\ pc' \in {"free", "convert"} /\ req.free
           /\ body' \in {"none", "text", "tools", "closing", "blank", "answers", "junk"}
                        \cup PaidBodies
           /\ UNCHANGED <<why, left, answer>>
  <2>1. TypeOK'
    BY <1>1, <1>3 DEF Inv, TypeOK, answer
  <2>2. WhyInv' /\ CostInv' /\ BodyInv' /\ FreeContentIsFree'
    BY <1>1, <1>2, <1>3, Given
       DEF Inv, WhyInv, CostInv, BodyInv, FreeContentIsFree, Allowance, answer
  <2> QED
    BY <2>1, <2>2 DEF Inv, SpendInv
<1>4. CASE Fail
  BY <1>1, <1>2, <1>4, EndStep
<1>5. CASE FreeError /\ pc = "free"
  BY <1>1, <1>2, <1>5, FreeErrorStep
<1>6. CASE ~req.free /\ CanAsk /\ AskKeys("paid_model")
  BY <1>1, <1>2, <1>6, AskStep
<1>7. CASE pc = "free" /\ cfg.failover /\ CanAsk /\ AskKeys("exhausted")
  BY <1>1, <1>2, <1>7, AskStep
<1>8. FreeBodies(req.endpoint) \subseteq {"text", "tools", "closing", "blank", "answers", "junk"}
  BY DEF FreeBodies
<1>9. CASE Start
  BY <1>9, <1>3, <1>4, <1>6 DEF Start, Inv, TypeOK
<1>10. CASE Served
  BY <1>10, <1>2, <1>3, <1>8 DEF Served
<1> QED
  BY <1>5, <1>7, <1>9, <1>10 DEF Rejected, Exhausted

(* What is delivered is the body's, and a second loop starts only when the  *)
(* body had nothing.                                                        *)
LEMMA ConvertStep ==
    ASSUME Inv, ConvertCompletion \/ ConvertStream \/ ConvertAnswers
    PROVE  Inv'
<1> USE DEF Inv
<1>1. pc = "convert" /\ UNCHANGED <<req, cfg, asked, billed>>
  BY DEF ConvertCompletion, ConvertStream, ConvertAnswers, costs
<1>2. /\ asked \in Nat /\ billed \in Nat /\ req.free /\ delivered = {}
      /\ why \in {"nothing", "exhausted"} /\ billed <= 1 /\ billed <= asked
      /\ asked <= cfg.keys /\ asked <= Allowance /\ cfg.keys \in Nat
      /\ (why = "nothing" => asked = 0)
      /\ (body \notin PaidBodies => billed = 0)
  BY <1>1, Given DEF TypeOK, SpendInv, WhyInv, CostInv, BodyInv, Allowance
<1>3. Content(body) \subseteq {"free", "paid"} /\ ("free" \in Content(body) => billed = 0)
  BY <1>2 DEF Content, PaidBodies
<1>4. CASE \E sources \in SUBSET {"free", "paid"}, some \in BOOLEAN :
              /\ Deliver(sources, some, FALSE) /\ UNCHANGED body
              /\ ("free" \in sources => billed = 0)
  <2>1. PICK sources \in SUBSET {"free", "paid"}, some \in BOOLEAN :
              /\ Deliver(sources, some, FALSE) /\ UNCHANGED body
              /\ ("free" \in sources => billed = 0)
    BY <1>4
  <2>2. TypeOK'
    BY <1>1, <1>2, <2>1 DEF Deliver, TypeOK
  <2>3. WhyInv' /\ CostInv'
    BY <1>1, <1>2, <2>1 DEF Deliver, SpendInv, WhyInv, CostInv, Allowance
  <2>4. BodyInv' /\ FreeContentIsFree'
    BY <1>1, <1>2, <2>1 DEF Deliver, BodyInv, FreeContentIsFree
  <2> QED
    BY <2>2, <2>3, <2>4 DEF SpendInv
<1>5. CASE Fail \/ FailFree
  BY <1>1, <1>2, <1>5, EndStep
<1>6. CASE cfg.failover /\ CanAsk /\ AskKeys("empty")
  BY <1>1, <1>2, <1>6, AskStep
<1>7. CASE ConvertCompletion
  BY <1>7, <1>3, <1>4, <1>5, <1>6 DEF ConvertCompletion
<1>8. CASE ConvertStream
  <2>1. AnyChunk(body) \in BOOLEAN
    BY DEF AnyChunk
  <2> QED
    BY <1>8, <2>1, <1>3, <1>4, <1>5, <1>6 DEF ConvertStream
<1>9. CASE ConvertAnswers
  BY <1>9, <1>2, <1>4, <1>5 DEF ConvertAnswers, PaidBodies
<1> QED
  BY <1>7, <1>8, <1>9

(* What a request may have spent follows from where it is.                  *)
THEOREM SpendInvariance == Spec => []Inv
<1>1. Inv /\ [Next]_vars => Inv'
  <2> SUFFICES ASSUME Inv, [Next]_vars PROVE Inv'
    OBVIOUS
  <2>1. CASE UNCHANGED vars
    BY <2>1 DEF vars, answer, costs, Inv, TypeOK, SpendInv, WhyInv, CostInv, BodyInv,
               FreeContentIsFree, Allowance
  <2> QED
    BY <2>1, KeyErrorStep, KeyAnswerStep, FreeStep, ConvertStep DEF Next
<1> QED
  BY InitInv, <1>1, PTL DEF Spec

(* The variables of a request keep their types on every path through it.    *)
THEOREM TypeCorrect == Spec => []TypeOK
<1>1. Inv => TypeOK
  BY DEF Inv
<1> QED
  BY <1>1, SpendInvariance, PTL

(* What has been spent is what the place and the purpose of a request allow *)
(* (executeFree, executeFreeStream, freeCall).                              *)
THEOREM SpentByPlace == Spec => []SpendInv
<1>1. Inv => SpendInv
  BY DEF Inv
<1> QED
  BY <1>1, SpendInvariance, PTL

(* Without failover_paid a free model never touches a paid key.             *)
THEOREM NothingPaidUnasked == Spec => []PaysOnlyWithLeave
<1>1. Inv => PaysOnlyWithLeave
  BY DEF Inv, TypeOK, SpendInv, WhyInv, CostInv, PaysOnlyWithLeave
<1> QED
  BY <1>1, SpendInvariance, PTL

(* Nobody is billed for what the free tier said.                            *)
THEOREM FreeIsFree == Spec => []FreeContentIsFree
<1>1. Inv => FreeContentIsFree
  BY DEF Inv, SpendInv
<1> QED
  BY <1>1, SpendInvariance, PTL

(* At most two loops over the keys and two billed answers for a request to  *)
(* a free model, one of each for a paid one.                                *)
THEOREM PaidBudgetKept == Spec => []PaidBudget
<1>1. Inv => PaidBudget
  <2> SUFFICES ASSUME Inv PROVE PaidBudget
    OBVIOUS
  <2>1. asked \in Nat /\ billed \in Nat /\ cfg.keys \in Nat /\ asked <= Allowance
        /\ billed <= IF req.free THEN 2 ELSE 1
    BY Given DEF Inv, TypeOK, SpendInv, CostInv
  <2>2. why \in {"nothing", "paid_model"} \/ req.free
    BY DEF Inv, TypeOK, SpendInv, WhyInv
  <2>3. why = "nothing" => asked = 0
    BY DEF Inv, SpendInv, CostInv
  <2> QED
    BY <2>1, <2>2, <2>3 DEF PaidBudget, Allowance
<1> QED
  BY <1>1, SpendInvariance, PTL
(***************************************************************************)
(* With failover on, an answer is never an empty screen.                   *)
(***************************************************************************)
EmptyInv == (pc # "done" => outcome = "pending") /\ FailoverHidesEmptiness

(* A call that ends with an error, or a free stream that ends with its      *)
(* terminal chunk, hides nothing.                                           *)
LEMMA FailHides ==
    ASSUME Inv, Fail \/ FailFree, UNCHANGED <<req, cfg>>
    PROVE  EmptyInv'
BY DEF Fail, FailFree, Deliver, EmptyInv, FailoverHidesEmptiness, Inv, TypeOK, Requests, Models

(* So does one that goes on with the keys.                                  *)
LEMMA OnHides ==
    ASSUME Inv, EmptyInv, pc # "done", outcome' = outcome, pc' # "done"
    PROVE  EmptyInv'
BY DEF EmptyInv, FailoverHidesEmptiness

LEMMA FreeErrorHides ==
    ASSUME Inv, EmptyInv, pc # "done", FreeError, UNCHANGED <<req, cfg>>
    PROVE  EmptyInv'
<1>1. CASE AskKeys("error")
  BY <1>1, OnHides DEF AskKeys, answer
<1>2. CASE FailFree
  BY <1>2, FailHides
<1> QED
  BY <1>1, <1>2 DEF FreeError

LEMMA KeysFailedHides ==
    ASSUME Inv, EmptyInv, pc # "done", KeysFailed, UNCHANGED <<req, cfg>>
    PROVE  EmptyInv'
BY FreeErrorHides, FailHides DEF KeysFailed

LEMMA HidesNext == Inv /\ EmptyInv /\ [Next]_vars => EmptyInv'
<1> SUFFICES ASSUME Inv, EmptyInv, [Next]_vars PROVE EmptyInv'
  OBVIOUS
<1>1. CASE UNCHANGED vars
  BY <1>1 DEF vars, answer, costs, EmptyInv, FailoverHidesEmptiness
<1>2. CASE Start
  <2>1. pc # "done" /\ UNCHANGED <<req, cfg>>
    BY <1>2 DEF Start
  <2>2. Fail \/ (pc' # "done" /\ outcome' = outcome)
    BY <1>2 DEF Start, AskKeys, answer
  <2> QED
    BY <2>1, <2>2, FailHides, OnHides
<1>3. CASE Served
  BY <1>3, OnHides DEF Served, answer
<1>4. CASE Rejected
  BY <1>4, FreeErrorHides DEF Rejected
<1>5. CASE Exhausted
  <2>1. pc # "done" /\ UNCHANGED <<req, cfg>> /\ (FreeError \/ AskKeys("exhausted"))
    BY <1>5 DEF Exhausted
  <2> QED
    BY <2>1, FreeErrorHides, OnHides DEF AskKeys, answer
<1>6. CASE (\E called \in BOOLEAN : KeyRetryable(called)) \/ KeyFatal
  <2>1. pc # "done" /\ UNCHANGED <<req, cfg>>
        /\ (KeysFailed \/ (pc' = pc /\ outcome' = outcome))
    BY <1>6 DEF KeyRetryable, KeyFatal, answer
  <2> QED
    BY <2>1, KeysFailedHides, OnHides
<1>7. CASE PaidModelAnswers
  <2>1. ~req.free /\ req' = req /\ pc' = "done"
    BY <1>7 DEF PaidModelAnswers, Deliver, Fail, Inv, SpendInv, WhyInv
  <2> QED
    BY <2>1 DEF EmptyInv, FailoverHidesEmptiness
<1>8. CASE FallbackPassedOn
  BY <1>8, OnHides DEF FallbackPassedOn, answer
<1>9. CASE FallbackDelivered
  <2>1. PICK b \in FallbackBodies(req) :
           /\ body' = b
           /\ Deliver(IF b = "paid_json" THEN {"paid"} ELSE {},
                      ~req.streaming \/ b \in {"paid_json", "paid_hollow"},
                      why = "error")
    BY <1>9 DEF FallbackDelivered
  <2>2. /\ pc' = "done" /\ req' = req
        /\ b = "paid_json" => delivered' # {}
        /\ chunks' = (~req.streaming \/ b \in {"paid_json", "paid_hollow"})
    BY <1>9, <2>1 DEF Deliver, FallbackDelivered
  <2>3. /\ b \in {"paid_json", "paid_hollow", "paid_sse", "paid_closing", "paid_none"}
        /\ b \in {"paid_sse", "paid_closing"} => req.sse
    BY DEF FallbackBodies
  <2>4. req.sse => req.streaming
    BY DEF Inv, TypeOK, Requests
  <2>5. ~req.streaming => delivered' # {} \/ body' \in {"paid_hollow", "paid_none"}
    BY <2>1, <2>2, <2>3, <2>4
  <2>6. req.streaming =>
           chunks' \/ body' \in {"paid_sse", "paid_closing", "paid_none"}
    BY <2>1, <2>2, <2>3
  <2> QED
    BY <2>2, <2>5, <2>6 DEF EmptyInv, FailoverHidesEmptiness
<1>10. CASE ConvertCompletion
  <2>1. pc # "done" /\ ~req.streaming /\ UNCHANGED <<req, cfg>>
    BY <1>10 DEF ConvertCompletion
  <2>2. CASE (Content(body) # {} \/ ~cfg.failover) /\ Deliver(Content(body), TRUE, FALSE)
    BY <2>1, <2>2 DEF Deliver, EmptyInv, FailoverHidesEmptiness
  <2>3. CASE AskKeys("empty")
    BY <2>1, <2>3, OnHides DEF AskKeys, answer
  <2>4. CASE Fail
    BY <2>1, <2>4, FailHides
  <2> QED
    BY <1>10, <2>2, <2>3, <2>4 DEF ConvertCompletion
<1>11. CASE ConvertStream
  <2>1. pc # "done" /\ req.streaming /\ UNCHANGED <<req, cfg>>
    BY <1>11 DEF ConvertStream
  <2>2. CASE (AnyChunk(body) \/ ~cfg.failover) /\ Deliver(Content(body), AnyChunk(body), FALSE)
    BY <2>1, <2>2 DEF Deliver, EmptyInv, FailoverHidesEmptiness
  <2>3. CASE AskKeys("empty")
    BY <2>1, <2>3, OnHides DEF AskKeys, answer
  <2>4. CASE FailFree
    BY <2>1, <2>4, FailHides
  <2> QED
    BY <1>11, <2>2, <2>3, <2>4 DEF ConvertStream
<1>12. CASE ConvertAnswers
  <2>1. UNCHANGED <<req, cfg>> /\ (Deliver({"free"}, TRUE, FALSE) \/ Fail)
    BY <1>12 DEF ConvertAnswers
  <2>2. CASE Deliver({"free"}, TRUE, FALSE)
    BY <2>2 DEF Deliver, EmptyInv, FailoverHidesEmptiness
  <2> QED
    BY <2>1, <2>2, FailHides
<1> QED
  BY <1>1, <1>2, <1>3, <1>4, <1>5, <1>6, <1>7, <1>8, <1>9, <1>10, <1>11, <1>12 DEF Next

(* With failover_paid what succeeds for a free model says something, and a   *)
(* stream has a chunk, unless the paid tier itself answered last with       *)
(* nothing, or for a stream in SSE (isEmptyCompletion, the count of         *)
(* streamWithPaidFallback, chunkCompletion).                                *)
THEOREM EmptinessHidden == Spec => []FailoverHidesEmptiness
<1>1. Init => EmptyInv
  BY DEF Init, EmptyInv, FailoverHidesEmptiness
<1>2. Inv /\ EmptyInv /\ [Next]_vars => EmptyInv'
  BY HidesNext
<1>3. EmptyInv => FailoverHidesEmptiness
  BY DEF EmptyInv
<1> QED
  BY <1>1, <1>2, <1>3, SpendInvariance, PTL DEF Spec

(***************************************************************************)
(* What is replaced said nothing, or could not be read.                    *)
(***************************************************************************)

(* The three exceptions are all there are: what else says something has     *)
(* content for every endpoint that converts, and so a chunk.                *)
LEMMA EmptySaysNothing ==
    ASSUME Inv, pc = "convert", req.endpoint # "systemone",
           Content(body) = {}, Says(body)
    PROVE  Unreadable(body)
<1>1. req.endpoint \in {"chat", "responses"}
  BY DEF Inv, TypeOK, Requests, Models
<1>2. body \in {"text", "tools", "answers", "paid_json", "paid_sse"}
  BY DEF Says
<1>3. body \notin {"text", "answers"}
  BY DEF Content
<1>4. CASE body = "tools"
  BY <1>1, <1>4 DEF Content, Unreadable
<1>5. CASE body = "paid_sse"
  BY <1>1, <1>5 DEF Content, Unreadable
<1>6. CASE body = "paid_json"
  BY <1>6 DEF Unreadable
<1> QED
  BY <1>2, <1>3, <1>4, <1>5, <1>6

(* A free answer that the paid tier replaces said nothing, or is of a kind  *)
(* that its conversion does not read (isEmptyCompletion,                    *)
(* streamWithPaidFallback, the assemblers and the stream converters).       *)
THEOREM UnreadReplaced == Spec => []ReplacedOnlyIfUnread
<1>1. Init => ReplacedOnlyIfUnread
  BY DEF Init, ReplacedOnlyIfUnread
<1>2. Inv /\ ReplacedOnlyIfUnread /\ [Next]_vars => ReplacedOnlyIfUnread'
  <2> SUFFICES ASSUME Inv, ReplacedOnlyIfUnread, [Next]_vars,
                      pc' = "keys", why' = "empty", Says(body)'
               PROVE  Unreadable(body)'
    BY DEF ReplacedOnlyIfUnread
  <2>1. CASE UNCHANGED vars
    BY <2>1 DEF vars, ReplacedOnlyIfUnread, Unreadable
  <2>2. CASE pc = "keys" /\ why = "empty" /\ UNCHANGED <<req, body>>
    BY <2>2 DEF ReplacedOnlyIfUnread, Unreadable
  <2>3. CASE ConvertCompletion \/ ConvertStream
    <3>1. /\ pc = "convert" /\ req.endpoint # "systemone"
          /\ Content(body) = {} /\ UNCHANGED <<req, body>>
      BY <2>3 DEF ConvertCompletion, ConvertStream, AnyChunk, Deliver, Fail, FailFree, AskKeys
    <3> QED
      BY <3>1, EmptySaysNothing DEF Unreadable
  <2>4. CASE \E called \in BOOLEAN : KeyRetryable(called)
    <3>1. why' = "empty" => why = "empty" /\ UNCHANGED <<req, body>>
      BY <2>4 DEF KeyRetryable, KeysFailed, Fail, FreeError, FailFree, Deliver, AskKeys
    <3>2. pc = "keys"
      BY <2>4 DEF KeyRetryable
    <3> QED
      BY <2>2, <3>1, <3>2
  <2>5. CASE Start \/ Rejected \/ Exhausted \/ KeyFatal
    BY <2>5 DEF Start, Rejected, Exhausted, KeyFatal, KeysFailed, Fail, FreeError, FailFree,
                Deliver, AskKeys, Inv, SpendInv, WhyInv
  <2>6. CASE Served \/ PaidModelAnswers \/ FallbackPassedOn \/ FallbackDelivered
             \/ ConvertAnswers
    BY <2>6 DEF Served, PaidModelAnswers, FallbackPassedOn, FallbackDelivered, ConvertAnswers,
                Fail, Deliver
  <2> QED
    BY <2>1, <2>3, <2>4, <2>5, <2>6 DEF Next
<1> QED
  BY <1>1, <1>2, SpendInvariance, PTL DEF Spec
=============================================================================
