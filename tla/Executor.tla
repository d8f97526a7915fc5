------------------------------ MODULE Executor ------------------------------
(***************************************************************************)
(* What one request costs and what its client gets (src/executor.go and the *)
(* second half of src/free.go): the paid loop over the API keys, the free   *)
(* tier with the paid fallback behind it, and the conversions between the   *)
(* dialects of the upstream and of the client, on which the decision to pay *)
(* depends.                                                                 *)
(*                                                                          *)
(* The free tier itself is its verdict here (FreeCall shows how it comes to *)
(* one, and when); an exchange with a paid key is a step.  A body is the    *)
(* little that the conversions tell apart.                                  *)
(***************************************************************************)
EXTENDS Naturals

CONSTANT MaxKeys   \* bound on the number of paid keys

ASSUME ExecutorAssumption == MaxKeys \in Nat

(* A request of the host: for a free model or not, through Execute or       *)
(* ExecuteStream, with a payload that asks the upstream to stream (only the *)
(* payload of a streaming client does).  A payload may be no JSON at all,   *)
(* or JSON from which the body for the endpoint cannot be built (SystemOne  *)
(* without questions, responses without messages); chat takes any JSON.     *)
Models == [free : BOOLEAN, endpoint : {"chat", "responses", "systemone"},
           streaming : BOOLEAN, sse : BOOLEAN,
           payload : {"good", "unbuildable", "unparseable"}]

Requests == {r \in Models :
                /\ ~r.free => r.endpoint = "systemone"
                /\ r.sse => r.streaming /\ r.payload # "unparseable"
                /\ r.endpoint = "chat" => r.payload # "unbuildable"}

(* The configuration: is failover_paid on with a fallback model, and how    *)
(* many keys does members find?                                             *)
Configs == [failover : BOOLEAN, keys : 0 .. MaxKeys]

(* Bodies of the free tier: SSE with text, with tool calls alone, with only *)
(* the event that closes the answer, without any event the converters know; *)
(* SystemOne JSON with answers and without.                                 *)
FreeBodies(endpoint) ==
    IF endpoint = "systemone" THEN {"answers", "junk"}
    ELSE {"text", "tools", "closing", "blank"}

(* The body of a paid 2xx is a chat completion, as JSON or, when the        *)
(* payload asks for it, as chat SSE.  It has text or tool calls, or it is   *)
(* hollow (a small budget is used up before the answer), or it is none: no  *)
(* JSON, no choices, no event.                                              *)
PaidBodies == {"paid_json", "paid_hollow", "paid_sse", "paid_closing", "paid_none"}
FallbackBodies(r) ==
    {"paid_none"} \cup IF r.sse THEN {"paid_sse", "paid_closing"}
                      ELSE {"paid_json", "paid_hollow"}

(* What a body says, whoever can read it.                                   *)
Says(b) == b \in {"text", "tools", "answers", "paid_json", "paid_sse"}

VARIABLES
    req,        \* the request
    cfg,        \* the configuration
    pc,         \* where the request is
    why,        \* what the paid keys are asked for
    left,       \* keys the running loop has not tried yet
    body,       \* the last upstream body the free path was given
    outcome,    \* how the call to the executor ends
    delivered,  \* whose content the client gets
    chunks,     \* does the stream carry at least one chunk?
    marked,     \* does X-Zen-Fallback say "paid"?
    asked,      \* history: calls made with a paid key
    billed      \* history: those answered with a 2xx

answer == <<outcome, delivered, chunks, marked>>
costs  == <<asked, billed>>
vars   == <<req, cfg, pc, why, left, body, answer, costs>>

TypeOK ==
    /\ req \in Requests
    /\ cfg \in Configs
    /\ pc \in {"start", "free", "keys", "convert", "done"}
    /\ why \in {"nothing", "paid_model", "exhausted", "error", "empty"}
    /\ left \in 0 .. MaxKeys
    /\ body \in {"none", "text", "tools", "closing", "blank", "answers", "junk"}
               \cup PaidBodies
    /\ outcome \in {"pending", "ok", "error"}
    /\ delivered \subseteq {"free", "paid"}
    /\ chunks \in BOOLEAN
    /\ marked \in BOOLEAN
    /\ asked \in Nat
    /\ billed \in Nat

Init ==
    /\ req \in Requests
    /\ cfg \in Configs
    /\ pc = "start"
    /\ why = "nothing"
    /\ left = 0
    /\ body = "none"
    /\ outcome = "pending"
    /\ delivered = {}
    /\ chunks = FALSE
    /\ marked = FALSE
    /\ asked = 0
    /\ billed = 0

(***************************************************************************)
(* How a call ends.                                                        *)
(***************************************************************************)
Fail ==
    /\ pc' = "done"
    /\ outcome' = "error"
    /\ UNCHANGED <<why, left, body, delivered, chunks, marked>>

(* sources: whose content; some: is anything sent at all?                   *)
Deliver(sources, some, mark) ==
    /\ pc' = "done"
    /\ outcome' = "ok"
    /\ delivered' = delivered \cup sources
    /\ chunks' = some
    /\ marked' = mark
    /\ UNCHANGED <<why, left>>

(* A free stream that has nothing to say ends with a terminal chunk.        *)
FailFree ==
    IF req.streaming THEN Deliver({}, TRUE, FALSE) /\ UNCHANGED body ELSE Fail

(***************************************************************************)
(* The paid keys: call, the paid half of ExecuteStream, and paidFallback.   *)
(***************************************************************************)

(* A deliberate fault: the loop goes one past the keys.                     *)
AskKeysOneMore(purpose) ==
    /\ pc' = "keys"
    /\ why' = purpose
    /\ left' = cfg.keys + 1
    /\ UNCHANGED <<body, answer>>

(* A loop over all the keys, in any order.                                  *)
AskKeys(purpose) ==
    /\ pc' = "keys"
    /\ why' = purpose
    /\ left' = cfg.keys
    /\ UNCHANGED <<body, answer>>

(* The paid model wants a body built; the fallback only sets a field of the *)
(* payload.                                                                 *)
CanAsk ==
    /\ cfg.keys > 0
    /\ req.payload \in IF req.free THEN {"good", "unbuildable"} ELSE {"good"}

(* An error of freeCall, the failure of the fallback inside it included, is *)
(* answered with a fallback of its own.                                     *)
(* A deliberate fault: failover_paid is not looked at after an error.       *)
FreeErrorUnchecked == IF CanAsk THEN AskKeys("error") ELSE FailFree
FreeError == IF cfg.failover /\ CanAsk THEN AskKeys("error") ELSE FailFree

(* The loop over the keys ends without an answer.                           *)
KeysFailed ==
    \/ why = "paid_model" /\ Fail
    \/ why = "exhausted" /\ FreeError
    \/ why \in {"error", "empty"} /\ FailFree

(* A deliberate fault: the last key is tried twice.                         *)
KeyRetryableTwice(called) ==
    /\ pc = "keys"
    /\ asked' = IF called THEN asked + 1 ELSE asked
    /\ IF left > 0
       THEN left' = left - 1 /\ UNCHANGED <<pc, why, body, answer>>
       ELSE KeysFailed
    /\ UNCHANGED <<req, cfg, billed>>

(* An error, 401, 429 or 5xx, or a proxy that cannot be set up (which is no *)
(* call): the next key, if there is one.                                    *)
KeyRetryable(called) ==
    /\ pc = "keys"
    /\ asked' = IF called THEN asked + 1 ELSE asked
    /\ IF left > 1
       THEN left' = left - 1 /\ UNCHANGED <<pc, why, body, answer>>
       ELSE KeysFailed
    /\ UNCHANGED <<req, cfg, billed>>

(* Any other status is final: no other key is tried.                        *)
KeyFatal ==
    /\ pc = "keys"
    /\ asked' = asked + 1
    /\ KeysFailed
    /\ UNCHANGED <<req, cfg, billed>>

(* A 2xx of the paid model, which may be without answers.                   *)
PaidModelAnswers ==
    /\ pc = "keys" /\ why = "paid_model"
    /\ asked' = asked + 1
    /\ billed' = billed + 1
    /\ (Deliver({"paid"}, TRUE, FALSE) /\ UNCHANGED body) \/ Fail
    /\ UNCHANGED <<req, cfg>>

(* The fallback inside freeCall passes its body off as the free tier's.     *)
FallbackPassedOn ==
    /\ pc = "keys" /\ why = "exhausted"
    /\ asked' = asked + 1
    /\ billed' = billed + 1
    /\ body' \in FallbackBodies(req)
    /\ pc' = "convert"
    /\ UNCHANGED <<req, cfg, why, left, answer>>

(* The fallback of executeFree and of the two stream paths: Execute returns *)
(* the body as it is; chunkCompletion cuts a completion into chunks, the    *)
(* last of which closes the stream, and makes nothing of any other body.    *)
(* Only a fallback after an error is marked.                                *)
FallbackDelivered ==
    /\ pc = "keys" /\ why \in {"error", "empty"}
    /\ asked' = asked + 1
    /\ billed' = billed + 1
    /\ \E b \in FallbackBodies(req) :
          /\ body' = b
          /\ Deliver(IF b = "paid_json" THEN {"paid"} ELSE {},
                     ~req.streaming \/ b \in {"paid_json", "paid_hollow"},
                     why = "error")
    /\ UNCHANGED <<req, cfg>>

(***************************************************************************)
(* The free path.                                                          *)
(***************************************************************************)

(* Execute and ExecuteStream: a free model takes the free path; the paid    *)
(* one wants a key and a body.                                              *)
Start ==
    /\ pc = "start"
    /\ \/ /\ req.free
          /\ pc' = "free"
          /\ UNCHANGED <<why, left, body, answer>>
       \/ ~req.free /\ CanAsk /\ AskKeys("paid_model")
       \/ ~req.free /\ ~CanAsk /\ Fail
    /\ UNCHANGED <<req, cfg, costs>>

Served ==
    /\ pc = "free"
    /\ req.payload = "good"
    /\ \E b \in FreeBodies(req.endpoint) : body' = b
    /\ pc' = "convert"
    /\ UNCHANGED <<req, cfg, why, left, answer, costs>>

Rejected ==
    /\ pc = "free"
    /\ req.payload = "good"
    /\ FreeError
    /\ UNCHANGED <<req, cfg, costs>>

(* freeCall turns to the paid keys itself.                                  *)
Exhausted ==
    /\ pc = "free"
    /\ IF cfg.failover /\ CanAsk THEN AskKeys("exhausted") ELSE FreeError
    /\ UNCHANGED <<req, cfg, costs>>

(* A deliberate fault: the responses assembler folds text only.             *)
ContentTextOnly(b) ==
    CASE b \in {"text", "answers"} -> {"free"}
      [] b = "tools" -> IF req.streaming THEN {"free"} ELSE {}
      [] b = "paid_sse" -> IF req.endpoint = "chat" THEN {"paid"} ELSE {}
      [] OTHER -> {}

(* What of the body survives the conversion for the client's dialect.       *)
(* assembleChatCompletion folds text only; both assemblers and both stream  *)
(* converters read SSE lines and find none in a JSON body; the responses    *)
(* ones do not know the events of chat SSE.                                 *)
Content(b) ==
    CASE b \in {"text", "answers"} -> {"free"}
      [] b = "tools" -> IF req.streaming \/ req.endpoint = "responses" THEN {"free"} ELSE {}
      [] b = "paid_sse" -> IF req.endpoint = "chat" THEN {"paid"} ELSE {}
      [] OTHER -> {}

(* streamWithPaidFallback counts chunks, not content: an event that closes  *)
(* the answer is one, if the converter knows it.                            *)
AnyChunk(b) ==
    Content(b) # {} \/ b = "closing" \/ (b = "paid_closing" /\ req.endpoint = "chat")

(* A deliberate fault: an empty answer is returned when no key is left.     *)
ConvertCompletionKeepsEmpty ==
    /\ pc = "convert" /\ req.endpoint # "systemone" /\ ~req.streaming
    /\ \/ /\ Content(body) # {} \/ ~cfg.failover \/ ~CanAsk
          /\ Deliver(Content(body), TRUE, FALSE) /\ UNCHANGED body
       \/ /\ Content(body) = {} /\ cfg.failover /\ CanAsk
          /\ AskKeys("empty")
    /\ UNCHANGED <<req, cfg, costs>>

(* The rest of executeFree: an empty completion is an answer only without a *)
(* fallback.                                                                *)
ConvertCompletion ==
    /\ pc = "convert" /\ req.endpoint # "systemone" /\ ~req.streaming
    /\ \/ /\ Content(body) # {} \/ ~cfg.failover
          /\ Deliver(Content(body), TRUE, FALSE) /\ UNCHANGED body
       \/ /\ Content(body) = {} /\ cfg.failover
          /\ IF CanAsk THEN AskKeys("empty") ELSE Fail
    /\ UNCHANGED <<req, cfg, costs>>

(* A deliberate fault: the count of chunks is not looked at.                *)
ConvertStreamWithoutCount ==
    /\ pc = "convert" /\ req.endpoint # "systemone" /\ req.streaming
    /\ delivered' = delivered \cup Content(body)
    /\ pc' = "keys" /\ why' = "empty" /\ left' = cfg.keys
    /\ cfg.failover /\ CanAsk
    /\ UNCHANGED <<req, cfg, body, outcome, chunks, marked, costs>>

(* The rest of executeFreeStream: a stream without a chunk is replaced by   *)
(* the fallback, or by a terminal chunk, if failover is on.                 *)
ConvertStream ==
    /\ pc = "convert" /\ req.endpoint # "systemone" /\ req.streaming
    /\ \/ /\ AnyChunk(body) \/ ~cfg.failover
          /\ Deliver(Content(body), AnyChunk(body), FALSE) /\ UNCHANGED body
       \/ /\ ~AnyChunk(body) /\ cfg.failover
          /\ IF CanAsk THEN AskKeys("empty") ELSE FailFree
    /\ UNCHANGED <<req, cfg, costs>>

(* A SystemOne body has answers, or the request ends with a 502: a fallback *)
(* that passed its chat completion on has none.                             *)
ConvertAnswers ==
    /\ pc = "convert" /\ req.endpoint = "systemone"
    /\ \/ body = "answers" /\ Deliver({"free"}, TRUE, FALSE) /\ UNCHANGED body
       \/ body # "answers" /\ Fail
    /\ UNCHANGED <<req, cfg, costs>>

Next ==
    \/ Start
    \/ Served \/ Rejected \/ Exhausted
    \/ \E called \in BOOLEAN : KeyRetryable(called)
    \/ KeyFatal \/ PaidModelAnswers \/ FallbackPassedOn \/ FallbackDelivered
    \/ ConvertCompletion \/ ConvertStream \/ ConvertAnswers

Spec == Init /\ [][Next]_vars

(***************************************************************************)
(* Properties                                                              *)
(***************************************************************************)

(* "Free-tier pools ... never share the paid keys": without failover_paid a *)
(* request for a free model never touches a paid key, whatever the free     *)
(* tier answers and however the answer converts.                            *)
PaysOnlyWithLeave == req.free /\ ~cfg.failover => asked = 0

(* A client that gets what the free tier said has not been billed for it.   *)
(* The decision to pay is taken after the conversion, from what it made of  *)
(* the body (isEmptyCompletion, the count of streamWithPaidFallback).       *)
FreeContentIsFree == "free" \in delivered => billed = 0

(* The price of a free request that goes wrong in every possible way: the   *)
(* fallback runs at most twice, and at most two of its answers are billed;  *)
(* a request for a paid model is billed at most once.                       *)
PaidBudget ==
    /\ asked <= (IF req.free THEN 2 ELSE 1) * cfg.keys
    /\ billed <= IF req.free THEN 2 ELSE 1

(* With failover on, what a client of a free model gets as a success says   *)
(* something: a completion that says nothing, or a stream without a chunk,  *)
(* is what the paid tier answered last, never what the free tier did        *)
(* (isEmptyCompletion, streamWithPaidFallback).  A stream without a chunk   *)
(* is one the paid tier answered in SSE or not with a completion at all.    *)
FailoverHidesEmptiness ==
    req.free /\ cfg.failover /\ outcome = "ok" =>
        /\ ~req.streaming => delivered # {} \/ body \in {"paid_hollow", "paid_none"}
        /\ req.streaming =>
              chunks \/ body \in {"paid_sse", "paid_closing", "paid_none"}

(* An answer is replaced by a paid one only if it says nothing, or if it is *)
(* one of the three that its conversion cannot read: tool calls in a chat   *)
(* completion, a paid completion where SSE is expected, and paid chat SSE   *)
(* where the events of responses are.                                       *)
Unreadable(b) ==
    \/ b = "tools" /\ req.endpoint = "chat" /\ ~req.streaming
    \/ b = "paid_json"
    \/ b = "paid_sse" /\ req.endpoint = "responses"

ReplacedOnlyIfUnread ==
    pc = "keys" /\ why = "empty" /\ Says(body) => Unreadable(body)

(***************************************************************************)
(* The inductive invariant behind the first three: what may have been spent *)
(* at each place, and whose body is at hand.                                *)
(***************************************************************************)

(* The calls of the loops over the keys that may have begun by now.         *)
Allowance == IF why \in {"paid_model", "exhausted"} THEN cfg.keys ELSE 2 * cfg.keys

WhyInv ==
    /\ pc = "keys" => why # "nothing" /\ left > 0
    /\ why = "paid_model" => ~req.free
    /\ why \in {"exhausted", "error", "empty"} => req.free /\ cfg.failover
    /\ pc \in {"free", "convert"} => req.free
    /\ pc \in {"start", "free"} => why = "nothing"
    /\ pc = "convert" => why \in {"nothing", "exhausted"}

CostInv ==
    /\ why = "nothing" => asked = 0
    /\ pc = "keys" => asked + left <= Allowance
    /\ asked <= Allowance
    /\ billed <= asked
    /\ pc = "keys" /\ why # "empty" => billed = 0
    /\ pc = "keys" \/ pc = "convert" => billed <= 1
    /\ billed <= IF req.free THEN 2 ELSE 1

BodyInv ==
    /\ pc # "done" => delivered = {}
    /\ pc = "convert" => body \in PaidBodies \/ billed = 0

(* What may have been spent follows from where the request is and why it    *)
(* came there (executeFree, executeFreeStream, freeCall).                   *)
SpendInv == WhyInv /\ CostInv /\ BodyInv /\ FreeContentIsFree

(***************************************************************************)
(* Two things the repository says that the code does not do.               *)
(***************************************************************************)

(* X-Zen-Fallback marks "responses served by paid fallback instead of the   *)
(* free tier".                                                              *)
PaidAnswerIsMarked == req.free /\ "paid" \in delivered => marked

(* What the paid fallback said reaches the client: "it falls back to the    *)
(* paid model instead of delivering an empty screen", "free-first with paid *)
(* fallback still answers".                                                 *)
PaidAnswerIsDelivered ==
    pc = "done" /\ body \in {"paid_json", "paid_sse"} => "paid" \in delivered
=============================================================================
