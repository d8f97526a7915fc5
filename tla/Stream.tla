------------------------------- MODULE Stream -------------------------------
(***************************************************************************)
(* How a streamed answer reaches the host: the goroutine that turns a body  *)
(* into chunks (forwardChatSSE, convertResponsesSSE and the one of          *)
(* executeFreeStream, src/free.go), the relay that falls back to the paid   *)
(* keys when the free tier says nothing (streamWithPaidFallback), and the   *)
(* pump that hands chunk after chunk to the host through the C ABI          *)
(* (pumpABIStream over callHost, src/cmd/zen/abi.go), or the loop that      *)
(* collects them when the host asked for no stream.  They share buffered    *)
(* channels; the host may shut the plugin down under them.                  *)
(*                                                                          *)
(* The context of every call is context.Background(): it is never done, and *)
(* no branch on it is ever taken.                                           *)
(***************************************************************************)
EXTENDS Converter

CONSTANTS
    Jobs,       \* the answers that may be streamed
    Cap,        \* capacity of a channel: 8 in the code
    MaxDowns    \* bound on the shutdowns of the plugin

(* A job: the source of the chunks (a chat or responses body; the one chunk *)
(* of a SystemOne answer; a paid answer after the free tier failed; the     *)
(* bare end when that fails too), its body, whether the paid fallback is    *)
(* configured, what the paid keys answer if asked, and whether the host     *)
(* wants the chunks collected.                                              *)
NoAnswer == [readable |-> FALSE, widths |-> <<>>, calls |-> 0, fails |-> TRUE]

Sources == {"chat", "responses", "single", "paid", "terminal"}
Answers == [readable : BOOLEAN, widths : Seq(1 .. 4), calls : Nat, fails : BOOLEAN]

ASSUME StreamAssumption ==
    /\ Cap \in Nat \ {0} /\ MaxDowns \in Nat
    /\ Jobs \subseteq [source : Sources, body : Seq(Line), failover : BOOLEAN,
                       answer : Answers, collect : BOOLEAN]

VARIABLES
    job,        \* the answer streamed
    source,     \* history: all the chunks the producer has to put
    todo,       \* chunks the producer has still to put
    base,       \* its channel
    baseClosed,
    relay,      \* where streamWithPaidFallback is; "off" when it is not used
    counted,    \* count > 0
    hand,       \* chunks the relay has still to put
    out,        \* its channel
    outClosed,
    pump,       \* where the pump is
    held,       \* the chunk it has taken
    ptr,        \* the host pointer it has read: the number of a host, or 0
    failed,     \* errorMessage # ""
    host,       \* abiState.host
    downs,      \* how many shutdowns there were
    got,        \* the chunks the host has taken, or the collected list
    ended,      \* how the stream has ended for the host
    late        \* history: calls made to a host that was no longer there

producerVars == <<todo, baseClosed>>
relayVars == <<relay, counted, hand, outClosed>>
pumpVars == <<pump, held, ptr, failed, got, ended, late>>
hostVars == <<host, downs>>
jobVars == <<job, source>>
vars == <<jobVars, producerVars, base, relayVars, out, pumpVars, hostVars>>

-----------------------------------------------------------------------------
(* The chunks of the free tier, or of the answer that is sent without it.   *)
Source(j) ==
    CASE j.source = "chat" -> ChatChunks(j.body)
      [] j.source = "responses" -> ResponsesChunks(j.body)
      [] j.source = "single" -> <<Text(<<1>>)>>
      [] j.source = "paid" -> Pieces(j.answer)
      [] OTHER -> <<Stop>>

(* A channel that is filled and closed before it is returned.               *)
Prefilled(j) == j.source \in {"single", "terminal"}

(* executeFreeStream puts the relay behind an SSE body when the paid        *)
(* fallback is configured.                                                  *)
Relayed(j) == j.source \in {"chat", "responses"} /\ j.failover

(* What the relay sends when the free tier has said nothing.                *)
Fallback(j) == IF j.answer = NoAnswer THEN <<Stop>> ELSE Pieces(j.answer)

(* The channel the pump reads.                                              *)
ReadFrom == IF Relayed(job) THEN out ELSE base
ReadClosed == IF Relayed(job) THEN outClosed ELSE baseClosed

Init ==
    /\ job \in Jobs
    /\ source = Source(job)
    /\ todo = IF Prefilled(job) THEN <<>> ELSE source
    /\ base = IF Prefilled(job) THEN source ELSE <<>>
    /\ baseClosed = Prefilled(job)
    /\ relay = IF Relayed(job) THEN "relay" ELSE "off"
    /\ counted = FALSE /\ hand = <<>> /\ out = <<>> /\ outClosed = FALSE
    /\ pump = "take" /\ held = <<>> /\ ptr = 0 /\ failed = FALSE
    /\ host = 1 /\ downs = 0
    /\ got = <<>> /\ ended = "open" /\ late = 0

-----------------------------------------------------------------------------
Room(channel) == Len(channel) < Cap

(* A deliberate fault: the producer does not wait for room.                 *)
ProduceUnbounded ==
    /\ todo # <<>>
    /\ base' = Append(base, Head(todo))
    /\ todo' = Tail(todo)
    /\ UNCHANGED <<jobVars, baseClosed, relayVars, out, pumpVars, hostVars>>

Produce ==
    /\ todo # <<>> /\ Room(base)
    /\ base' = Append(base, Head(todo))
    /\ todo' = Tail(todo)
    /\ UNCHANGED <<jobVars, baseClosed, relayVars, out, pumpVars, hostVars>>

(* A deliberate fault: a body without a chunk leaves its channel open.      *)
ProducerEndsIfAny ==
    /\ todo = <<>> /\ ~baseClosed /\ source # <<>>
    /\ baseClosed' = TRUE
    /\ UNCHANGED <<jobVars, todo, base, relayVars, out, pumpVars, hostVars>>

(* A deliberate fault: the channel is closed once it has been drained.      *)
ProducerEndsDrained ==
    /\ todo = <<>> /\ ~baseClosed /\ base = <<>>
    /\ baseClosed' = TRUE
    /\ UNCHANGED <<jobVars, todo, base, relayVars, out, pumpVars, hostVars>>

(* defer close(out)                                                         *)
ProducerEnds ==
    /\ todo = <<>> /\ ~baseClosed
    /\ baseClosed' = TRUE
    /\ UNCHANGED <<jobVars, todo, base, relayVars, out, pumpVars, hostVars>>

Producer == Produce \/ ProducerEnds

(* A deliberate fault: chunks are passed on uncounted.                      *)
RelayTakeUncounted ==
    /\ relay = "relay" /\ hand = <<>> /\ base # <<>>
    /\ hand' = <<Head(base)>>
    /\ base' = Tail(base)
    /\ UNCHANGED <<counted, jobVars, producerVars, relay, out, outClosed, pumpVars, hostVars>>

(* A chunk of base, counted; every chunk a producer puts has a payload.     *)
RelayTake ==
    /\ relay = "relay" /\ hand = <<>> /\ base # <<>>
    /\ hand' = <<Head(base)>>
    /\ base' = Tail(base)
    /\ counted' = TRUE
    /\ UNCHANGED <<jobVars, producerVars, relay, out, outClosed, pumpVars, hostVars>>

RelayPut ==
    /\ relay \in {"relay", "pieces"} /\ hand # <<>> /\ Room(out)
    /\ out' = Append(out, Head(hand))
    /\ hand' = Tail(hand)
    /\ UNCHANGED <<jobVars, producerVars, base, relay, counted, outClosed, pumpVars, hostVars>>

(* base is closed and empty: done when anything came through, otherwise the *)
(* paid keys are asked.                                                     *)
RelaySourceEnds ==
    /\ relay = "relay" /\ hand = <<>> /\ base = <<>> /\ baseClosed
    /\ relay' = IF counted THEN "done" ELSE "paying"
    /\ outClosed' = counted
    /\ UNCHANGED <<jobVars, producerVars, base, counted, hand, out, pumpVars, hostVars>>

RelayPays ==
    /\ relay = "paying"
    /\ relay' = "pieces"
    /\ hand' = Fallback(job)
    /\ UNCHANGED <<jobVars, producerVars, base, counted, out, outClosed, pumpVars, hostVars>>

RelayEnds ==
    /\ relay = "pieces" /\ hand = <<>>
    /\ relay' = "done"
    /\ outClosed' = TRUE
    /\ UNCHANGED <<jobVars, producerVars, base, counted, hand, out, pumpVars, hostVars>>

Relay == RelayTake \/ RelayPut \/ RelaySourceEnds \/ RelayPays \/ RelayEnds

-----------------------------------------------------------------------------
(* A deliberate fault: the chunk is read and left in the channel.           *)
TakeFromPeek(channel, rest) == rest = channel

TakeFrom(channel, rest) == rest = Tail(channel)

(* The pump, and the collecting loop, receive from the last channel.        *)
PumpTake ==
    /\ pump = "take" /\ ReadFrom # <<>>
    /\ IF Relayed(job) THEN TakeFrom(out, out') /\ UNCHANGED base
                       ELSE TakeFrom(base, base') /\ UNCHANGED out
    /\ IF job.collect
       THEN got' = Append(got, Head(ReadFrom)) /\ UNCHANGED <<held, pump>>
       ELSE held' = <<Head(ReadFrom)>> /\ pump' = "emit" /\ UNCHANGED got
    /\ UNCHANGED <<jobVars, producerVars, relayVars, ptr, failed, ended, late, hostVars>>

(* The channel is closed and empty: the list is returned, or the deferred   *)
(* close is next.                                                           *)
PumpSourceEnds ==
    /\ pump = "take" /\ ReadFrom = <<>> /\ ReadClosed
    /\ IF job.collect THEN pump' = "done" /\ ended' = "clean"
                      ELSE pump' = "close" /\ UNCHANGED ended
    /\ UNCHANGED <<jobVars, producerVars, base, relayVars, out, held, ptr, failed, got, late,
                   hostVars>>

(* A deliberate fault: the pointer is read for the first call only.         *)
PumpReadsOnce ==
    /\ pump \in {"emit", "close"}
    /\ ptr' = IF ptr = 0 THEN host ELSE ptr
    /\ pump' = IF pump = "emit" THEN "emitting" ELSE "closing"
    /\ UNCHANGED <<jobVars, producerVars, base, relayVars, out, held, failed, got, ended, late,
                   hostVars>>

(* callHost, first half: the pointer is read under the lock.                *)
PumpReads ==
    /\ pump \in {"emit", "close"}
    /\ ptr' = host
    /\ pump' = IF pump = "emit" THEN "emitting" ELSE "closing"
    /\ UNCHANGED <<jobVars, producerVars, base, relayVars, out, held, failed, got, ended, late,
                   hostVars>>

(* Second half: the call, without the lock.  A nil pointer gives an error   *)
(* and no call.  Only host 1 knows the stream; it may refuse a chunk, and   *)
(* need not answer once it is gone.                                         *)
Called == late' = IF ptr # 0 /\ ptr # host THEN late + 1 ELSE late

PumpEmits ==
    /\ pump = "emitting"
    /\ Called
    /\ \/ /\ ptr = 1
          /\ got' = got \o held /\ held' = <<>>
          /\ pump' = "take"
          /\ UNCHANGED failed
       \/ /\ failed' = TRUE
          /\ pump' = "close"
          /\ UNCHANGED <<got, held>>
    /\ UNCHANGED <<jobVars, producerVars, base, relayVars, out, ptr, ended, hostVars>>

(* host.stream.close; what it answers is ignored.                           *)
PumpCloses ==
    /\ pump = "closing"
    /\ Called
    /\ pump' = "done"
    /\ \/ ended' = "lost"
       \/ ptr = 1 /\ ended' = IF failed THEN "error" ELSE "clean"
    /\ UNCHANGED <<jobVars, producerVars, base, relayVars, out, held, ptr, failed, got, hostVars>>

Pump == PumpTake \/ PumpSourceEnds \/ PumpReads \/ PumpEmits \/ PumpCloses

-----------------------------------------------------------------------------
(* ZenPluginShutdown, at any moment, and cliproxy_plugin_init by a new      *)
(* host, which knows nothing of the stream.                                 *)
Shutdown ==
    /\ host # 0 /\ downs < MaxDowns
    /\ host' = 0 /\ downs' = downs + 1
    /\ UNCHANGED <<jobVars, producerVars, base, relayVars, out, pumpVars>>

PluginInit ==
    /\ host = 0
    /\ host' = downs + 1
    /\ UNCHANGED <<jobVars, producerVars, base, relayVars, out, pumpVars, downs>>

Next == Producer \/ Relay \/ Pump \/ Shutdown \/ PluginInit

(* Every goroutine that can go on does: the Go scheduler is fair, and a     *)
(* call to the paid keys or to the host returns.                            *)
Spec ==
    /\ Init /\ [][Next]_vars
    /\ WF_vars(Producer) /\ WF_vars(Relay) /\ WF_vars(Pump)

-----------------------------------------------------------------------------
(* The chunks the client is to get: those of the free tier, or, when there  *)
(* are none and a fallback is configured, those of the paid answer.         *)
Answer == IF Relayed(job) /\ source = <<>> THEN Fallback(job) ELSE source

(* The types of the variables; no channel holds more than its capacity.     *)
TypeOK ==
    /\ job \in Jobs
    /\ {source, todo, base, hand, out, held, got} \subseteq Seq(Chunks)
    /\ Len(base) <= Cap /\ Len(out) <= Cap /\ Len(held) <= 1
    /\ {baseClosed, outClosed, counted, failed} \subseteq BOOLEAN
    /\ relay \in {"off", "relay", "paying", "pieces", "done"}
    /\ pump \in {"take", "emit", "emitting", "close", "closing", "done"}
    /\ downs \in 0 .. MaxDowns /\ host \in 0 .. downs + 1 /\ ptr \in 0 .. downs + 1
    /\ late \in Nat
    /\ ended \in {"open", "clean", "error", "lost"}

(* Where the goroutines are.  A channel is closed only behind its last      *)
(* chunk, the pump holds a chunk only while it emits it, a stream is open   *)
(* until the pump is done, and the relay asks the paid keys only when       *)
(* nothing has gone past it.                                                *)
PlacesInv ==
    /\ relay = "off" <=> ~Relayed(job)
    /\ relay = "off" => out = <<>> /\ hand = <<>>
    /\ baseClosed => todo = <<>>
    /\ relay \in {"paying", "pieces", "done"} => base = <<>> /\ todo = <<>>
    /\ relay \in {"paying", "pieces"} => ~counted
    /\ relay = "done" => hand = <<>>
    /\ outClosed => relay = "done"
    /\ pump \in {"take", "close", "closing"} /\ ~failed => held = <<>>
    /\ pump \in {"take", "emit", "emitting"} => ~failed
    /\ job.collect => pump \in {"take", "done"} /\ held = <<>>
    /\ ended = "open" <=> pump # "done"

(* The chunks on their way, in the order of the pipeline.                   *)
InFlight == held \o (out \o (hand \o (base \o todo)))

(* The chunks the host has and those on their way are always the answer:    *)
(* first that of the free tier, then that of the paid keys; and a stream    *)
(* that is about to be closed as complete is complete.                      *)
OrderInv ==
    /\ relay \in {"relay", "paying"} => got \o InFlight = source
    /\ relay \in {"off", "pieces", "done"} => got \o InFlight = Answer
    /\ relay \in {"relay", "paying"} /\ ~counted =>
           got = <<>> /\ held = <<>> /\ out = <<>> /\ hand = <<>>
    /\ relay \in {"relay", "done"} /\ counted => source # <<>>
    /\ pump \in {"close", "closing"} /\ ~failed => got = Answer
    /\ ended = "clean" => got = Answer

(* Wherever the goroutines are, nothing is lost, doubled or overtaken       *)
(* between them, and no chunk of the paid answer follows one of the free    *)
(* tier.                                                                    *)
PipeInv == PlacesInv /\ OrderInv

(* The host sees an answer as Delivery describes it: every chunk once and   *)
(* in order, of one tier, and a clean end only behind the last.             *)
D == INSTANCE Delivery WITH answer <- Answer
Delivers == D!Spec

(* A client that is told its responses stream is complete has the message   *)
(* the upstream meant: text once and in order, and every tool call with its *)
(* own arguments, however the calls were interleaved.  The one exception is *)
(* a body that sends its text both as deltas and as a whole, which the code *)
(* passes on twice.                                                         *)
Complete(kind) == ended = "clean" /\ job.source = kind /\ source # <<>>

ResponsesArrive ==
    Complete("responses") => ((Message(got) = Meant(job.body)) <=> ~SaysItTwice(job.body))

(* A chat client reads the same text from a stream that is complete as from *)
(* the completion made of the same body, unless a line carries "data:"      *)
(* twice, which only the completion strips.                                 *)
ChatArrives ==
    Complete("chat") =>
        ((Message(got).text = ChatCompletion(job.body).text)
            <=> ~\E at \in DOMAIN job.body : job.body[at].kind = "doubled")

(* A paid answer that takes the place of a free one arrives with all its    *)
(* text and its tool calls exactly when no character lies across a cut.     *)
PaidArrives ==
    (/\ ended = "clean" /\ job.answer.readable
     /\ job.source = "paid" \/ (Relayed(job) /\ source = <<>>))
        => LET m == Message(got) IN
           /\ (m.text = [k \in DOMAIN job.answer.widths |-> k])
                 <=> CutsClean(job.answer.widths)
           /\ DOMAIN m.calls = {} <=> job.answer.calls = 0

(* A stream makes at most one call per shutdown to a host that is no longer *)
(* there: the call whose pointer it had already read.                       *)
AtMostOneLateCall == late <= downs

(* Every stream ends for its reader, whatever the host does in between.     *)
EveryStreamEnds == <>(pump = "done")

(* When the reader has gone, the goroutines behind it end if what is left   *)
(* fits in the last channel.  (If it does not, they block for ever: nothing *)
(* reads on and the context is never done.)                                 *)
Quiet == todo = <<>> /\ baseClosed /\ relay \in {"off", "done"}
GoroutinesEnd == (pump = "done" /\ Len(InFlight) - Len(held) <= Cap) ~> Quiet
=============================================================================
