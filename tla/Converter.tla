----------------------------- MODULE Converter -----------------------------
(***************************************************************************)
(* What becomes of an upstream body on its way to a client (src/free.go):   *)
(* responsesConverter and forwardChatSSE turn its lines into stream chunks, *)
(* assembleResponsesCompletion and assembleChatCompletion fold the same     *)
(* lines into one completion, and chunkCompletion cuts a paid completion    *)
(* into stream chunks.                                                      *)
(*                                                                          *)
(* A body is a sequence of lines; the text or the arguments a line carries  *)
(* are its position in the body, so that what is lost, doubled or moved can *)
(* be told.                                                                 *)
(***************************************************************************)
EXTENDS Naturals, SequencesExt

CONSTANT Cut    \* the bytes of a piece of a paid answer: 500 in the code

ASSUME CutAssumption == Cut \in Nat \ {0}

(* A line: for responses a text delta, the text as a whole                  *)
(* (output_text.done), a function call added, arguments for a call, the     *)
(* completion, or noise (no event the code knows); for chat a text delta,   *)
(* a tool call, a finish reason, a text delta whose "data:" is doubled, or  *)
(* noise.  item names the call.                                             *)
LineKinds == {"delta", "whole", "added", "args", "completed",
              "text", "tool", "closing", "doubled", "noise"}
Line == [kind : LineKinds, item : Nat]

(* A chunk as the client reads it: text, the start of call number index,    *)
(* arguments for it, a finish reason, or something that is no JSON.  What   *)
(* it carries is a sequence, as strings are.                                *)
Text(data) == [kind |-> "text", index |-> 0, data |-> data]
Call(index, item) == [kind |-> "call", index |-> index, data |-> <<item>>]
Args(index, data) == [kind |-> "args", index |-> index, data |-> data]
Stop == [kind |-> "stop", index |-> 0, data |-> <<>>]
Garbled(data) == [kind |-> "garbled", index |-> 0, data |-> data]
Chunks == [kind : {"text", "call", "args", "stop", "garbled"}, index : Nat, data : Seq(Nat)]

Place(items, item) == CHOOSE i \in DOMAIN items : items[i] = item

(* A deliberate fault: arguments go to the call that was added last.        *)
ArgsIndexLast(items, item) == Len(items) - 1

(* indexByItem, for the items added so far.                                 *)
ArgsIndex(items, item) == Place(items, item) - 1

(* The items added, after a line.                                           *)
Added(items, line) ==
    IF line.kind = "added" /\ line.item \notin ToSet(items) THEN Append(items, line.item)
    ELSE items

(* What a line at a position becomes, with the items added up to it.        *)
(* Arguments for a call that was not added are dropped.                     *)
ResponsesLine(items, line, at) ==
    CASE line.kind \in {"delta", "whole"} -> <<Text(<<at>>)>>
      [] line.kind = "added" -> <<Call(Place(items, line.item) - 1, line.item)>>
      [] line.kind = "args" /\ line.item \in ToSet(items) ->
             <<Args(ArgsIndex(items, line.item), <<at>>)>>
      [] line.kind = "completed" -> <<Stop>>
      [] OTHER -> <<>>

(* convertLine: the items added so far and the chunks emitted so far.       *)
ConvertLine(state, line, at) ==
    LET items == Added(state.items, line)
    IN  [items |-> items, chunks |-> state.chunks \o ResponsesLine(items, line, at)]

(* convertResponsesSSE: the chunks of a responses body.                     *)
ResponsesChunks(body) ==
    FoldLeftDomain(LAMBDA state, at : ConvertLine(state, body[at], at),
                   [items |-> <<>>, chunks |-> <<>>], body).chunks

(* forwardChatSSE, one line: the payload of a data line as it is, less one  *)
(* "data:"; [DONE] and lines that are no data are dropped.                  *)
ChatLine(line, at) ==
    CASE line.kind = "text" -> <<Text(<<at>>)>>
      [] line.kind = "tool" -> <<Call(line.item, at)>>
      [] line.kind = "closing" -> <<Stop>>
      [] line.kind = "doubled" -> <<Garbled(<<at>>)>>
      [] OTHER -> <<>>

(* A deliberate fault: the body is read to the first line that is no data.  *)
ChatChunksToBlank(body) ==
    FlattenSeq([at \in DOMAIN body |->
        IF \E j \in 1 .. at : body[j].kind = "noise" THEN <<>> ELSE ChatLine(body[at], at)])

(* The chunks of a chat body.                                               *)
ChatChunks(body) == FlattenSeq([at \in DOMAIN body |-> ChatLine(body[at], at)])

(* What the chunks of a kind and an index carry, put together.              *)
Datas(chunks, kind, index) ==
    FlattenSeq([i \in DOMAIN chunks |->
        IF chunks[i].kind = kind /\ chunks[i].index = index THEN chunks[i].data ELSE <<>>])

(* The starts of call number index.                                         *)
Starts(chunks, index) == {k \in ToSet(chunks) : k.kind = "call" /\ k.index = index}

(* The message a client puts together from chunks, and the one              *)
(* assembleResponsesCompletion does: text in order, the arguments of each   *)
(* call under its index.                                                    *)
Message(chunks) ==
    [text |-> Datas(chunks, "text", 0),
     calls |-> [i \in {k.index : k \in {x \in ToSet(chunks) : x.kind = "call"}} |->
                  [id |-> {k.data : k \in Starts(chunks, i)}, args |-> Datas(chunks, "args", i)]]]

(* The positions up to n that are in a set, in order.                       *)
InOrder(positions, n) ==
    FlattenSeq([at \in 1 .. n |-> IF at \in positions THEN <<at>> ELSE <<>>])

(* The positions of the lines of some kinds, in order.                      *)
Of(body, kinds) == {at \in DOMAIN body : body[at].kind \in kinds}
Lines(body, kinds) == InOrder(Of(body, kinds), Len(body))

(* assembleChatCompletion: the text, with every "data:" stripped; tool      *)
(* calls are not read.                                                      *)
ChatCompletion(body) ==
    [text |-> Lines(body, {"text", "doubled"}), calls |-> <<>>]

(* The lines that add a call, and those with arguments for it.              *)
Adding(body) ==
    {at \in Of(body, {"added"}) : \A j \in 1 .. at - 1 : body[j] # body[at]}
ArgsFor(body, at) == {j \in Of(body, {"args"}) : j > at /\ body[j].item = body[at].item}

(* What the upstream meant by a responses body.  The code holds the text as *)
(* a whole for what some upstreams send "instead of streaming deltas".      *)
(* Calls are numbered in the order in which they were added; their          *)
(* arguments are theirs however the calls are interleaved.                  *)
Meant(body) ==
    LET deltas == Lines(body, {"delta"})
        first == InOrder(Adding(body), Len(body))
    IN  [text |-> IF deltas # <<>> THEN deltas ELSE Lines(body, {"whole"}),
         calls |-> [i \in {k - 1 : k \in DOMAIN first} |->
                      [id |-> {<<body[first[i + 1]].item>>},
                       args |-> InOrder(ArgsFor(body, first[i + 1]), Len(body))]]]

(* The body sends its text both ways: deltas first, then the whole.         *)
SaysItTwice(body) ==
    /\ \E at \in DOMAIN body : body[at].kind = "delta"
    /\ \E at \in DOMAIN body : body[at].kind = "whole"

-----------------------------------------------------------------------------
(* A paid completion: is it one the code can read, the text as a sequence   *)
(* of character widths in bytes (character k is its position), and how many *)
(* tools it calls.  The bytes of the text name their character.             *)
Bytes(widths) ==
    FlattenSeq([k \in DOMAIN widths |-> [b \in 1 .. widths[k] |-> k]])

(* A slice has all the bytes of character k.                               *)
Whole(slice, k, widths) == Cardinality({b \in DOMAIN slice : slice[b] = k}) = widths[k]

(* What json.Marshal makes of a slice of the text: a character that is      *)
(* whole stays, each byte of one that is not becomes U+FFFD, which is 0     *)
(* here.                                                                    *)
Broken == 0
Readable(slice, widths) ==
    FlattenSeq([b \in DOMAIN slice |->
        IF ~Whole(slice, slice[b], widths) THEN <<Broken>>
        ELSE IF b = 1 \/ slice[b - 1] # slice[b] THEN <<slice[b]>> ELSE <<>>])

(* A deliberate fault: a last slice that is not full is left out.           *)
SlicesFullOnly(bytes) ==
    [n \in 1 .. Len(bytes) \div Cut |-> SubSeq(bytes, (n - 1) * Cut + 1, n * Cut)]

(* content[i:end], for i = 0, Cut, 2 * Cut and so on.                       *)
Slices(bytes) ==
    [n \in 1 .. (Len(bytes) + Cut - 1) \div Cut |->
       SubSeq(bytes, (n - 1) * Cut + 1, IF n * Cut < Len(bytes) THEN n * Cut ELSE Len(bytes))]

(* chunkCompletion: the text in slices, the list of tool calls as it is in  *)
(* the completion (all under the index 0 a missing index is read as), a     *)
(* finish reason.  A body that is no chat completion gives no piece at all, *)
(* not even the last.                                                       *)
Pieces(answer) ==
    LET slices == Slices(Bytes(answer.widths))
    IN  IF ~answer.readable THEN <<>>
        ELSE [n \in DOMAIN slices |-> Text(Readable(slices[n], answer.widths))]
             \o (IF answer.calls > 0 THEN <<Call(0, answer.calls)>> ELSE <<>>) \o <<Stop>>

(* No character lies across a cut.                                          *)
CutsClean(widths) ==
    \A b \in DOMAIN Bytes(widths) :
        (b % Cut = 0 /\ b < Len(Bytes(widths))) => Bytes(widths)[b] # Bytes(widths)[b + 1]
=============================================================================
