------------------------------ MODULE MCStream ------------------------------
(* Constants of Stream for the model checker.                               *)
EXTENDS Stream

L(kind, item) == [kind |-> kind, item |-> item]

ResponsesLines ==
    {L("delta", 0), L("whole", 0), L("added", 1), L("added", 2), L("args", 1),
     L("args", 2), L("completed", 0), L("noise", 0)}

(* All bodies of up to two lines; two calls with interleaved arguments, in  *)
(* both orders; text on both sides of a call; deltas and the whole.         *)
ResponsesBodies ==
    UNION {[1 .. n -> ResponsesLines] : n \in 0 .. 2}
    \cup {<<L("added", 1), L("added", 2), L("args", x), L("args", 3 - x), L("completed", 0)>> :
             x \in {1, 2}}
    \cup {<<L("delta", 0), L("added", 2), L("args", 2), L("delta", 0)>>,
          <<L("args", 1), L("added", 1), L("added", 1), L("args", 1)>>,
          <<L("delta", 0), L("delta", 0), L("whole", 0)>>}

ChatBodies ==
    UNION {[1 .. n -> {L("text", 0), L("tool", 0), L("closing", 0), L("doubled", 0),
                       L("noise", 0)}] : n \in 0 .. 2}
    \cup {<<L("text", 0), L("noise", 0), L("text", 0), L("closing", 0)>>}

Paid(readable, widths, calls) ==
    [readable |-> readable, widths |-> widths, calls |-> calls, fails |-> FALSE]

(* Pieces of two bytes: text that is cut between characters, within one of  *)
(* two bytes and within one of three; no text; no chat completion at all;   *)
(* paid keys that fail.                                                     *)
PaidAnswers ==
    {Paid(TRUE, <<1, 1, 1>>, 0), Paid(TRUE, <<2, 1>>, 1), Paid(TRUE, <<1, 2>>, 0),
     Paid(TRUE, <<3, 1>>, 0), Paid(TRUE, <<>>, 2), Paid(FALSE, <<>>, 0), NoAnswer}

Job(kind, body, failover, answer, collect) ==
    [source |-> kind, body |-> body, failover |-> failover, answer |-> answer,
     collect |-> collect]

(* The answers of the paid keys matter where they are asked.                *)
MCJobs ==
    {Job("responses", b, f, NoAnswer, FALSE) : b \in ResponsesBodies, f \in BOOLEAN}
    \cup {Job("chat", b, f, NoAnswer, FALSE) : b \in ChatBodies, f \in BOOLEAN}
    \cup {Job(s, <<>>, TRUE, a, c) : s \in {"chat", "responses"}, a \in PaidAnswers,
                                     c \in BOOLEAN}
    \cup {Job("paid", <<>>, TRUE, a, c) : a \in PaidAnswers \ {NoAnswer}, c \in BOOLEAN}
    \cup {Job(s, <<>>, FALSE, NoAnswer, c) : s \in {"single", "terminal"}, c \in BOOLEAN}
=============================================================================
