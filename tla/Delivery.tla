------------------------------ MODULE Delivery ------------------------------
(***************************************************************************)
(* What a streamed answer promises its client, whatever goroutines and      *)
(* channels carry it: the answer is one sequence of chunks, of one tier; the *)
(* client gets them in order and each once; the stream is closed as         *)
(* complete only when it has them all; nothing comes after the end.         *)
(***************************************************************************)
EXTENDS Naturals, Sequences

CONSTANT Chunks     \* the chunks there may be

VARIABLES
    answer,     \* the chunks of the answer
    got,        \* those the client has
    ended       \* how the stream has ended: open, clean, error, or lost when
                \* nobody is left to be told

vars == <<answer, got, ended>>

Init == answer \in Seq(Chunks) /\ got = <<>> /\ ended = "open"

Send ==
    /\ ended = "open" /\ Len(got) < Len(answer)
    /\ got' = Append(got, answer[Len(got) + 1])
    /\ UNCHANGED <<answer, ended>>

Close ==
    /\ ended = "open"
    /\ \/ ended' = "clean" /\ got = answer
       \/ ended' \in {"error", "lost"}
    /\ UNCHANGED <<answer, got>>

Next == Send \/ Close

Spec == Init /\ [][Next]_vars
=============================================================================
