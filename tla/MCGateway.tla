----------------------------- MODULE MCGateway -----------------------------
(* Constants of Gateway for the model checker.                              *)
EXTENDS Gateway

CONSTANTS a, b, c

(* Three sessions; the place of b is the last, so that its probe wraps.     *)
MCHome == (a :> 0) @@ (b :> 2) @@ (c :> 1)

(* Everything on, and everything off.                                       *)
MCConfigs == {[mapping |-> on, freeOn |-> on, paid |-> {"jev"}, free |-> {"mimo"}] :
                 on \in BOOLEAN}
MCModels == {"jev", "mimo", "other"}

(* A header that is not sent; one value; none at all; a value that is not   *)
(* valid; two values that agree or do not, in one spelling or in two.       *)
MCHeaders == {<<>>, << <<a>> >>, << <<b>> >>, << <<Invalid>> >>, << <<a, b>> >>,
              << <<b>>, <<b>> >>, << <<a>>, <<b>> >>, << <<b>>, <<>> >>}

Request(sources, own, model, pin, canonical, door, large) ==
    [sources |-> sources, own |-> own, model |-> model, pin |-> pin,
     canonical |-> canonical, door |-> door, large |-> large]

(* What a client may send in the first source alone, once with a header of  *)
(* its own; in the second when the first is missing or closed, with a pin;  *)
(* what the host computes for a client that sends none; the other models;   *)
(* the C ABI.                                                               *)
MCRequests ==
    {Request(<<h, <<>> >>, <<>>, "mimo", NoSession, c, "direct", FALSE) :
        h \in {<<>>, << <<b>>, <<>> >>}}
    \cup
    {Request(<< << <<Invalid>> >>, <<>> >>, << <<Invalid>> >>,
             "mimo", NoSession, c, "direct", FALSE),
     Request(<< <<>>, << <<b>>, <<b>> >> >>, <<>>,
             "mimo", 1, c, "direct", FALSE),
     Request(<< << <<a>>, <<b>> >>, << <<b>> >> >>, <<>>,
             "mimo", 1, c, "direct", FALSE)}
    \cup
    {Request(<< <<>>, << <<a>> >> >>, <<>>, "mimo", NoSession, NoId, "abi", FALSE),
     Request(<< <<>>, <<>> >>, <<>>, "jev", NoSession, Invalid, "abi", FALSE),
     Request(<< <<>>, << <<a>> >> >>, <<>>, "jev", NoSession, NoId, "abi", TRUE),
     Request(<< <<>>, <<>> >>, <<>>, "other", NoSession, NoId, "abi", FALSE)}
=============================================================================
