--------------------------- MODULE SessionHeaders ---------------------------
(***************************************************************************)
(* How a conversation gets its identity (src/session.go and                 *)
(* stickyDownstreamID of src/plugin.go): the headers that may name it, read *)
(* in priority order, and the identity the host computes as a fallback.     *)
(*                                                                          *)
(* A header is a sequence of spellings (Session-Id, session-id: keys that   *)
(* EqualFold holds equal), each with its list of values; the order of the   *)
(* spellings is the order in which Go walks the map, that is, any order.  A *)
(* value is an identity after TrimSpace, or Invalid: blank, over 1024       *)
(* bytes, or with a control character.                                      *)
(***************************************************************************)
EXTENDS Naturals, SequencesExt

CONSTANTS
    Ids,        \* the identities that pass normalizeSessionID
    NoId,       \* the empty string
    Invalid     \* every value that does not pass

ASSUME SessionHeadersAssumption == NoId \notin Ids /\ Invalid \notin Ids

(* What sessionHeaderValue returns: an identity, and whether the header was *)
(* there.  Present with no identity is the fail-closed answer.              *)
Absent == [id |-> NoId, present |-> FALSE]
Closed == [id |-> NoId, present |-> TRUE]
Named(id) == [id |-> id, present |-> TRUE]
Answers == {Absent, Closed} \cup {Named(id) : id \in Ids}

(* One value of the inner loop.  A value that is invalid or disagrees with  *)
(* the one selected ends both loops with the closed answer.                 *)
TakeValue(answer, value) ==
    IF answer = Closed \/ value \notin Ids THEN Closed
    ELSE IF answer = Absent \/ answer = Named(value) THEN Named(value)
    ELSE Closed

TakeSpelling(answer, values) ==
    IF values = <<>> THEN Closed ELSE FoldLeft(TakeValue, answer, values)

(* A deliberate fault: the first spelling met wins, without a look at the   *)
(* others.                                                                  *)
ScanFirstWins(spellings) ==
    IF spellings = <<>> THEN Absent ELSE TakeSpelling(Absent, Head(spellings))

(* sessionHeaderValue, for one order of the spellings.                      *)
Scan(spellings) == FoldLeft(TakeSpelling, Absent, spellings)

(* The answers it can give for a header, over all orders of the map.        *)
HeaderValue(spellings) ==
    {Scan([i \in DOMAIN spellings |-> spellings[order[i]]]) :
        order \in SetToSeqs(DOMAIN spellings)}

(* What the sources of a request read as, in priority order: every source   *)
(* is scanned on its own.                                                   *)
Readings(sources) ==
    LET values == [i \in DOMAIN sources |-> HeaderValue(sources[i])]
    IN  {r \in [DOMAIN sources -> UNION {values[i] : i \in DOMAIN sources}] :
            \A i \in DOMAIN sources : r[i] \in values[i]}

(* A deliberate fault: the host's identity is taken as it is.               *)
FallbackUnchecked(canonical) == canonical

(* sessionFallback: the host's canonical_session_id, when it is valid.      *)
SessionFallback(canonical) == IF canonical \in Ids THEN canonical ELSE NoId

First(indices) == CHOOSE i \in indices : \A j \in indices : i <= j

(* A deliberate fault: a source that reads as closed is passed over.        *)
MappedNotClosed(own, readings, canonical) ==
    LET named == {i \in DOMAIN readings : readings[i].id # NoId}
    IN  IF own.present THEN NoId
        ELSE IF named # {} THEN readings[First(named)].id
        ELSE SessionFallback(canonical)

(* A deliberate fault: the client's own X-Opencode-Session, or the one the  *)
(* first pass has set, is not looked at, and the host's identity comes      *)
(* first.                                                                   *)
MappedAgain(own, readings, canonical) ==
    LET there == {i \in DOMAIN readings : readings[i].present}
    IN  IF SessionFallback(canonical) # NoId THEN SessionFallback(canonical)
        ELSE IF there # {} THEN readings[First(there)].id
        ELSE NoId

(* mapSessionHeaders: the identity to send as X-Opencode-Session, or none.  *)
(* The client's own header is never overridden; the first source that is    *)
(* there decides, and when it reads as closed there is no identity at all,  *)
(* not even the host's.                                                     *)
Mapped(own, readings, canonical) ==
    LET there == {i \in DOMAIN readings : readings[i].present}
    IN  IF own.present THEN NoId
        ELSE IF there # {} THEN readings[First(there)].id
        ELSE SessionFallback(canonical)

(* A deliberate fault: the host's identity comes before the client's.       *)
DownstreamHostFirst(readings, canonical) ==
    LET named == {i \in DOMAIN readings : readings[i].id # NoId}
    IN  IF SessionFallback(canonical) # NoId THEN SessionFallback(canonical)
        ELSE IF named # {} THEN readings[First(named)].id
        ELSE NoId

(* stickyDownstreamID: the identity a pool session is chosen for.  Unlike   *)
(* mapSessionHeaders it passes over a source that reads as closed.          *)
Downstream(readings, canonical) ==
    LET named == {i \in DOMAIN readings : readings[i].id # NoId}
    IN  IF named # {} THEN readings[First(named)].id
        ELSE SessionFallback(canonical)

(* What a header says, whatever the order of its spellings: the one         *)
(* identity all its values agree on, if each spelling has a value and all   *)
(* are valid and equal.                                                     *)
Agreed(spellings) ==
    LET values == UNION {ToSet(spellings[i]) : i \in DOMAIN spellings}
    IN  IF spellings = <<>> THEN Absent
        ELSE IF /\ \A i \in DOMAIN spellings : spellings[i] # <<>>
                /\ \E id \in Ids : values = {id}
             THEN Named(CHOOSE id \in Ids : values = {id})
        ELSE Closed
=============================================================================
