---------------------------- MODULE SessionPool ----------------------------
(***************************************************************************)
(* The file-backed pool of minted session ids (src/free.go, sessionPool):   *)
(* the health record of a session and the pure part of the operations that  *)
(* run under the pool's mutex.  A pool is a function from sessions, which   *)
(* are their positions in the file, to health records; every operator takes *)
(* the pool and the clock as arguments and keeps no state of its own.       *)
(***************************************************************************)
EXTENDS Integers

CONSTANTS
    NumSessions,    \* len(p.sessions)
    FailLimit       \* 5 in the code: a session with this many failures is skipped

ASSUME SessionPoolAssumption ==
    /\ NumSessions \in Nat
    /\ FailLimit \in Nat \ {0}

Sessions == 0 .. NumSessions - 1

(* pick and assign answer "" when no session is usable, and a request may   *)
(* carry "" as its only identity (the anonymous request).                   *)
NoSession == -1

(* sessionEntry without its id. *)
Health == [fails : Nat, until : Nat]

(* The test shared by pick, assign and sessionUsable.                       *)
Usable(h, t) == h.fails < FailLimit /\ h.until <= t

(* What report does to one entry: a success wipes the record; a failure     *)
(* adds one to the counter and, whatever the record says, moves the end of  *)
(* the cooldown to cooldown seconds from now.                               *)
Reported(h, ok, cooldown, t) ==
    IF ok THEN [fails |-> 0, until |-> 0]
    ELSE [fails |-> h.fails + 1,
          until |-> IF cooldown > 0 THEN t + cooldown ELSE h.until]

(* report looks the id up: the empty id names no entry, so it changes       *)
(* nothing.                                                                 *)
Report(pool, s, ok, cooldown, t) ==
    IF s \in Sessions
    THEN [pool EXCEPT ![s] = Reported(pool[s], ok, cooldown, t)]
    ELSE pool

(* A deliberate fault: the scan stops one session short of a full round.    *)
FirstUsableShort(pool, from, t, s) ==
    \/ /\ s = NoSession
       /\ \A k \in 0 .. NumSessions - 2 : ~Usable(pool[(from + k) % NumSessions], t)
    \/ \E k \in 0 .. NumSessions - 2 :
          /\ s = (from + k) % NumSessions
          /\ Usable(pool[s], t)
          /\ \A j \in 0 .. k - 1 : ~Usable(pool[(from + j) % NumSessions], t)

(* s is the answer of a scan of NumSessions positions of the ring that      *)
(* starts at position from: the first usable session it meets, or none when *)
(* it meets none.                                                           *)
FirstUsable(pool, from, t, s) ==
    \/ /\ s = NoSession
       /\ \A k \in 0 .. NumSessions - 1 : ~Usable(pool[(from + k) % NumSessions], t)
    \/ \E k \in 0 .. NumSessions - 1 :
          /\ s = (from + k) % NumSessions
          /\ Usable(pool[s], t)
          /\ \A j \in 0 .. k - 1 : ~Usable(pool[(from + j) % NumSessions], t)

(* pick advances the cursor before it looks, and leaves it on the session   *)
(* it returns; a fruitless scan goes round the ring once and ends where it  *)
(* began.                                                                   *)
Picked(pool, rr, t, s) == FirstUsable(pool, rr + 1, t, s)

(* A deliberate fault: a fruitless scan loses the cursor.                   *)
CursorLost(rr, s) == s

(* A deliberate fault: the cursor is left behind the session returned.      *)
CursorPastPick(rr, s) == IF s = NoSession THEN rr ELSE (s + 1) % NumSessions

CursorAfter(rr, s) == IF s = NoSession THEN rr ELSE s
=============================================================================
