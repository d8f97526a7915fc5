----------------------------- MODULE MCFreeCall -----------------------------
(* Constants of Sharing, which has all of FreeCall, for the model checker.  *)
EXTENDS Sharing

(* A pool fresh from the minting script.                                    *)
MCFresh == {[fails |-> 0, until |-> 0]}
=============================================================================
