----------------------------- MODULE DrainBarrier -----------------------------
(***************************************************************************)
(* What an event source promises about its end, whatever its internal      *)
(* states: it is open until it is asked to stop, it is over exactly when   *)
(* it was asked to stop and nothing of it is outstanding (no request the   *)
(* kernel still owns, no event not yet taken, no buffer not yet returned), *)
(* and once over it stays over and takes on no new work.                   *)
(***************************************************************************)
EXTENDS Integers

VARIABLES
  phase,       \* "open", "closing" or "over"
  outstanding  \* how much is outstanding

barrierVars == <<phase, outstanding>>

Init == phase = "open" /\ outstanding = 0

(* Work is taken on and handed back.  While closing, only work in flight    *)
(* may turn into other work, and the step that ends the last of it ends the *)
(* source.                                                                  *)
Work ==
  /\ phase # "over"
  /\ outstanding' \in Nat
  /\ phase' = IF phase = "closing" /\ outstanding' = 0 THEN "over" ELSE phase

Stop ==
  /\ phase = "open"
  /\ phase' = IF outstanding = 0 THEN "over" ELSE "closing"
  /\ UNCHANGED outstanding

Next == Work \/ Stop

Spec == Init /\ [][Next]_barrierVars
=============================================================================
