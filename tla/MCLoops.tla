-------------------------------- MODULE MCLoops --------------------------------
(***************************************************************************)
(* Both loops in one run.  Init picks the backend; the thread of the other *)
(* one is "off", where no action of it is enabled.                         *)
(***************************************************************************)
EXTENDS EpollLoop, UringLoop

Off == "off"

LoopsInit ==
  \/ /\ Init
     /\ step = Off /\ reap = [from |-> Off, count |-> 0] /\ ring = [NewRing EXCEPT !.sq = <<>>]
  \/ UringInit /\ pc = Off /\ turn = 0 /\ active = {}

LoopsNext ==
  \/ pc # Off /\ Next /\ UNCHANGED ringVars
  \/ step # Off /\ UringNext /\ UNCHANGED thread

LoopsSpec ==
  /\ LoopsInit /\ [][LoopsNext]_<<vars, ringVars>>
  /\ Fairness /\ UringFairness
================================================================================
