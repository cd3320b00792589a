----------------------------- MODULE MCHandoff ------------------------------
(***************************************************************************)
(* Two terminals, so that one may be paused and the other not, and two     *)
(* attempts, the second on what a failed first one has left.               *)
(***************************************************************************)
EXTENDS Handoff
=============================================================================
