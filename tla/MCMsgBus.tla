------------------------------ MODULE MCMsgBus ------------------------------
(***************************************************************************)
(* Model-checking instance of MsgBus.  The methods treat pane ids and      *)
(* group names as opaque keys, so both may be permuted.                    *)
(***************************************************************************)
EXTENDS MsgBus, TLC

Symmetry == Permutations(PaneIds) \cup Permutations(Groups)

=============================================================================
