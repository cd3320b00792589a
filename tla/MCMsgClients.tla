---------------------------- MODULE MCMsgClients ----------------------------
(***************************************************************************)
(* Instances of MsgClients: one pane under one or two ids.  In the one for *)
(* the clients two messages may lie in the inbox, one behind the other,    *)
(* and every event evicts the last one from a ring of one; in the one for  *)
(* the comment on events, nothing is evicted anywhere.                     *)
(***************************************************************************)
EXTENDS MsgClients
=============================================================================
