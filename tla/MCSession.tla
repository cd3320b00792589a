------------------------------ MODULE MCSession ------------------------------
(***************************************************************************)
(* Instances of Session: three panes and three workspaces over the life of *)
(* the session, so that panes move on and leave others behind, and         *)
(* workspaces close behind and in front of the active one.                 *)
(***************************************************************************)
EXTENDS Session
=============================================================================
