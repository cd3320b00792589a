--------------------------- MODULE MCSavedSession ---------------------------
(***************************************************************************)
(* An instance of SavedSession: a session of up to two workspaces and      *)
(* three panes, three requests that make and change it, and one restart.   *)
(***************************************************************************)
EXTENDS SavedSession
=============================================================================
