----------------------------- MODULE MCPtyActor -----------------------------
(***************************************************************************)
(* Two writing tasks and a channel of one: a task waits for its place      *)
(* while the actor is paused.  Two calls by the main thread are a pause    *)
(* and what follows it, or a second attempt on top of what the first left. *)
(***************************************************************************)
EXTENDS PtyActor
=============================================================================
