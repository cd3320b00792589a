--------------------------- MODULE MCClientStream ---------------------------
(***************************************************************************)
(* An instance of ClientStream: two rows that can show two things each are *)
(* enough for a patch of one row to meet a change of the other; with two   *)
(* changes behind the first frame one frame is written, one waits in the   *)
(* slot, and one is deferred.  One control message may be queued before    *)
(* the client is told to go.                                               *)
(***************************************************************************)
EXTENDS ClientStream
=============================================================================
