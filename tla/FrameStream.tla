---------------------------- MODULE FrameStream ----------------------------
(***************************************************************************)
(* What the server promises one attached client about its screen, free of  *)
(* the encodings, the queue and the threads: the client shows, in order,   *)
(* whole frames each of which was the current one at the moment it was     *)
(* offered.  No frame is shown in part, mixed with another or in front of  *)
(* an earlier one.  Frames between two offers may be skipped.              *)
(***************************************************************************)
EXTENDS Naturals, Sequences

CONSTANT Frames  \* what a client's terminal can show

VARIABLES
  content,  \* the frame that is current
  pipe,     \* the frames on their way to the client
  screen    \* the frame the client shows

Init == content \in Frames /\ screen \in Frames /\ pipe = <<>>

Change == content' \in Frames /\ UNCHANGED <<pipe, screen>>

\* One frame may be in the writer's hands and one behind it.
Offer == /\ Len(pipe) < 2
         /\ pipe' = Append(pipe, content)
         /\ UNCHANGED <<content, screen>>

Show == /\ pipe # <<>>
        /\ screen' = Head(pipe) /\ pipe' = Tail(pipe)
        /\ UNCHANGED content

\* The connection breaks with frames on their way.
Break == pipe' = <<>> /\ UNCHANGED <<content, screen>>

Next == Change \/ Offer \/ Show \/ Break

Spec == Init /\ [][Next]_<<content, pipe, screen>>
=============================================================================
