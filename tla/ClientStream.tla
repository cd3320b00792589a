---------------------------- MODULE ClientStream ----------------------------
(***************************************************************************)
(* How the headless server keeps one attached client's screen up to date:  *)
(* the render half of its main loop (src/server/headless.rs), the          *)
(* client's render baseline (src/server/render_stream.rs, clients.rs), and *)
(* the queue, the writer thread and the reader thread of its connection    *)
(* (src/server/client_transport.rs).                                       *)
(*                                                                         *)
(* The actors are the main loop, which never waits for a client; the PTY   *)
(* reader, which changes the terminal's rows; the writer thread; the       *)
(* reader thread; and the client, which applies what it is sent.  When the *)
(* server stops, its process exits and nobody waits for the threads.  A    *)
(* frame is what each row of the screen shows.  A terminal-ANSI client is  *)
(* sent the rows in which a frame differs from its baseline, a semantic    *)
(* client whole frames; either way a message is a function on some rows.   *)
(* An Option is a set with at most one element.  Kitty graphics, oversized *)
(* frames and the handshake are left out.                                  *)
(*                                                                         *)
(* An operator whose name extends another's (recv_quitting_first) is that  *)
(* operator with a plausible slip in it.  Nothing uses it; it shows, put   *)
(* in the place of the right one, that a property notices.                 *)
(***************************************************************************)
EXTENDS Naturals, Sequences

CONSTANTS
  Rows,       \* the rows of the screen
  Cells,      \* what a row can show,
  Blank,      \* and one of them: they are alike, so one start shows all,
  Before,     \* and some of them: what the client may show when it attaches
  Encodings,  \* the encodings clients ask for: "ansi", "semantic"
  EventCap,   \* capacity of the server's event channel (64)
  MaxControl, \* bounds of the model: control messages queued at once,
  MaxChanges  \* and inputs, changes of the picture and control messages in all

ASSUME StreamAssumption == /\ Blank \in Cells /\ Before \subseteq Cells
                           /\ Encodings \subseteq {"ansi", "semantic"}
                           /\ EventCap \in Nat \ {0} /\ {MaxControl, MaxChanges} \subseteq Nat

Frames == [Rows -> Cells]
Messages == UNION {[rows -> Cells] : rows \in SUBSET Rows}
Controls == {"mouse_capture", "shutdown"}

VARIABLES
  content,       \* the frame a full render would draw now
  touched,       \* rows the terminal marked dirty since they were last drawn
  unmarked,      \* the PTY reader has written and not yet set render_dirty
  render_dirty,  \* the flag it sets
  needs_full,    \* needs_full_render of the main loop
  falling_back,  \* the main loop is between a retained attempt and a full render
  process,       \* "serving", "stopping" (the loop has ended) or "exited"
  encoding,      \* the encoding of the client's handshake
  conn,          \* its ClientConnection, as the main loop keeps it
  queue,         \* its ClientWriterQueue, under the mutex
  writer,        \* its writer thread
  events,        \* the server event channel, as far as this client fills it
  reader_done,   \* its reader thread has ended
  socket,        \* "open" until the client closes it or the process exits
  screen,        \* what the client shows
  told,          \* the client has read a shutdown notice
  changes        \* bound of the model: what may still happen to the picture

terminal == <<content, touched, unmarked>>
loop == <<render_dirty, needs_full, falling_back, process>>
client == <<reader_done, socket, screen, told>>
vars == <<terminal, loop, encoding, conn, queue, writer, events, client, changes>>

\* The main loop runs; the threads run.
Serving == process = "serving"
Alive == process # "exited"

-----------------------------------------------------------------------------
(* Messages and baselines.                                                 *)

\* A picture after some of its rows were replaced.
Applied(message, shown) ==
  [r \in Rows |-> IF r \in DOMAIN message THEN message[r] ELSE shown[r]]

\* BlitEncoder::encode and the semantic frame.
encode(enc, baseline, frame) ==
  IF enc = "semantic" THEN frame
  ELSE [r \in {s \in Rows : \A f \in baseline : f[s] # frame[s]} |-> frame[r]]

\* commit_sent_frame: what is queued becomes the baseline.
commit(c, frame) == [c EXCEPT !.baseline = {frame}, !.render_pending = FALSE]

\* defer_full_render, for a frame that found the slot taken.
defer_committing(c, frame) == [c EXCEPT !.baseline = {frame}, !.render_pending = TRUE]
defer(c, frame) == [c EXCEPT !.render_pending = TRUE]

reset_baseline(c) == [c EXCEPT !.baseline = {}]

-----------------------------------------------------------------------------
(* The queue.                                                              *)

\* Both halves of the ClientWriter are dropped; each counts itself out.
drop_writer(q) == [q EXCEPT !.senders = 0]

push_control(q, message) == [q EXCEPT !.control = Append(@, message)]

\* What ClientWriterQueue::recv comes back with.
recv_quitting_first(q) ==
  IF q.senders = 0 THEN "end"
  ELSE IF q.control # <<>> THEN "control"
  ELSE IF q.render # {} THEN "render" ELSE "wait"
recv(q) ==
  IF q.control # <<>> THEN "control"
  ELSE IF q.render # {} THEN "render"
  ELSE IF q.senders = 0 THEN "end" ELSE "wait"

-----------------------------------------------------------------------------
Init ==
  /\ content = [r \in Rows |-> Blank] /\ touched = {} /\ unmarked = FALSE
  /\ render_dirty = FALSE /\ needs_full = TRUE /\ falling_back = FALSE
  /\ process = "serving"
  /\ encoding \in Encodings
  /\ conn = [state |-> "attached", baseline |-> {}, render_pending |-> FALSE]
  /\ queue = [control |-> <<>>, render |-> {}, senders |-> 2, writer_alive |-> TRUE]
  /\ writer = [pc |-> "recv", control |-> {}, render |-> {}]
  /\ events = <<>>
  /\ reader_done = FALSE /\ socket = "open" /\ told = FALSE
  /\ screen \in [Rows -> Before]
  /\ changes = MaxChanges

-----------------------------------------------------------------------------
(* What changes the picture.                                               *)

\* A bound of the model: what happens to the picture is counted, and nothing
\* does once the connection is removed, when the client is not sent it.
Changes == /\ conn.state # "removed"
           /\ changes > 0 /\ changes' = changes - 1

\* The PTY reader feeds output to the terminal, then sets render_dirty.
PtyWrite(r, cell) ==
  /\ Changes /\ ~unmarked /\ cell # content[r]
  /\ content' = [content EXCEPT ![r] = cell]
  /\ touched' = touched \cup {r}
  /\ unmarked' = TRUE
  /\ UNCHANGED <<loop, encoding, conn, queue, writer, events, client>>

PtyMark ==
  /\ unmarked
  /\ render_dirty' = TRUE /\ unmarked' = FALSE
  /\ UNCHANGED <<content, touched, needs_full, falling_back, process, encoding, conn, queue,
                 writer, events, client, changes>>

\* An internal event, an API request or a client's input that changes what
\* is drawn.  The terminal does not mark rows for it: the loop is told.
AppChange(r, cell) ==
  /\ Changes /\ ~falling_back /\ cell # content[r]
  /\ content' = [content EXCEPT ![r] = cell]
  /\ needs_full' = TRUE
  /\ UNCHANGED <<touched, unmarked, render_dirty, falling_back, process, encoding,
                 conn, queue, writer, events, client>>

-----------------------------------------------------------------------------
(* Events of the client that the main loop handles.                        *)

\* handle_client_input_events: a semantic client gets one frame after its
\* input even if nothing changed.  Only an interaction asks for a render.
Input(interaction) ==
  /\ Changes /\ ~falling_back
  /\ conn' = IF encoding = "semantic" THEN reset_baseline(conn) ELSE conn
  /\ needs_full' = (needs_full \/ interaction)
  /\ UNCHANGED <<terminal, render_dirty, falling_back, process, encoding, queue, writer,
                 events, client>>

\* The client's terminal regained the focus and may have lost its picture.
FocusGained ==
  /\ Changes /\ ~falling_back
  /\ conn' = [reset_baseline(conn) EXCEPT !.render_pending = TRUE]
  /\ needs_full' = TRUE
  /\ UNCHANGED <<terminal, render_dirty, falling_back, process, encoding, queue, writer,
                 events, client>>

\* resize_shared_runtime_to_effective_size, on a resize of this client or
\* when the foreground changes.
RedrawAll ==
  /\ Changes /\ ~falling_back
  /\ conn' = reset_baseline(conn)
  /\ needs_full' = TRUE
  /\ UNCHANGED <<terminal, render_dirty, falling_back, process, encoding, queue, writer,
                 events, client>>

-----------------------------------------------------------------------------
(* The main loop.                                                          *)

Removed == [state |-> "removed", baseline |-> {}, render_pending |-> FALSE]

remove_client == conn' = Removed /\ queue' = drop_writer(queue)

\* The keybinding that detaches: the writer is told to say so and dropped;
\* the connection stays until its reader thread reports the end.
DetachRequested ==
  /\ ~falling_back /\ conn.state = "attached"
  /\ IF queue.writer_alive
     THEN /\ conn' = [conn EXCEPT !.state = "detached"]
          /\ queue' = drop_writer(push_control(queue, "shutdown"))
     ELSE remove_client
  /\ UNCHANGED <<terminal, loop, encoding, writer, events, client, changes>>

\* A control message for this client, or its removal when the writer is gone.
SendControl ==
  /\ Changes /\ ~falling_back /\ conn.state = "attached"
  /\ IF queue.writer_alive
     THEN /\ Len(queue.control) < MaxControl
          /\ queue' = push_control(queue, "mouse_capture") /\ UNCHANGED conn
     ELSE remove_client
  /\ UNCHANGED <<terminal, loop, encoding, writer, events, client>>

\* A client is told to go by a server that goes on: its terminal is taken
\* over or gone, it is refused, or the server prepares a handoff.
SendShutdown ==
  /\ ~falling_back /\ conn.state = "attached"
  /\ conn' = Removed
  /\ queue' = drop_writer(IF queue.writer_alive THEN push_control(queue, "shutdown")
                                                ELSE queue)
  /\ UNCHANGED <<terminal, loop, encoding, writer, events, client, changes>>

HandleDrained ==
  /\ ~falling_back /\ events # <<>> /\ Head(events) = "drained"
  /\ events' = Tail(events)
  /\ IF conn.state = "removed" THEN UNCHANGED <<conn, needs_full>>
     ELSE /\ conn' = [conn EXCEPT !.render_pending = FALSE]
          /\ needs_full' = (needs_full \/ conn.render_pending)
  /\ UNCHANGED <<terminal, render_dirty, falling_back, process, encoding, queue, writer,
                 client, changes>>

HandleDisconnected ==
  /\ ~falling_back /\ events # <<>> /\ Head(events) = "disconnected"
  /\ events' = Tail(events)
  /\ remove_client
  /\ needs_full' = TRUE
  /\ UNCHANGED <<terminal, render_dirty, falling_back, process, encoding, writer, client,
                 changes>>

\* prepare_frame finds nothing to send.
IsCurrent(frame) == conn.baseline = {frame}

\* The tail of both render paths: nothing to send, the slot is free, the
\* slot is taken, the writer thread is gone.
TrySend(frame) ==
  \/ /\ IsCurrent(frame)
     /\ conn' = [conn EXCEPT !.render_pending = FALSE] /\ UNCHANGED queue
  \/ /\ ~IsCurrent(frame) /\ queue.writer_alive /\ queue.render = {}
     /\ queue' = [queue EXCEPT !.render = {encode(encoding, conn.baseline, frame)}]
     /\ conn' = commit(conn, frame)
  \/ /\ ~IsCurrent(frame) /\ queue.writer_alive /\ queue.render # {}
     /\ conn' = defer(conn, frame) /\ UNCHANGED queue
  \/ /\ ~IsCurrent(frame) /\ ~queue.writer_alive
     /\ remove_client

RetainedAllowed_when_deferred ==
  /\ conn.state = "attached" /\ conn.baseline # {}

\* What render_retained_pty_update_and_stream asks of the client.
RetainedAllowed ==
  /\ conn.state = "attached" /\ conn.baseline # {} /\ ~conn.render_pending

\* The rows the terminal marked, as they are now.
dirty_patch == [r \in touched |-> content[r]]

\* The last frame sent with that patch put over it.
retained_frame == Applied(dirty_patch, CHOOSE f \in conn.baseline : TRUE)

\* The retained attempt has sent its frame, or has found nothing to send.
Sent == conn'.state = "attached" /\ ~conn'.render_pending

\* render_and_stream for this client; the terminal's marks are cleared.
FullRender ==
  /\ needs_full' = FALSE /\ falling_back' = FALSE
  /\ touched' = {}
  /\ IF conn.state = "attached" THEN TrySend(content) ELSE UNCHANGED <<conn, queue>>

\* What else the retained path asks is free here: it may give up without
\* the client's fault, with some of the marks collected already.
RenderRetained ==
  /\ ~falling_back /\ ~needs_full /\ render_dirty
  /\ render_dirty' = FALSE
  /\ \/ /\ RetainedAllowed
        /\ touched' = {}
        /\ TrySend(retained_frame)
        /\ falling_back' = ~Sent
     \/ /\ touched' \in SUBSET touched
        /\ falling_back' = TRUE
        /\ UNCHANGED <<conn, queue>>
  /\ UNCHANGED <<content, unmarked, needs_full, process, encoding, writer, events, client,
                 changes>>

RenderFull ==
  /\ needs_full \/ falling_back
  /\ render_dirty' = (render_dirty /\ falling_back)
  /\ FullRender
  /\ UNCHANGED <<content, unmarked, process, encoding, writer, events, client, changes>>

-----------------------------------------------------------------------------
(* The end of the process.                                                 *)

\* initiate_shutdown at the top of a turn, and complete_shutdown, which is
\* all that the next turn does: the client is told twice and dropped.
StopServer ==
  LET noticed == push_control(push_control(queue, "shutdown"), "shutdown")
  IN  /\ ~falling_back
      /\ process' = "stopping"
      /\ conn' = Removed
      /\ queue' = drop_writer(IF conn.state = "attached" /\ queue.writer_alive
                              THEN noticed ELSE queue)
      /\ UNCHANGED <<terminal, render_dirty, needs_full, falling_back, encoding, writer,
                     events, client, changes>>

\* 50 ms after each notice run() returns and the process ends: with its
\* threads, whatever they still hold, and its end of the socket.
ProcessExits ==
  /\ process = "stopping"
  /\ process' = "exited" /\ socket' = "closed"
  /\ queue' = [control |-> <<>>, render |-> {}, senders |-> 0, writer_alive |-> FALSE]
  /\ writer' = [pc |-> "exited", control |-> {}, render |-> {}]
  /\ events' = <<>> /\ reader_done' = TRUE
  /\ UNCHANGED <<terminal, render_dirty, needs_full, falling_back, encoding, conn, screen,
                 told, changes>>

-----------------------------------------------------------------------------
(* The writer thread: client_writer_loop.                                  *)

WriterTakesControl ==
  /\ writer.pc = "recv" /\ recv(queue) = "control"
  /\ writer' = [writer EXCEPT !.pc = "write", !.control = {Head(queue.control)}]
  /\ queue' = [queue EXCEPT !.control = Tail(@)]
  /\ UNCHANGED <<terminal, loop, encoding, conn, events, client, changes>>

WriterTakesRender_silently ==
  /\ writer.pc = "recv" /\ recv(queue) = "render"
  /\ writer' = [writer EXCEPT !.pc = "write", !.render = queue.render]
  /\ queue' = [queue EXCEPT !.render = {}]
  /\ UNCHANGED <<terminal, loop, encoding, conn, events, client, changes>>

WriterTakesRender ==
  /\ writer.pc = "recv" /\ recv(queue) = "render"
  /\ writer' = [writer EXCEPT !.pc = "drained", !.render = queue.render]
  /\ queue' = [queue EXCEPT !.render = {}]
  /\ UNCHANGED <<terminal, loop, encoding, conn, events, client, changes>>

WriterReports_unbounded ==
  /\ writer.pc = "drained"
  /\ events' = Append(events, "drained")
  /\ writer' = [writer EXCEPT !.pc = "write"]
  /\ UNCHANGED <<terminal, loop, encoding, conn, queue, client, changes>>

\* blocking_send(ClientWriterDrained) waits for room in the channel.
WriterReports ==
  /\ writer.pc = "drained" /\ Len(events) < EventCap
  /\ events' = Append(events, "drained")
  /\ writer' = [writer EXCEPT !.pc = "write"]
  /\ UNCHANGED <<terminal, loop, encoding, conn, queue, client, changes>>

WriterWrites ==
  /\ writer.pc = "write" /\ socket = "open"
  /\ writer' = [pc |-> "recv", control |-> {}, render |-> {}]
  /\ screen' = IF writer.render = {} THEN screen
               ELSE Applied(CHOOSE m \in writer.render : TRUE, screen)
  /\ told' = (told \/ writer.control = {"shutdown"})
  /\ UNCHANGED <<terminal, loop, encoding, conn, queue, events, reader_done, socket,
                 changes>>

WriterFails ==
  /\ writer.pc = "write" /\ socket = "closed"
  /\ writer' = [pc |-> "closing", control |-> {}, render |-> {}]
  /\ UNCHANGED <<terminal, loop, encoding, conn, queue, events, client, changes>>

WriterEnds ==
  /\ writer.pc = "recv" /\ recv(queue) = "end"
  /\ writer' = [writer EXCEPT !.pc = "closing"]
  /\ UNCHANGED <<terminal, loop, encoding, conn, queue, events, client, changes>>

WriterCloses ==
  /\ writer.pc = "closing"
  /\ writer' = [writer EXCEPT !.pc = "exited"]
  /\ queue' = [queue EXCEPT !.writer_alive = FALSE]
  /\ UNCHANGED <<terminal, loop, encoding, conn, events, client, changes>>

-----------------------------------------------------------------------------
(* The client and the reader thread.                                       *)

\* It exits, when it was told to or on its own, or its network is gone.
ClientCloses ==
  /\ socket = "open" /\ socket' = "closed"
  /\ UNCHANGED <<terminal, loop, encoding, conn, queue, writer, events, reader_done,
                 screen, told, changes>>

\* client_read_loop ends at the end of the stream, at an error, or at a
\* message over one of the limits, when the socket may be open still.
ReaderReports ==
  /\ ~reader_done /\ Len(events) < EventCap
  /\ events' = Append(events, "disconnected")
  /\ reader_done' = TRUE
  /\ UNCHANGED <<terminal, loop, encoding, conn, queue, writer, socket, screen, told,
                 changes>>

-----------------------------------------------------------------------------
Picture == \/ \E r \in Rows, cell \in Cells : PtyWrite(r, cell)
           \/ PtyMark
MainLoop == \/ \E r \in Rows, cell \in Cells : AppChange(r, cell)
            \/ \E interaction \in BOOLEAN : Input(interaction)
            \/ FocusGained \/ RedrawAll \/ DetachRequested
            \/ SendControl \/ SendShutdown \/ HandleDrained \/ HandleDisconnected
            \/ RenderRetained \/ RenderFull \/ StopServer
Writer == \/ WriterTakesControl \/ WriterTakesRender \/ WriterReports
          \/ WriterWrites \/ WriterFails \/ WriterEnds \/ WriterCloses
Next == \/ Serving /\ MainLoop
        \/ ProcessExits
        \/ /\ Alive
           /\ Picture \/ Writer \/ ReaderReports
        \/ ClientCloses

Spec == Init /\ [][Next]_vars

-----------------------------------------------------------------------------
(* Properties.                                                             *)

TypeOK ==
  /\ content \in Frames /\ touched \in SUBSET Rows
  /\ {unmarked, render_dirty, needs_full, falling_back, reader_done, told}
       \subseteq BOOLEAN
  /\ process \in {"serving", "stopping", "exited"}
  /\ encoding \in Encodings
  /\ conn \in [state : {"attached", "detached", "removed"},
               baseline : SUBSET Frames, render_pending : BOOLEAN]
  /\ queue \in [control : Seq(Controls), render : SUBSET Messages, senders : {0, 1, 2},
                writer_alive : BOOLEAN]
  /\ writer \in [pc : {"recv", "drained", "write", "closing", "exited"},
                 control : SUBSET Controls, render : SUBSET Messages]
  /\ events \in Seq({"drained", "disconnected"}) /\ Len(events) <= EventCap
  /\ socket \in {"open", "closed"} /\ screen \in Frames
  /\ changes \in 0..MaxChanges

\* The writer thread still writes what it is given.
Writing == writer.pc \notin {"closing", "exited"}

\* What the client shows once what the writer holds, and then what is in
\* the slot, has reached it.
AfterWriter == IF writer.render = {} THEN screen
               ELSE Applied(CHOOSE m \in writer.render : TRUE, screen)
AfterSlot == IF queue.render = {} THEN AfterWriter
             ELSE Applied(CHOOSE m \in queue.render : TRUE, AfterWriter)

\* The baseline the next frame is diffed against (render_stream.rs) is what
\* the client will show when everything queued has reached it: a frame that
\* did not fit into the slot never becomes the baseline.
BaselineIsWhatItWillShow ==
  Writing => \A frame \in conn.baseline : frame = AfterSlot

\* The frames on their way, as the abstract stream sees them.
Pipe ==
  IF ~Writing THEN <<>>
  ELSE (IF writer.render = {} THEN <<>> ELSE <<AfterWriter>>)
         \o (IF queue.render = {} THEN <<>> ELSE <<AfterSlot>>)

Stream == INSTANCE FrameStream WITH pipe <- Pipe

\* Through row patches, retained frames and the one-frame slot the client
\* only ever shows whole frames that were current when they were offered.
ImplementsFrameStream == Stream!Spec

-----------------------------------------------------------------------------
ToldCloses == told /\ ClientCloses

ReaderNotices == socket = "closed" /\ ReaderReports

\* As long as the process lives, threads that can run do.  As long as it
\* serves, every turn of the main loop drains its events and renders when it
\* is due.  A client that was told to stop does, and one that is open reads
\* what it is sent.  Nothing makes it close otherwise, and nothing makes the
\* server stop; but what it has begun of that it finishes, and then no thread
\* gets anything done.
Fairness == /\ WF_vars(Alive /\ PtyMark)
            /\ WF_vars(Serving /\ RenderRetained) /\ WF_vars(Serving /\ RenderFull)
            /\ SF_vars(Serving /\ (HandleDrained \/ HandleDisconnected))
            /\ WF_vars(ProcessExits)
            /\ WF_vars(Alive /\ Writer)
            /\ WF_vars(Alive /\ ReaderNotices) /\ WF_vars(ToldCloses)

FairSpec == Spec /\ Fairness

\* However slow the client was: when the picture stops changing, the client
\* comes to show it, or is no longer attached (render_and_stream,
\* ClientWriterDrained).
Converges ==
  changes = 0 ~> (screen = content \/ conn.state # "attached" \/ socket = "closed")

\* As long as the server goes on, a client that is detached, taken over or
\* refused reads that before its connection ends: the writer empties the
\* control queue before it ends, dropped or not (ClientWriterQueue::recv).
\* A server that stops waits 100 ms and promises nothing.
ShutdownIsRead ==
  \A k \in 1..(MaxControl + 1) :
    (k <= Len(queue.control) /\ queue.control[k] = "shutdown") ~>
      (told \/ socket = "closed" \/ ~Serving)
=============================================================================
