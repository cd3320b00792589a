------------------------- MODULE ClientStreamProofs -------------------------
(***************************************************************************)
(* Proofs about ClientStream, for every screen, every set of cells and     *)
(* every capacity: its invariants, and that it implements FrameStream.     *)
(***************************************************************************)
EXTENDS ClientStream, ProofLemmas

-----------------------------------------------------------------------------
(* The inductive invariant.                                                *)

\* An Option: nothing or one thing.
Options(S) == {{}} \cup {{x} : x \in S}

Connections == [state : {"attached", "detached", "removed"},
                baseline : Options(Frames), render_pending : BOOLEAN]
Queues == [control : Seq(Controls), render : Options(Messages), senders : {0, 1, 2},
           writer_alive : BOOLEAN]
Writers == [pc : {"recv", "drained", "write", "closing", "exited"},
            control : Options(Controls), render : Options(Messages)]
Processes == {"serving", "stopping", "exited"}

\* TypeOK, knowing of the options that they are.
Types ==
  /\ content \in Frames /\ touched \in SUBSET Rows
  /\ unmarked \in BOOLEAN /\ render_dirty \in BOOLEAN /\ needs_full \in BOOLEAN
  /\ falling_back \in BOOLEAN /\ reader_done \in BOOLEAN /\ told \in BOOLEAN
  /\ process \in Processes
  /\ encoding \in Encodings
  /\ conn \in Connections
  /\ queue \in Queues
  /\ writer \in Writers
  /\ events \in Seq({"drained", "disconnected"}) /\ Len(events) <= EventCap
  /\ socket \in {"open", "closed"} /\ screen \in Frames
  /\ changes \in 0..MaxChanges

\* The writer holds a frame only from when it took it to when it wrote it.
WriterHolds == writer.pc \in {"recv", "closing", "exited"} => writer.render = {}

\* When the main loop may put the rows the terminal marked over the baseline,
\* the other rows of the baseline are as a full render would draw them.
OthersAreCurrent ==
  conn.state = "attached" /\ ~conn.render_pending /\ ~needs_full /\ ~falling_back =>
    \A frame \in conn.baseline : \A r \in Rows \ touched : frame[r] = content[r]

IInv == Types /\ WriterHolds /\ OthersAreCurrent /\ BaselineIsWhatItWillShow

-----------------------------------------------------------------------------
(* Messages and baselines.                                                 *)

\* A message replaces rows of a frame.
LEMMA AppliedType ==
  ASSUME NEW m \in Messages, NEW f \in Frames
  PROVE  Applied(m, f) \in Frames
<1>1. PICK rows \in SUBSET Rows : m \in [rows -> Cells]
  BY DEF Messages
<1> QED
  BY <1>1 DEF Applied, Frames

\* A whole frame is a message.
LEMMA FrameIsMessage == Frames \subseteq Messages
BY DEF Frames, Messages

\* What is sent for a frame is some of its rows.
LEMMA EncodeType ==
  ASSUME NEW enc, NEW baseline, NEW frame \in Frames
  PROVE  encode(enc, baseline, frame) \in Messages
<1> DEFINE rows == {s \in Rows : \A f \in baseline : f[s] # frame[s]}
<1>1. rows \in SUBSET Rows /\ [r \in rows |-> frame[r]] \in [rows -> Cells]
  BY DEF Frames
<1>2. [r \in rows |-> frame[r]] \in Messages
  BY <1>1 DEF Messages
<1> QED
  BY <1>2, FrameIsMessage DEF encode

\* What is sent for a frame turns the baseline into that frame, whichever
\* encoding the client has asked for, and anything into it without one.
LEMMA EncodeApplied ==
  ASSUME NEW enc, NEW baseline, NEW frame \in Frames,
         NEW before \in Frames, \A f \in baseline : f = before
  PROVE  Applied(encode(enc, baseline, frame), before) = frame
<1>1. CASE enc = "semantic"
  BY <1>1 DEF encode, Applied, Frames
<1>2. CASE enc # "semantic"
  <2> DEFINE rows == {s \in Rows : \A f \in baseline : f[s] # frame[s]}
             m == [r \in rows |-> frame[r]]
  <2>1. \A r \in Rows \ rows : before[r] = frame[r]
    OBVIOUS
  <2>2. \A r \in Rows : Applied(m, before)[r] = frame[r]
    BY <2>1 DEF Applied
  <2>3. Applied(m, before) = frame
    BY <2>2 DEF Applied, Frames
  <2> QED
    BY <1>2, <2>3 DEF encode
<1> QED
  BY <1>1, <1>2

\* An option that is not empty holds what CHOOSE takes from it.
LEMMA OptionHolds ==
  ASSUME NEW S, NEW o \in Options(S), o # {}
  PROVE  (CHOOSE x \in o : TRUE) \in S /\ o = {CHOOSE x \in o : TRUE}
<1>1. PICK x \in S : o = {x}
  BY DEF Options
<1>2. (CHOOSE y \in o : TRUE) \in o
  BY <1>1
<1> QED
  BY <1>1, <1>2

\* What the client will show is a frame.
LEMMA AfterAreFrames ==
  ASSUME Types
  PROVE  AfterWriter \in Frames /\ AfterSlot \in Frames
<1>1. /\ writer.render \in Options(Messages) /\ queue.render \in Options(Messages)
      /\ screen \in Frames
  BY DEF Types, Queues, Writers
<1>2. AfterWriter \in Frames
  BY <1>1, OptionHolds, AppliedType DEF AfterWriter
<1> QED
  BY <1>1, <1>2, OptionHolds, AppliedType DEF AfterSlot

\* When the retained path may draw, the marked rows over the baseline are
\* the frame that a full render would draw (render_retained_pty_update_and_stream).
LEMMA RetainedIsCurrent ==
  ASSUME IInv, RetainedAllowed, ~needs_full, ~falling_back
  PROVE  retained_frame = content
<1> DEFINE base == CHOOSE f \in conn.baseline : TRUE
<1>1. base \in conn.baseline /\ base \in Frames
  BY OptionHolds DEF IInv, Types, Connections, RetainedAllowed
<1>2. \A r \in Rows \ touched : base[r] = content[r]
  BY <1>1 DEF IInv, OthersAreCurrent, RetainedAllowed
<1>3. DOMAIN dirty_patch = touched /\ \A r \in touched : dirty_patch[r] = content[r]
  BY DEF dirty_patch
<1>4. retained_frame =
        [r \in Rows |-> IF r \in DOMAIN dirty_patch THEN dirty_patch[r] ELSE base[r]]
  BY DEF retained_frame, Applied
<1> HIDE DEF base
<1> QED
  BY <1>2, <1>3, <1>4 DEF IInv, Types, Frames

\* Offering a frame: either it is queued and is then the last thing that the
\* client will show, or the client goes on to show what it would have shown.
LEMMA TrySendKeeps ==
  ASSUME IInv, NEW frame \in Frames, conn.state = "attached", TrySend(frame),
         UNCHANGED <<writer, screen, encoding>>
  PROVE  /\ conn' \in Connections
         /\ queue' \in Queues
         /\ BaselineIsWhatItWillShow'
         /\ conn'.state = "attached" /\ ~conn'.render_pending => conn'.baseline = {frame}
         /\ \/ queue'.render = queue.render
            \/ /\ queue.render = {} /\ queue'.render # {}
               /\ Writing => AfterSlot' = frame
<1> USE DEF IInv, Types, Connections, Queues
<1>1. conn.baseline \in Options(Frames) /\ queue.render \in Options(Messages)
  OBVIOUS
<1>0. {frame} \in Options(Frames) /\ {} \in Options(Frames) /\ {} \in Options(Messages)
  BY DEF Options
<1>2. CASE UNCHANGED queue /\ conn'.baseline = conn.baseline /\ conn'.state = conn.state
           /\ conn' = [conn EXCEPT !.render_pending = conn'.render_pending]
           /\ conn'.render_pending \in BOOLEAN
           /\ (~conn'.render_pending => conn.baseline = {frame})
  <2>1. AfterSlot' = AfterSlot /\ Writing' = Writing
    BY <1>2 DEF Writing, AfterSlot, AfterWriter
  <2>2. BaselineIsWhatItWillShow'
    BY <1>2, <2>1 DEF BaselineIsWhatItWillShow
  <2>3. conn' \in Connections /\ queue' \in Queues
    BY <1>2
  <2> QED
    BY <1>2, <2>2, <2>3
<1>3. CASE /\ queue.writer_alive /\ queue.render = {}
           /\ queue' = [queue EXCEPT !.render = {encode(encoding, conn.baseline, frame)}]
           /\ conn' = commit(conn, frame)
  <2> DEFINE m == encode(encoding, conn.baseline, frame)
  <2>1. m \in Messages
    BY <1>1, EncodeType
  <2>2. Writing => Applied(m, AfterWriter) = frame
    <3>1. AfterSlot = AfterWriter
      BY <1>3 DEF AfterSlot
    <3> QED
      BY <1>1, <3>1, AfterAreFrames, EncodeApplied DEF BaselineIsWhatItWillShow
  <2> HIDE DEF m
  <2>3. queue'.render = {m} /\ {m} \in Options(Messages)
    BY <1>3, <2>1 DEF m, Options
  <2>4. AfterSlot' = Applied(m, AfterWriter)
    BY <2>3 DEF AfterSlot, AfterWriter
  <2>5. conn'.baseline = {frame}
    BY <1>3 DEF commit
  <2>6. BaselineIsWhatItWillShow'
    BY <2>2, <2>4, <2>5 DEF BaselineIsWhatItWillShow, Writing
  <2> QED
    BY <1>0, <1>3, <2>2, <2>3, <2>4, <2>5, <2>6 DEF commit, m
<1>4. CASE remove_client
  BY <1>0, <1>4 DEF remove_client, Removed, drop_writer, BaselineIsWhatItWillShow
<1> QED
  BY <1>2, <1>3, <1>4 DEF TrySend, IsCurrent, defer
-----------------------------------------------------------------------------
(* The invariant holds initially and in every step.                        *)

\* A client starts without a baseline and gets a full render first.
LEMMA InitInv == Init => IInv
<1> SUFFICES ASSUME Init PROVE IInv
  OBVIOUS
<1> USE DEF Init
<1>1. content \in Frames /\ changes \in 0..MaxChanges
  BY StreamAssumption DEF Frames
<1>2. conn \in Connections /\ queue \in Queues /\ writer \in Writers /\ process \in Processes
  BY DEF Connections, Queues, Writers, Processes, Options
<1>2a. screen \in Frames
  BY StreamAssumption DEF Frames
<1>3. events \in Seq({"drained", "disconnected"}) /\ Len(events) <= EventCap
  BY StreamAssumption
<1>4. Types
  BY <1>1, <1>2, <1>2a, <1>3 DEF Types
<1>5. WriterHolds /\ OthersAreCurrent /\ BaselineIsWhatItWillShow
  BY DEF WriterHolds, OthersAreCurrent, BaselineIsWhatItWillShow
<1> QED
  BY <1>4, <1>5 DEF IInv

\* The baseline stays right when the frames on their way stay the same.
LEMMA BaselineStays ==
  ASSUME BaselineIsWhatItWillShow, UNCHANGED screen, writer'.render = writer.render,
         queue'.render = queue.render, Writing' => Writing,
         conn'.baseline \subseteq conn.baseline
  PROVE  BaselineIsWhatItWillShow'
<1>1. AfterSlot' = AfterSlot
  BY DEF AfterSlot, AfterWriter
<1> QED
  BY <1>1 DEF BaselineIsWhatItWillShow

\* A connection that is removed keeps no baseline.
LEMMA RemovedIsConnection == Removed \in Connections /\ Removed.baseline = {}
BY DEF Removed, Connections, Options

\* The event channel is kept in order and within its capacity.
LEMMA TakeEvent ==
  ASSUME IInv, events # <<>>
  PROVE  Tail(events) \in Seq({"drained", "disconnected"}) /\ Len(Tail(events)) <= EventCap
BY HeadTailProperties, LenProperties, StreamAssumption DEF IInv, Types

LEMMA PutEvent ==
  ASSUME IInv, Len(events) < EventCap, NEW e \in {"drained", "disconnected"}
  PROVE  /\ Append(events, e) \in Seq({"drained", "disconnected"})
         /\ Len(Append(events, e)) <= EventCap
BY AppendProperties, LenProperties, StreamAssumption DEF IInv, Types

\* A control message is queued behind the others, without a limit.
LEMMA PutControl ==
  ASSUME NEW q \in Queues, NEW message \in Controls
  PROVE  push_control(q, message) \in Queues /\ push_control(q, message).render = q.render
<1>1. Append(q.control, message) \in Seq(Controls)
  BY AppendProperties DEF Queues
<1> QED
  BY <1>1 DEF Queues, push_control

\* The writer is dropped with what is queued.
LEMMA DropWriter ==
  ASSUME NEW q \in Queues
  PROVE  drop_writer(q) \in Queues /\ drop_writer(q).render = q.render
BY DEF Queues, drop_writer

\* The terminal's output marks the row it changes.
LEMMA PtyWriteKeeps ==
  ASSUME NEW r \in Rows, NEW cell \in Cells, IInv, PtyWrite(r, cell)
  PROVE  IInv'
<1> USE DEF PtyWrite, client, loop
<1>1. Types'
  <2>1. content' \in Frames /\ changes' \in 0..MaxChanges
    BY StreamAssumption DEF IInv, Types, Frames, Changes
  <2> QED
    BY <2>1 DEF IInv, Types
<1>2. OthersAreCurrent'
  BY DEF IInv, Types, Frames, OthersAreCurrent
<1>3. WriterHolds' /\ BaselineIsWhatItWillShow'
  BY BaselineStays DEF IInv, WriterHolds, Writing
<1> QED
  BY <1>1, <1>2, <1>3 DEF IInv

\* Then the PTY reader tells the main loop.
LEMMA PtyMarkKeeps ==
  ASSUME IInv, PtyMark
  PROVE  IInv'
<1> USE DEF PtyMark, client
<1>1. Types' /\ WriterHolds' /\ OthersAreCurrent'
  BY DEF IInv, Types, WriterHolds, OthersAreCurrent
<1>2. BaselineIsWhatItWillShow'
  BY BaselineStays DEF IInv, Writing
<1> QED
  BY <1>1, <1>2 DEF IInv

\* A change that marks no row asks for a full render.
LEMMA AppChangeKeeps ==
  ASSUME NEW r \in Rows, NEW cell \in Cells, IInv, AppChange(r, cell)
  PROVE  IInv'
<1> USE DEF AppChange, client
<1>1. Types'
  <2>1. content' \in Frames /\ changes' \in 0..MaxChanges
    BY StreamAssumption DEF IInv, Types, Frames, Changes
  <2> QED
    BY <2>1 DEF IInv, Types
<1>2. WriterHolds' /\ OthersAreCurrent'
  BY DEF IInv, WriterHolds, OthersAreCurrent
<1>3. BaselineIsWhatItWillShow'
  BY BaselineStays DEF IInv, Writing
<1> QED
  BY <1>1, <1>2, <1>3 DEF IInv

\* The steps that only reset the baseline or leave it, and ask for renders.
LEMMA ResetKeeps ==
  ASSUME IInv,
         UNCHANGED <<terminal, falling_back, process, encoding, queue, writer, events, client>>,
         render_dirty' = render_dirty, needs_full' \in BOOLEAN, changes' \in 0..MaxChanges,
         conn' \in Connections, conn'.state = conn.state,
         \/ conn'.baseline = {}
         \/ conn' = conn /\ (needs_full => needs_full')
  PROVE  IInv'
<1> USE DEF terminal, client
<1>1. Types' /\ WriterHolds'
  BY DEF IInv, Types, WriterHolds
<1>2. OthersAreCurrent'
  BY DEF IInv, OthersAreCurrent
<1>3. BaselineIsWhatItWillShow'
  BY BaselineStays DEF IInv, Writing
<1> QED
  BY <1>1, <1>2, <1>3 DEF IInv

\* A semantic client's input, a regained focus and a resize are such steps.
LEMMA ClientEventsKeep ==
  ASSUME IInv, (\E interaction \in BOOLEAN : Input(interaction)) \/ FocusGained \/ RedrawAll
  PROVE  IInv'
<1>1. changes' \in 0..MaxChanges
  BY StreamAssumption DEF IInv, Types, Changes, Input, FocusGained, RedrawAll
<1>2. reset_baseline(conn) \in Connections /\ reset_baseline(conn).baseline = {}
      /\ reset_baseline(conn).state = conn.state
  BY DEF IInv, Types, Connections, reset_baseline, Options
<1>3. ASSUME NEW interaction \in BOOLEAN, Input(interaction) PROVE IInv'
  BY <1>1, <1>2, <1>3, ResetKeeps DEF Input, IInv, Types
<1>4. CASE FocusGained
  <2>1. conn' \in Connections /\ conn'.baseline = {} /\ conn'.state = conn.state
    BY <1>2, <1>4 DEF FocusGained, Connections
  <2> QED
    BY <1>1, <1>4, <2>1, ResetKeeps DEF FocusGained
<1>5. CASE RedrawAll
  BY <1>1, <1>2, <1>5, ResetKeeps DEF RedrawAll
<1> QED
  BY <1>3, <1>4, <1>5

\* The steps of the main loop that end the connection or put a control
\* message into its queue.
LEMMA QueueKeeps ==
  ASSUME IInv, UNCHANGED <<terminal, render_dirty, falling_back, encoding, writer, client>>,
         process' \in Processes,
         needs_full' = needs_full \/ needs_full' = TRUE, changes' \in 0..MaxChanges,
         events' \in Seq({"drained", "disconnected"}), Len(events') <= EventCap,
         conn' \in Connections, queue' \in Queues, queue'.render = queue.render,
         conn' = conn \/ conn'.state # "attached", conn'.baseline \subseteq conn.baseline
  PROVE  IInv'
<1> USE DEF terminal, client
<1>1. Types' /\ WriterHolds'
  BY DEF IInv, Types, WriterHolds
<1>2. OthersAreCurrent'
  BY DEF IInv, OthersAreCurrent
<1>3. BaselineIsWhatItWillShow'
  BY BaselineStays DEF IInv, Writing
<1> QED
  BY <1>1, <1>2, <1>3 DEF IInv

\* A client is detached or removed, or gets a control message: a shutdown
\* notice is queued before the writer is dropped.
LEMMA EndingsKeep ==
  ASSUME IInv,
         DetachRequested \/ SendControl \/ SendShutdown \/ HandleDisconnected \/ StopServer
  PROVE  IInv'
<1>1. conn \in Connections /\ queue \in Queues
  BY DEF IInv, Types
<1>2. \A m \in Controls : /\ push_control(queue, m) \in Queues
                          /\ push_control(queue, m).render = queue.render
  BY <1>1, PutControl
<1>3. "shutdown" \in Controls /\ "mouse_capture" \in Controls
  BY DEF Controls
<1>4. drop_writer(queue) \in Queues /\ drop_writer(queue).render = queue.render
  BY <1>1, DropWriter
<1>5. /\ drop_writer(push_control(queue, "shutdown")) \in Queues
      /\ drop_writer(push_control(queue, "shutdown")).render = queue.render
  BY <1>2, <1>3, DropWriter
<1>6. CASE DetachRequested
  <2>1. /\ [conn EXCEPT !.state = "detached"] \in Connections
        /\ [conn EXCEPT !.state = "detached"].baseline = conn.baseline
        /\ [conn EXCEPT !.state = "detached"].state = "detached"
    BY <1>1 DEF Connections
  <2>2. queue' \in Queues /\ queue'.render = queue.render
    BY <1>4, <1>5, <1>6 DEF DetachRequested, remove_client
  <2>3. /\ conn' \in Connections /\ conn'.state # "attached"
        /\ conn'.baseline \subseteq conn.baseline
    <3>1. CASE conn' = [conn EXCEPT !.state = "detached"]
      BY <2>1, <3>1
    <3>2. CASE conn' = Removed
      BY <3>2, RemovedIsConnection DEF Removed
    <3> QED
      BY <1>6, <3>1, <3>2 DEF DetachRequested, remove_client
  <2> QED
    BY <1>6, <2>2, <2>3, QueueKeeps DEF DetachRequested, IInv, Types, loop
<1>7. CASE SendControl
  <2>1. queue' \in Queues /\ queue'.render = queue.render
    BY <1>2, <1>3, <1>4, <1>7 DEF SendControl, remove_client
  <2>2. /\ conn' \in Connections
        /\ conn' = conn \/ conn'.state # "attached"
        /\ conn'.baseline \subseteq conn.baseline
    <3>1. CASE conn' = conn
      BY <1>1, <3>1
    <3>2. CASE conn' = Removed
      BY <3>2, RemovedIsConnection DEF Removed
    <3> QED
      BY <1>7, <3>1, <3>2 DEF SendControl, remove_client
  <2>3. changes' \in 0..MaxChanges
    BY <1>7, StreamAssumption DEF SendControl, Changes, IInv, Types
  <2>4. /\ UNCHANGED <<terminal, render_dirty, falling_back, encoding, writer, client>>
        /\ needs_full' = needs_full /\ events' = events /\ process' \in Processes
    BY <1>7 DEF SendControl, loop, IInv, Types
  <2>5. events \in Seq({"drained", "disconnected"}) /\ Len(events) <= EventCap
    BY DEF IInv, Types
  <2> QED
    BY <2>1, <2>2, <2>3, <2>4, <2>5, QueueKeeps
<1>8. CASE SendShutdown
  <2>1. queue' \in Queues /\ queue'.render = queue.render
    BY <1>4, <1>5, <1>8 DEF SendShutdown
  <2>2. /\ conn' \in Connections /\ conn'.state # "attached"
        /\ conn'.baseline \subseteq conn.baseline
    BY <1>8, RemovedIsConnection DEF SendShutdown, Removed
  <2> QED
    BY <1>8, <2>1, <2>2, QueueKeeps DEF SendShutdown, IInv, Types, loop
<1>9. CASE HandleDisconnected
  <2>1. /\ conn' \in Connections /\ conn'.state # "attached"
        /\ conn'.baseline \subseteq conn.baseline
    BY <1>9, RemovedIsConnection DEF HandleDisconnected, remove_client, Removed
  <2> QED
    BY <1>4, <1>9, <2>1, TakeEvent, QueueKeeps
       DEF HandleDisconnected, remove_client, IInv, Types
<1>10. CASE StopServer
  <2> DEFINE noticed == push_control(push_control(queue, "shutdown"), "shutdown")
  <2>1. noticed \in Queues /\ noticed.render = queue.render
    BY <1>2, <1>3, PutControl
  <2>2. queue' \in {drop_writer(noticed), drop_writer(queue)}
    BY <1>10 DEF StopServer
  <2> HIDE DEF noticed
  <2>3. queue' \in Queues /\ queue'.render = queue.render
    BY <1>4, <2>1, <2>2, DropWriter
  <2>4. /\ conn' \in Connections /\ conn'.state # "attached"
        /\ conn'.baseline \subseteq conn.baseline
    BY <1>10, RemovedIsConnection DEF StopServer, Removed
  <2>5. process' \in Processes
    BY <1>10 DEF StopServer, Processes
  <2> QED
    BY <1>10, <2>3, <2>4, <2>5, QueueKeeps DEF StopServer, IInv, Types
<1> QED
  BY <1>6, <1>7, <1>8, <1>9, <1>10

\* The slot is free again: a deferred frame is asked for.
LEMMA HandleDrainedKeeps ==
  ASSUME IInv, HandleDrained
  PROVE  IInv'
<1> USE DEF HandleDrained, terminal, client
<1>1. /\ conn' \in Connections /\ conn'.baseline = conn.baseline /\ conn'.state = conn.state
      /\ needs_full' \in BOOLEAN
  BY DEF IInv, Types, Connections
<1>2. Types'
  BY <1>1, TakeEvent DEF IInv, Types
<1>3. WriterHolds'
  BY DEF IInv, WriterHolds
<1>4. OthersAreCurrent'
  <2>1. conn.render_pending => needs_full' \/ conn.state = "removed"
    OBVIOUS
  <2> QED
    BY <1>1, <2>1 DEF IInv, OthersAreCurrent
<1>5. BaselineIsWhatItWillShow'
  BY <1>1, BaselineStays DEF IInv, Writing
<1> QED
  BY <1>2, <1>3, <1>4, <1>5 DEF IInv

\* The retained path sends the frame a full render would send, or falls back.
LEMMA RenderRetainedKeeps ==
  ASSUME IInv, RenderRetained
  PROVE  IInv'
<1> USE DEF RenderRetained, terminal, loop, client
<1>1. CASE RetainedAllowed /\ touched' = {} /\ TrySend(retained_frame) /\ falling_back' = ~Sent
  <2>1. retained_frame = content /\ content \in Frames /\ conn.state = "attached"
    BY <1>1, RetainedIsCurrent DEF RetainedAllowed, IInv, Types
  <2>2. /\ conn' \in Connections /\ queue' \in Queues /\ BaselineIsWhatItWillShow'
        /\ conn'.state = "attached" /\ ~conn'.render_pending => conn'.baseline = {content}
    BY <1>1, <2>1, TrySendKeeps
  <2>3. Types' /\ WriterHolds'
    BY <1>1, <2>2 DEF IInv, Types, WriterHolds
  <2>4. OthersAreCurrent'
    BY <2>2 DEF OthersAreCurrent
  <2> QED
    BY <2>2, <2>3, <2>4 DEF IInv
<1>2. CASE touched' \in SUBSET touched /\ falling_back' = TRUE /\ UNCHANGED <<conn, queue>>
  <2>1. Types' /\ WriterHolds' /\ OthersAreCurrent'
    BY <1>2 DEF IInv, Types, WriterHolds, OthersAreCurrent
  <2>2. BaselineIsWhatItWillShow'
    BY <1>2, BaselineStays DEF IInv, Writing
  <2> QED
    BY <2>1, <2>2 DEF IInv
<1> QED
  BY <1>1, <1>2

\* A full render sends what there is to see.
LEMMA RenderFullKeeps ==
  ASSUME IInv, RenderFull
  PROVE  IInv'
<1> USE DEF RenderFull, FullRender, terminal, loop, client
<1>1. CASE conn.state = "attached" /\ TrySend(content)
  <2>1. content \in Frames
    BY DEF IInv, Types
  <2>2. /\ conn' \in Connections /\ queue' \in Queues /\ BaselineIsWhatItWillShow'
        /\ conn'.state = "attached" /\ ~conn'.render_pending => conn'.baseline = {content}
    BY <1>1, <2>1, TrySendKeeps
  <2>3. Types' /\ WriterHolds'
    BY <2>2 DEF IInv, Types, WriterHolds
  <2>4. OthersAreCurrent'
    BY <2>2 DEF OthersAreCurrent
  <2> QED
    BY <2>2, <2>3, <2>4 DEF IInv
<1>2. CASE conn.state # "attached" /\ UNCHANGED <<conn, queue>>
  <2>1. Types' /\ WriterHolds' /\ OthersAreCurrent'
    BY <1>2 DEF IInv, Types, WriterHolds, OthersAreCurrent
  <2>2. BaselineIsWhatItWillShow'
    BY <1>2, BaselineStays DEF IInv, Writing
  <2> QED
    BY <2>1, <2>2 DEF IInv
<1> QED
  BY <1>1, <1>2

\* The writer thread takes a control message.
LEMMA WriterTakesControlKeeps ==
  ASSUME IInv, WriterTakesControl
  PROVE  IInv'
<1> USE DEF WriterTakesControl, terminal, loop, client
<1>1. Head(queue.control) \in Controls /\ Tail(queue.control) \in Seq(Controls)
  BY HeadTailProperties DEF IInv, Types, Queues, recv
<1>2. queue' \in Queues /\ queue'.render = queue.render
  BY <1>1 DEF IInv, Types, Queues
<1>3. writer' \in Writers /\ writer'.render = writer.render
  BY <1>1 DEF IInv, Types, Writers, Options
<1>4. Types' /\ OthersAreCurrent'
  BY <1>2, <1>3 DEF IInv, Types, OthersAreCurrent
<1>5. WriterHolds'
  BY <1>3 DEF IInv, Types, Writers, WriterHolds
<1>6. BaselineIsWhatItWillShow'
  BY <1>2, <1>3, BaselineStays DEF IInv, Writing
<1> QED
  BY <1>4, <1>5, <1>6 DEF IInv

\* It takes the frame from the slot: what the client will show stays.
LEMMA WriterTakesRenderKeeps ==
  ASSUME IInv, WriterTakesRender
  PROVE  /\ IInv'
         /\ AfterSlot' = AfterSlot /\ AfterWriter' = AfterSlot /\ AfterWriter = screen
         /\ queue.render # {} /\ queue'.render = {} /\ writer.render = {} /\ writer'.render # {}
<1> USE DEF WriterTakesRender, terminal, loop, client
<1>1. queue' \in Queues /\ queue'.render = {}
  BY DEF IInv, Types, Queues, Options
<1>2. /\ writer' \in Writers /\ writer'.pc = "drained"
      /\ writer'.render = queue.render /\ queue.render # {} /\ writer.render = {}
  BY DEF IInv, Types, Queues, Writers, recv, WriterHolds
<1>3. Types' /\ OthersAreCurrent' /\ WriterHolds'
  BY <1>1, <1>2 DEF IInv, Types, OthersAreCurrent, WriterHolds
<1>4. AfterSlot' = AfterSlot /\ AfterWriter' = AfterSlot /\ AfterWriter = screen
  BY <1>1, <1>2 DEF AfterSlot, AfterWriter
<1>5. BaselineIsWhatItWillShow'
  BY <1>4 DEF IInv, BaselineIsWhatItWillShow, Writing
<1> QED
  BY <1>1, <1>2, <1>3, <1>4, <1>5 DEF IInv

\* It says so to the main loop.
LEMMA WriterReportsKeeps ==
  ASSUME IInv, WriterReports
  PROVE  IInv'
<1> USE DEF WriterReports, terminal, loop, client
<1>1. writer' \in Writers /\ writer'.render = writer.render /\ writer'.pc = "write"
  BY DEF IInv, Types, Writers
<1>2. Types' /\ OthersAreCurrent' /\ WriterHolds'
  BY <1>1, PutEvent DEF IInv, Types, OthersAreCurrent, WriterHolds
<1>3. BaselineIsWhatItWillShow'
  BY <1>1, BaselineStays DEF IInv, Writing
<1> QED
  BY <1>2, <1>3 DEF IInv

\* It writes what it holds, and the client shows it.
LEMMA WriterWritesKeeps ==
  ASSUME IInv, WriterWrites
  PROVE  /\ IInv'
         /\ screen' = AfterWriter /\ AfterWriter' = AfterWriter /\ AfterSlot' = AfterSlot
         /\ writer'.render = {}
<1> USE DEF WriterWrites, terminal, loop
<1>1. writer' \in Writers /\ writer'.render = {}
  BY DEF IInv, Types, Writers, Options
<1>2. screen' = AfterWriter
  BY DEF AfterWriter
<1>3. Types' /\ WriterHolds' /\ OthersAreCurrent'
  BY <1>1, <1>2, AfterAreFrames DEF IInv, Types, WriterHolds, OthersAreCurrent
<1>4. AfterWriter' = AfterWriter /\ AfterSlot' = AfterSlot
  BY <1>1, <1>2 DEF AfterSlot, AfterWriter
<1>5. BaselineIsWhatItWillShow'
  BY <1>4 DEF IInv, BaselineIsWhatItWillShow, Writing
<1> QED
  BY <1>1, <1>2, <1>3, <1>4, <1>5 DEF IInv

\* It ends, as the socket is closed or as there is nothing left to write.
LEMMA WriterStopsKeeps ==
  ASSUME IInv, WriterFails \/ WriterEnds \/ WriterCloses
  PROVE  IInv' /\ ~Writing'
<1> USE DEF WriterFails, WriterEnds, WriterCloses, terminal, loop, client
<1>0. {} \in Options(Controls) /\ {} \in Options(Messages)
  BY DEF Options
<1>1. queue' \in Queues /\ writer' \in Writers
  <2>1. queue \in Queues /\ writer \in Writers
    BY DEF IInv, Types
  <2>2. queue' \in Queues
    BY <2>1 DEF Queues
  <2>3. writer' \in Writers
    BY <1>0, <2>1 DEF Writers
  <2> QED
    BY <2>2, <2>3
<1>2. writer'.pc \in {"closing", "exited"} /\ writer'.render = {}
  BY DEF IInv, Types, Writers, WriterHolds
<1>3. Types' /\ OthersAreCurrent'
  BY <1>1 DEF IInv, Types, OthersAreCurrent
<1>4. WriterHolds' /\ BaselineIsWhatItWillShow' /\ ~Writing'
  BY <1>2 DEF WriterHolds, BaselineIsWhatItWillShow, Writing
<1> QED
  BY <1>3, <1>4 DEF IInv

\* With the process goes all that was on its way.
LEMMA ProcessExitsKeeps ==
  ASSUME IInv, ProcessExits
  PROVE  IInv' /\ ~Writing'
<1> USE DEF ProcessExits, terminal
<1>1. queue' \in Queues /\ writer' \in Writers /\ process' \in Processes
  BY DEF Queues, Writers, Processes, Options
<1>2. events' \in Seq({"drained", "disconnected"}) /\ Len(events') <= EventCap
  BY StreamAssumption
<1>3. Types' /\ ~Writing'
  BY <1>1, <1>2 DEF IInv, Types, Writing
<1>4. WriterHolds' /\ BaselineIsWhatItWillShow'
  BY <1>3 DEF WriterHolds, BaselineIsWhatItWillShow
<1>5. OthersAreCurrent'
  BY DEF IInv, OthersAreCurrent
<1> QED
  BY <1>3, <1>4, <1>5 DEF IInv

\* The client closes its end and the reader thread notices.
LEMMA ClosingKeeps ==
  ASSUME IInv, ClientCloses \/ ReaderReports
  PROVE  IInv'
<1> USE DEF ClientCloses, ReaderReports, terminal, loop
<1>1. Types' /\ WriterHolds' /\ OthersAreCurrent'
  BY PutEvent DEF IInv, Types, WriterHolds, OthersAreCurrent
<1>2. BaselineIsWhatItWillShow'
  BY BaselineStays DEF IInv, Writing
<1> QED
  BY <1>1, <1>2 DEF IInv

\* The invariant holds in every reachable state: every step keeps it.
THEOREM Invariant == Spec => []IInv
<1>1. IInv /\ [Next]_vars => IInv'
  <2> SUFFICES ASSUME IInv, [Next]_vars PROVE IInv'
    OBVIOUS
  <2>1. CASE UNCHANGED vars
    BY <2>1 DEF vars, terminal, loop, client, IInv, Types, WriterHolds, OthersAreCurrent,
                BaselineIsWhatItWillShow, Writing, AfterSlot, AfterWriter
  <2>2. CASE Picture
    BY <2>2, PtyWriteKeeps, PtyMarkKeeps DEF Picture
  <2>3. CASE ProcessExits
    BY <2>3, ProcessExitsKeeps
  <2>4. CASE MainLoop
    BY <2>4, AppChangeKeeps, ClientEventsKeep, EndingsKeep, HandleDrainedKeeps,
       RenderRetainedKeeps, RenderFullKeeps
       DEF MainLoop
  <2>5. CASE Writer
    BY <2>5, WriterTakesControlKeeps, WriterTakesRenderKeeps, WriterReportsKeeps,
       WriterWritesKeeps, WriterStopsKeeps
       DEF Writer
  <2>6. CASE ClientCloses \/ ReaderReports
    BY <2>6, ClosingKeeps
  <2> QED
    BY <2>1, <2>2, <2>3, <2>4, <2>5, <2>6 DEF Next
<1> QED
  BY InitInv, <1>1, PTL DEF Spec

\* Every variable has its type; in particular the event channel never holds
\* more than its capacity, however slow the main loop is.
THEOREM TypeCorrect == Spec => []TypeOK
<1>1. IInv => TypeOK
  <2> SUFFICES ASSUME IInv PROVE TypeOK
    OBVIOUS
  <2>1. \A S : Options(S) \subseteq SUBSET S
    BY DEF Options
  <2>2. /\ conn \in [state : {"attached", "detached", "removed"},
                     baseline : SUBSET Frames, render_pending : BOOLEAN]
        /\ queue \in [control : Seq(Controls), render : SUBSET Messages,
                      senders : {0, 1, 2}, writer_alive : BOOLEAN]
        /\ writer \in [pc : {"recv", "drained", "write", "closing", "exited"},
                       control : SUBSET Controls, render : SUBSET Messages]
    BY <2>1 DEF IInv, Types, Connections, Queues, Writers
  <2> QED
    BY <2>2 DEF IInv, Types, Processes, TypeOK
<1> QED
  BY Invariant, <1>1, PTL

\* The baseline that the next frame is diffed against is what the client
\* will show when everything queued has reached it (commit_sent_frame).
THEOREM BaselineIsRight == Spec => []BaselineIsWhatItWillShow
<1>1. IInv => BaselineIsWhatItWillShow
  BY DEF IInv
<1> QED
  BY Invariant, <1>1, PTL

-----------------------------------------------------------------------------
(* The client's screen implements the stream of whole frames.              *)

\* Only the writer moves what is on its way.
LEMMA PipeStays ==
  ASSUME UNCHANGED <<screen, writer>>, queue'.render = queue.render
  PROVE  Pipe' = Pipe
BY DEF Pipe, Writing, AfterWriter, AfterSlot

\* A frame that is offered goes behind what is on its way, or nowhere.
LEMMA TrySendOffers ==
  ASSUME IInv, conn.state = "attached", TrySend(content),
         UNCHANGED <<content, writer, screen, encoding>>
  PROVE  Stream!Offer \/ UNCHANGED <<content, Pipe, screen>>
<1>1. /\ \/ queue'.render = queue.render
         \/ /\ queue.render = {} /\ queue'.render # {}
            /\ Writing => AfterSlot' = content
  BY TrySendKeeps DEF IInv, Types
<1>2. CASE queue'.render = queue.render
  BY <1>2, PipeStays
<1>3. CASE ~Writing
  <2>1. Pipe = <<>> /\ Pipe' = <<>>
    BY <1>3 DEF Pipe, Writing
  <2> QED
    BY <2>1
<1>4. CASE Writing /\ queue.render = {} /\ queue'.render # {} /\ AfterSlot' = content
  <2>1. AfterWriter' = AfterWriter /\ Writing'
    BY <1>4 DEF AfterWriter, Writing
  <2>2. CASE writer.render = {}
    <3>1. Pipe = <<>> /\ Pipe' = <<content>>
      BY <1>4, <2>1, <2>2, Joining DEF Pipe
    <3> QED
      BY <3>1 DEF Stream!Offer
  <2>3. CASE writer.render # {}
    <3>1. Pipe = <<AfterWriter>> /\ Pipe' = <<AfterWriter, content>>
      BY <1>4, <2>1, <2>3, Joining DEF Pipe
    <3>2. Append(<<AfterWriter>>, content) = <<AfterWriter, content>>
      BY Appending
    <3> QED
      BY <3>1, <3>2 DEF Stream!Offer
  <2> QED
    BY <2>2, <2>3
<1> QED
  BY <1>1, <1>2, <1>3, <1>4

\* Through row patches, retained frames and the one-frame slot the client
\* only ever shows whole frames that were current when they were offered.
THEOREM Refinement == Spec => ImplementsFrameStream
<1>1. Init => Stream!Init
  BY InitInv DEF Init, IInv, Types, Stream!Init, Pipe, Writing
<1>2. IInv /\ IInv' /\ [Next]_vars => [Stream!Next]_<<content, Pipe, screen>>
  <2> SUFFICES ASSUME IInv, IInv', [Next]_vars
               PROVE  Stream!Next \/ UNCHANGED <<content, Pipe, screen>>
    OBVIOUS
  <2>1. CASE UNCHANGED vars
    BY <2>1, PipeStays DEF vars, terminal, client
  <2>2. CASE Picture \/ \E r \in Rows, cell \in Cells : AppChange(r, cell)
    <3>1. Pipe' = Pipe /\ screen' = screen
      BY <2>2, PipeStays DEF Picture, PtyWrite, PtyMark, AppChange, client
    <3>2. content' \in Frames
      BY DEF IInv, Types
    <3> QED
      BY <3>1, <3>2 DEF Stream!Next, Stream!Change
  <2>3. CASE \/ \E interaction \in BOOLEAN : Input(interaction)
             \/ FocusGained \/ RedrawAll \/ DetachRequested
    <3>1. queue'.render = queue.render
      BY <2>3, DropWriter, PutControl DEF Input, FocusGained, RedrawAll,
         DetachRequested, remove_client, IInv, Types, Controls
    <3> QED
      BY <2>3, <3>1, PipeStays DEF Input, FocusGained, RedrawAll,
         DetachRequested, terminal, client
  <2>4. CASE SendControl \/ SendShutdown \/ HandleDrained \/ HandleDisconnected \/ StopServer
    <3>1. queue'.render = queue.render
      BY <2>4, DropWriter, PutControl DEF SendControl, SendShutdown, HandleDrained,
         HandleDisconnected, StopServer, remove_client, IInv, Types, Controls
    <3> QED
      BY <2>4, <3>1, PipeStays DEF SendControl, SendShutdown, HandleDrained,
         HandleDisconnected, StopServer, terminal, client
  <2>5. CASE RenderRetained
    <3>1. CASE RetainedAllowed /\ TrySend(retained_frame)
      BY <2>5, <3>1, RetainedIsCurrent, TrySendOffers
         DEF RenderRetained, RetainedAllowed, client, Stream!Next
    <3>2. CASE UNCHANGED <<conn, queue>>
      BY <2>5, <3>2, PipeStays DEF RenderRetained, client
    <3> QED
      BY <2>5, <3>1, <3>2 DEF RenderRetained
  <2>6. CASE RenderFull
    <3>1. CASE conn.state = "attached" /\ TrySend(content)
      BY <2>6, <3>1, TrySendOffers DEF RenderFull, client, Stream!Next
    <3>2. CASE UNCHANGED <<conn, queue>>
      BY <2>6, <3>2, PipeStays DEF RenderFull, client
    <3> QED
      BY <2>6, <3>1, <3>2 DEF RenderFull, FullRender
  <2>7. CASE WriterTakesControl
    <3>1. queue'.render = queue.render /\ writer'.render = writer.render /\ Writing' /\ Writing
      BY <2>7 DEF WriterTakesControl, IInv, Types, Queues, Writers, Writing
    <3> QED
      BY <2>7, <3>1 DEF WriterTakesControl, Pipe, AfterWriter, AfterSlot, terminal, client
  <2>8. CASE WriterTakesRender
    <3>1. Writing /\ Writing'
      BY <2>8 DEF WriterTakesRender, Writing, IInv, Types, Writers
    <3>2. Pipe = <<AfterSlot>> /\ Pipe' = <<AfterSlot>>
      BY <2>8, <3>1, WriterTakesRenderKeeps, Joining DEF Pipe
    <3> QED
      BY <2>8, <3>2 DEF WriterTakesRender, terminal, client
  <2>9. CASE WriterReports
    <3>1. writer'.render = writer.render /\ Writing' /\ Writing
      BY <2>9 DEF WriterReports, IInv, Types, Writers, Writing
    <3> QED
      BY <2>9, <3>1 DEF WriterReports, Pipe, AfterWriter, AfterSlot, terminal, client
  <2>10. CASE WriterWrites
    <3>1. Writing /\ Writing' /\ content' = content /\ queue' = queue
      BY <2>10 DEF WriterWrites, Writing, terminal, IInv, Types, Writers
    <3>2. CASE writer.render = {}
      <4>1. screen' = screen /\ Pipe' = Pipe
        BY <2>10, <3>1, <3>2, WriterWritesKeeps DEF Pipe, AfterWriter
      <4> QED
        BY <3>1, <4>1
    <3>3. CASE writer.render # {} /\ queue.render = {}
      <4>1. Pipe = <<AfterWriter>> /\ Pipe' = <<>> /\ screen' = AfterWriter
        BY <2>10, <3>1, <3>3, WriterWritesKeeps, Joining DEF Pipe
      <4> QED
        BY <3>1, <4>1 DEF Stream!Next, Stream!Show
    <3>4. CASE writer.render # {} /\ queue.render # {}
      <4>1. Pipe = <<AfterWriter, AfterSlot>> /\ Pipe' = <<AfterSlot>> /\ screen' = AfterWriter
        BY <2>10, <3>1, <3>4, WriterWritesKeeps, Joining DEF Pipe
      <4>2. Head(Pipe) = AfterWriter /\ Tail(Pipe) = <<AfterSlot>> /\ Pipe # <<>>
        BY <4>1, Taking
      <4> QED
        BY <3>1, <4>1, <4>2 DEF Stream!Next, Stream!Show
    <3> QED
      BY <3>2, <3>3, <3>4
  <2>11. CASE WriterFails \/ WriterEnds \/ WriterCloses
    <3>1. Pipe' = <<>>
      BY <2>11, WriterStopsKeeps DEF Pipe
    <3> QED
      BY <2>11, <3>1 DEF WriterFails, WriterEnds, WriterCloses, terminal, client,
         Stream!Next, Stream!Break
  <2>12. CASE ClientCloses \/ ReaderReports
    BY <2>12, PipeStays DEF ClientCloses, ReaderReports, terminal
  <2>13. CASE ProcessExits
    <3>1. Pipe' = <<>>
      BY <2>13, ProcessExitsKeeps DEF Pipe
    <3> QED
      BY <2>13, <3>1 DEF ProcessExits, terminal, Stream!Next, Stream!Break
  <2> QED
    BY <2>1, <2>2, <2>3, <2>4, <2>5, <2>6, <2>7, <2>8, <2>9, <2>10, <2>11, <2>12, <2>13
       DEF Next, MainLoop, Writer
<1> QED
  BY Invariant, <1>1, <1>2, PTL DEF Spec, ImplementsFrameStream, Stream!Spec
=============================================================================
