------------------------------ MODULE PtyActor ------------------------------
(***************************************************************************)
(* The actor thread that owns one terminal's PTY, and its handle:          *)
(* src/pty/actor/unix.rs.  Tasks write user input through the handle; the  *)
(* server's main thread pauses the actor for a live handoff and then rolls *)
(* that back or releases the PTY.  It waits for each answer with a timeout *)
(* that may strike at any moment; a late answer is thrown away.            *)
(*                                                                         *)
(* A chunk is written to the PTY whole or not at all, and what is written  *)
(* when a chunk is cut short is left out.  Reads and resizes matter only   *)
(* for the answers they make the terminal give, which are written too.     *)
(*                                                                         *)
(* An operator whose name extends another's is that operator with a        *)
(* plausible slip in it.  Nothing uses it; it shows, put in the place of   *)
(* the right one, that a property notices.                                 *)
(***************************************************************************)
EXTENDS Naturals, Sequences, FiniteSets

CONSTANTS
  Tasks,       \* the tasks that write user input
  DataCap,     \* ACTOR_COMMAND_BUFFER (1024)
  MaxInputs,   \* bound of the model: chunks of user input accepted
  MaxAnswers,  \* bound of the model: answers of the terminal pending at once
  MaxCalls     \* bound of the model: calls to the handle by the main thread

ASSUME ActorAssumption == /\ DataCap \in Nat \ {0}
                          /\ MaxInputs \in Nat /\ MaxAnswers \in Nat /\ MaxCalls \in Nat

VARIABLES
  accepting,  \* the UserWriteGate
  data,       \* the channel of user input
  control,    \* the channel of commands: [cmd, waited]
  actor,      \* its thread: pc, state, pending writes, whether a call waits for it
  task,       \* each writing task: "idle", "reserving", "reserved"
  main,       \* the main thread: the call it is in, its answer, the number of calls
  resized,    \* SharedPtyControls: a resize whose answer is to be written
  tty,        \* history: the user input the child was sent
  accepted,   \* history: the input the handle took
  mishap      \* history: the PTY failed, or an answer to a rollback came too late

vars == <<accepting, data, control, actor, task, main, resized, tty, accepted, mishap>>

Answer == 0
Inputs == 1..MaxInputs
Chunks == {Answer} \cup Inputs
Commands == {"begin", "duplicate", "rollback", "release", "shutdown"}

\* The user input among some chunks: all but the terminal's answers.
Input(chunks) ==
  LET among[n \in 0..Len(chunks)] ==
        IF n = 0 THEN <<>>
        ELSE IF chunks[n] = Answer THEN among[n - 1]
        ELSE Append(among[n - 1], chunks[n])
  IN  among[Len(chunks)]

Answers == Len(SelectSeq(actor.pending, LAMBDA c : c = Answer))

Init ==
  \E quiesced \in BOOLEAN :
    /\ accepting = ~quiesced /\ data = <<>> /\ control = <<>>
    /\ actor = [pc |-> "loop", state |-> IF quiesced THEN "quiesced" ELSE "running",
                pending |-> <<>>, waited |-> FALSE]
    /\ task = [t \in Tasks |-> "idle"]
    /\ main = [call |-> "none", answer |-> "none", calls |-> 0, paused |-> quiesced,
               handle |-> "held"]
    /\ resized = FALSE /\ tty = <<>> /\ accepted = <<>> /\ mishap = {}

-----------------------------------------------------------------------------
(* User input.                                                             *)

Reserved == {t \in Tasks : task[t] = "reserved"}
HasRoom_ignoring_reserved == Len(data) < DataCap
HasRoom == Len(data) + Cardinality(Reserved) < DataCap
Closed == actor.pc = "exited"

Accept ==
  /\ data' = Append(data, Len(accepted) + 1)
  /\ accepted' = Append(accepted, Len(accepted) + 1)

\* write_user_input: the gate, a place in the channel, and the gate again.
StartWrite(t) ==
  /\ task[t] = "idle" /\ Len(accepted) < MaxInputs /\ accepting
  /\ task' = [task EXCEPT ![t] = "reserving"]
  /\ UNCHANGED <<accepting, data, control, actor, main, resized, tty, accepted, mishap>>

Reserve(t) ==
  /\ task[t] = "reserving"
  /\ IF Closed THEN task' = [task EXCEPT ![t] = "idle"]
     ELSE HasRoom /\ task' = [task EXCEPT ![t] = "reserved"]
  /\ UNCHANGED <<accepting, data, control, actor, main, resized, tty, accepted, mishap>>

SendReserved_retrying(t) ==
  /\ task[t] = "reserved" /\ (accepting \/ Closed)
  /\ task' = [task EXCEPT ![t] = "idle"]
  /\ IF ~Closed /\ Len(accepted) < MaxInputs THEN Accept ELSE UNCHANGED <<data, accepted>>
  /\ UNCHANGED <<accepting, control, actor, main, resized, tty, mishap>>
SendReserved(t) ==
  /\ task[t] = "reserved"
  /\ task' = [task EXCEPT ![t] = "idle"]
  /\ IF accepting /\ ~Closed /\ Len(accepted) < MaxInputs
     THEN Accept ELSE UNCHANGED <<data, accepted>>
  /\ UNCHANGED <<accepting, control, actor, main, resized, tty, mishap>>

\* try_write_user_input, when it takes the chunk.
TryWrite ==
  /\ accepting /\ ~Closed /\ HasRoom /\ Len(accepted) < MaxInputs
  /\ Accept
  /\ UNCHANGED <<accepting, control, actor, task, main, resized, tty, mishap>>

-----------------------------------------------------------------------------
(* The main thread.                                                        *)

Idle == main.call = "none" /\ main.calls < MaxCalls /\ main.handle = "held"

\* A call sends its command and waits; a dead actor's channel is closed.
Call(cmd) ==
  IF Closed THEN /\ main' = [main EXCEPT !.calls = @ + 1]
                 /\ UNCHANGED control
  ELSE /\ control' = Append(control, [cmd |-> cmd, waited |-> TRUE])
       /\ main' = [main EXCEPT !.call = cmd, !.answer = "none", !.calls = @ + 1]

\* begin_handoff: the gate closes before the command is sent, under the
\* same lock, so nothing is accepted behind the command.
BeginHandoff ==
  /\ Idle /\ ~main.paused
  /\ Call("begin") /\ accepting' = Closed
  /\ UNCHANGED <<data, actor, task, resized, tty, accepted, mishap>>

Duplicate ==
  /\ Idle /\ main.paused
  /\ Call("duplicate")
  /\ UNCHANGED <<accepting, data, actor, task, resized, tty, accepted, mishap>>

\* rollback_handoff, called for a paused terminal.
Rollback ==
  /\ Idle /\ main.paused
  /\ IF Closed THEN /\ main' = [main EXCEPT !.calls = @ + 1, !.paused = FALSE]
                    /\ UNCHANGED control
     ELSE /\ control' = Append(control, [cmd |-> "rollback", waited |-> TRUE])
          /\ main' = [main EXCEPT !.call = "rollback", !.answer = "none",
                                  !.calls = @ + 1, !.paused = FALSE]
  /\ UNCHANGED <<accepting, data, actor, task, resized, tty, accepted, mishap>>

\* preserve_for_handoff, once the handoff is committed.
ReleaseAfterCommit ==
  /\ Idle /\ main.paused
  /\ accepting' = FALSE
  /\ LET letting_go == [main EXCEPT !.handle = "released", !.paused = FALSE]
     IN IF Closed THEN main' = letting_go /\ UNCHANGED control
        ELSE /\ control' = Append(control, [cmd |-> "release", waited |-> TRUE])
             /\ main' = [letting_go EXCEPT !.call = "release"]
  /\ UNCHANGED <<data, actor, task, resized, tty, accepted, mishap>>

\* The runtime is dropped, as the pane is closed or after the release.  The
\* command is sent and not waited for.
Shutdown ==
  /\ main.call = "none" /\ main.handle # "dropped"
  /\ accepting' = FALSE
  /\ control' = IF Closed THEN control
                ELSE Append(control, [cmd |-> "shutdown", waited |-> FALSE])
  /\ main' = [main EXCEPT !.handle = "dropped", !.paused = FALSE]
  /\ UNCHANGED <<data, actor, task, resized, tty, accepted, mishap>>

\* The main thread resizes the terminal, but not in the middle of a handoff.
Resize ==
  /\ main.call = "none" /\ main.handle = "held" /\ ~main.paused /\ ~resized
  /\ Answers < MaxAnswers
  /\ resized' = TRUE
  /\ UNCHANGED <<accepting, data, control, actor, task, main, tty, accepted, mishap>>

\* recv_timeout: no answer yet, and nobody waits for it any more.
Unwaited(commands) == [i \in DOMAIN commands |-> [commands[i] EXCEPT !.waited = FALSE]]
GiveUp ==
  /\ main.call # "none" /\ main.answer = "none"
  /\ main' = [main EXCEPT !.answer = "late"]
  /\ control' = Unwaited(control) /\ actor' = [actor EXCEPT !.waited = FALSE]
  /\ mishap' = IF main.call = "rollback" THEN mishap \cup {"late"} ELSE mishap
  /\ UNCHANGED <<accepting, data, task, resized, tty, accepted>>

\* The call returns.  A begin that fails or is given up on rolls back by
\* itself; a rollback that is answered opens the gate.
Return_without_rollback ==
  /\ main.answer # "none"
  /\ main' = [main EXCEPT !.call = "none", !.answer = "none",
                          !.paused = IF main.call = "begin" THEN main.answer = "ok" ELSE @]
  /\ accepting' = (accepting \/ (main.call = "rollback" /\ main.answer = "ok")
                     \/ (main.call = "begin" /\ main.answer # "ok"))
  /\ UNCHANGED <<data, control, actor, task, resized, tty, accepted, mishap>>
Return ==
  /\ main.answer # "none"
  /\ IF main.call = "begin" /\ main.answer # "ok" /\ ~Closed
     THEN /\ control' = Append(control, [cmd |-> "rollback", waited |-> TRUE])
          /\ main' = [main EXCEPT !.call = "rollback", !.answer = "none"]
     ELSE /\ main' = [main EXCEPT !.call = "none", !.answer = "none",
                       !.paused = IF main.call = "begin" THEN main.answer = "ok" ELSE @]
          /\ UNCHANGED control
  /\ accepting' = (accepting \/ (main.call = "rollback" /\ main.answer = "ok"))
  /\ UNCHANGED <<data, actor, task, resized, tty, accepted, mishap>>

-----------------------------------------------------------------------------
(* The actor thread.                                                       *)

Running == actor.pc = "loop" /\ actor.state = "running"

\* The answer to the command in hand, for a caller that still waits.
AnswerCall(waited, answer) ==
  main' = IF waited THEN [main EXCEPT !.answer = answer] ELSE main

\* apply_pending_controls: a resize makes the terminal answer.
WithResize(pending) == IF resized THEN Append(pending, Answer) ELSE pending

\* handle_control_command, but for BeginHandoff.
TakeCommand ==
  /\ actor.pc = "loop" /\ control # <<>>
  /\ control' = Tail(control)
  /\ LET cmd == Head(control).cmd
         waited == Head(control).waited
     IN \/ /\ cmd = "duplicate"
           /\ AnswerCall(waited, IF actor.state = "quiesced" THEN "ok" ELSE "failed")
           /\ UNCHANGED actor
        \/ /\ cmd = "rollback"
           /\ AnswerCall(waited, "ok") /\ actor' = [actor EXCEPT !.state = "running"]
        \/ /\ cmd = "release"
           /\ AnswerCall(waited, "ok")
           /\ actor' = [actor EXCEPT !.state = "released", !.pending = <<>>, !.pc = "exited"]
        \/ /\ cmd = "shutdown"
           /\ actor' = [actor EXCEPT !.pc = "exited"] /\ UNCHANGED main
  /\ UNCHANGED <<accepting, data, task, resized, tty, accepted, mishap>>

\* begin_handoff: first everything accepted so far becomes a pending write.
TakeBegin_leaving_data ==
  /\ actor.pc = "loop" /\ control # <<>> /\ Head(control).cmd = "begin"
  /\ control' = Tail(control)
  /\ actor' = [actor EXCEPT !.pc = "draining", !.waited = Head(control).waited,
                            !.pending = WithResize(@)]
  /\ resized' = FALSE
  /\ UNCHANGED <<accepting, data, task, main, tty, accepted, mishap>>
TakeBegin ==
  /\ actor.pc = "loop" /\ control # <<>> /\ Head(control).cmd = "begin"
  /\ control' = Tail(control)
  /\ actor' = [actor EXCEPT !.pc = "draining", !.waited = Head(control).waited,
                            !.pending = WithResize(@ \o data)]
  /\ data' = <<>> /\ resized' = FALSE
  /\ UNCHANGED <<accepting, task, main, tty, accepted, mishap>>

\* It is written to the end, or HANDOFF_DRAIN_TIMEOUT passes.
Quiesce ==
  /\ actor.pc = "draining" /\ actor.pending = <<>>
  /\ actor' = [actor EXCEPT !.pc = "loop", !.state = "quiesced", !.waited = FALSE]
  /\ AnswerCall(actor.waited, "ok")
  /\ UNCHANGED <<accepting, data, control, task, resized, tty, accepted, mishap>>

DrainTimeout ==
  /\ actor.pc = "draining" /\ actor.pending # <<>>
  /\ actor' = [actor EXCEPT !.pc = "loop", !.waited = FALSE]
  /\ AnswerCall(actor.waited, "failed")
  /\ UNCHANGED <<accepting, data, control, task, resized, tty, accepted, mishap>>

\* handle_data_command: a quiesced actor throws input away.
TakeData ==
  /\ actor.pc = "loop" /\ data # <<>>
  /\ data' = Tail(data)
  /\ actor' = IF Running THEN [actor EXCEPT !.pending = Append(@, Head(data))] ELSE actor
  /\ UNCHANGED <<accepting, control, task, main, resized, tty, accepted, mishap>>

ApplyControls ==
  /\ actor.pc = "loop" /\ resized
  /\ resized' = FALSE /\ actor' = [actor EXCEPT !.pending = WithResize(@)]
  /\ UNCHANGED <<accepting, data, control, task, main, tty, accepted, mishap>>

\* read_once: what the child prints makes the terminal answer.
ReadOnce ==
  /\ Running /\ Answers < MaxAnswers
  /\ actor' = [actor EXCEPT !.pending = Append(@, Answer)]
  /\ UNCHANGED <<accepting, data, control, task, main, resized, tty, accepted, mishap>>

\* flush_pending_writes_once, one chunk at a time.
Flush ==
  /\ actor.pc \in {"loop", "draining"} /\ actor.pending # <<>>
  /\ tty' = tty \o Input(<<Head(actor.pending)>>)
  /\ actor' = [actor EXCEPT !.pending = Tail(@)]
  /\ UNCHANGED <<accepting, data, control, task, main, resized, accepted, mishap>>

\* The PTY refuses: everything pending is given up.
WriteFails ==
  /\ actor.pc \in {"loop", "draining"} /\ actor.pending # <<>>
  /\ actor' = [actor EXCEPT !.pending = <<>>] /\ mishap' = mishap \cup {"pty"}
  /\ UNCHANGED <<accepting, data, control, task, main, resized, tty, accepted>>

\* The child is gone, or the poll failed.
ReaderExits ==
  /\ actor.pc = "loop"
  /\ actor' = [actor EXCEPT !.pc = "exited"] /\ mishap' = mishap \cup {"pty"}
  /\ UNCHANGED <<accepting, data, control, task, main, resized, tty, accepted>>

-----------------------------------------------------------------------------
Write(t) == StartWrite(t) \/ Reserve(t) \/ SendReserved(t)
Main == \/ BeginHandoff \/ Duplicate \/ Rollback \/ ReleaseAfterCommit \/ Shutdown
        \/ Resize \/ GiveUp \/ Return
Thread == \/ TakeCommand \/ TakeBegin \/ Quiesce \/ DrainTimeout \/ TakeData
          \/ ApplyControls \/ Flush
Pty == ReadOnce \/ WriteFails \/ ReaderExits
Next == (\E t \in Tasks : Write(t)) \/ TryWrite \/ Main \/ Thread \/ Pty

Spec == Init /\ [][Next]_vars

-----------------------------------------------------------------------------
(* Properties.                                                             *)

TypeOK ==
  /\ {accepting, resized} \subseteq BOOLEAN
  /\ data \in Seq(Inputs) /\ Len(data) <= DataCap
  /\ control \in Seq([cmd : Commands, waited : BOOLEAN])
  /\ actor \in [pc : {"loop", "draining", "exited"}, waited : BOOLEAN,
                state : {"running", "quiesced", "released"}, pending : Seq(Chunks)]
  /\ task \in [Tasks -> {"idle", "reserving", "reserved"}]
  /\ main \in [call : Commands \cup {"none"}, answer : {"none", "ok", "failed", "late"},
               calls : 0..MaxCalls, paused : BOOLEAN, handle : {"held", "released", "dropped"}]
  /\ tty \in Seq(Inputs) /\ accepted \in Seq(Inputs)
  /\ mishap \subseteq {"pty", "late"}

\* All input the handle took has reached the child, or is on its way, in
\* order: through failed and abandoned attempts to pause, and when the PTY
\* is released to another server nothing taken is left behind.
AcceptedIsDelivered ==
  "pty" \notin mishap /\ (Closed => actor.state = "released") =>
    tty \o Input(actor.pending) \o data = accepted

\* While the main thread holds the PTY paused, the actor does nothing with
\* it, whatever commands of an earlier, abandoned attempt were still queued;
\* and once no call is under way and no command is left, the gate is open
\* exactly when the actor takes input: a failed pause gives input back, unless
\* its rollback was answered too late.
PauseHoldsAndEnds ==
  /\ main.paused /\ main.call \in {"none", "duplicate"} /\ ~Closed =>
       /\ actor.pc = "loop" /\ actor.state = "quiesced"
       /\ actor.pending = <<>> /\ data = <<>> /\ ~resized
       /\ \A i \in 1..Len(control) : control[i].cmd \in {"duplicate", "shutdown"}
  /\ main.call = "none" /\ control = <<>> /\ ~Closed /\ "late" \notin mishap =>
       (accepting <=> actor.state = "running")

-----------------------------------------------------------------------------
\* The threads run; every turn of the actor's loop empties the channel of
\* input, and places in it are given out in the order they were asked for.
\* Nothing is assumed of the child: it may never read.
Fairness == /\ WF_vars(Thread) /\ WF_vars(Return)
            /\ SF_vars(TakeData)
            /\ \A t \in Tasks : SF_vars(Reserve(t)) /\ WF_vars(SendReserved(t))

FairSpec == Spec /\ Fairness

\* A task that waits for a place in the channel gets on, also when the
\* actor is paused, released or gone meanwhile (write_user_input).
WriteCallEnds == \A t \in Tasks : (task[t] # "idle") ~> (task[t] = "idle")
=============================================================================
