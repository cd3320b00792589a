------------------------------ MODULE Handoff -------------------------------
(***************************************************************************)
(* The live handoff of all terminals to a freshly started server, as the   *)
(* old server (perform_live_handoff in src/server/headless.rs) and the new *)
(* one (run_handoff_import_server) agree on it over a stream socket        *)
(* (src/server/handoff.rs).  Both may fail or crash at any step, and every *)
(* wait of the old server, and the new one's last, may time out.           *)
(*                                                                         *)
(* The two public sockets go together and are one here; so is whatever a   *)
(* terminal's screen holds: the amount of output its server has taken in.  *)
(*                                                                         *)
(* An operator whose name extends another's is that operator with a        *)
(* plausible slip in it.  Nothing uses it; it shows, put in the place of   *)
(* the right one, that a property notices.                                 *)
(***************************************************************************)
EXTENDS Naturals, Sequences

CONSTANTS
  Terminals,
  MaxAttempts,  \* bound of the model: handoffs attempted
  MaxOutput     \* bound of the model: pieces of output of one program

ASSUME HandoffAssumption == MaxAttempts \in Nat /\ MaxOutput \in Nat

VARIABLES
  old, new,        \* where each server is in the procedure
  to_old, to_new,  \* the stream between them
  paused,          \* paused_terminal_ids
  withdrawn,       \* the old server has removed its public sockets
  manifest,        \* what the manifest says of each terminal
  attempts,        \* handoffs attempted
  sockets,         \* whose public sockets can be connected to
  reader,          \* each server's PTY actor for a terminal
  reaps,           \* a runtime the new server drops kills its processes
  printed, taken,  \* output of each program, and how much was read from its PTY
  seen,            \* how much of it each server's terminal state holds
  lost,            \* terminals whose PTY was hung up or whose program was killed
  mishap           \* history: what else went wrong

stream == <<to_old, to_new>>
panes == <<reader, reaps, seen, lost>>
output == <<printed, taken>>
vars == <<old, new, stream, paused, withdrawn, manifest, attempts, sockets, panes,
          output, mishap>>

Servers == {"old", "new"}
All(v) == [t \in Terminals |-> v]

Init ==
  /\ old = "serving" /\ new = "none" /\ to_old = <<>> /\ to_new = <<>>
  /\ paused = {} /\ withdrawn = FALSE /\ manifest = All(0) /\ attempts = 0
  /\ sockets = "old" /\ reader = [old |-> All("running"), new |-> All("none")]
  /\ reaps = FALSE /\ printed = All(0) /\ taken = All(0)
  /\ seen = [s \in Servers |-> All(0)] /\ lost = {} /\ mishap = {}

-----------------------------------------------------------------------------
(* The programs and their PTYs.                                            *)

Output(t) ==
  /\ t \notin lost /\ printed[t] < MaxOutput
  /\ printed' = [printed EXCEPT ![t] = @ + 1]
  /\ UNCHANGED <<old, new, stream, paused, withdrawn, manifest, attempts, sockets,
                 panes, taken, mishap>>

Read(s, t) ==
  /\ reader[s][t] = "running" /\ taken[t] < printed[t]
  /\ taken' = [taken EXCEPT ![t] = @ + 1]
  /\ seen' = [seen EXCEPT ![s][t] = @ + 1]
  /\ UNCHANGED <<old, new, stream, paused, withdrawn, manifest, attempts, sockets,
                 reader, reaps, lost, printed, mishap>>

\* The terminals whose PTY nobody has open: no actor, and not on its way.
HungUp(actors, on_its_way) ==
  IF on_its_way THEN {}
  ELSE {t \in Terminals : \A s \in Servers : actors[s][t] = "none"}

\* A server's end is closed when it is through with the other one.
OldOpen == old \in {"duplicating", "accepting", "validating", "restoring", "readying",
                    "undoing", "releasing", "acking"}
NewAlive == new \in {"connecting", "manifest", "fds", "binding", "committing",
                     "quitting", "serving"}
Committed == \/ old \in {"releasing", "acking", "stopping", "stopped"}
             \/ to_new = <<"committed">>

\* The new server's process ends, and what it held is closed.
NewEnds(how, killed) ==
  LET actors == [reader EXCEPT !.new = All("none")]
  IN /\ new' = how /\ to_new' = <<>>
     /\ reader' = actors
     /\ lost' = lost \cup HungUp(actors, FALSE) \cup killed
     /\ sockets' = IF sockets = "new" THEN "none" ELSE sockets

-----------------------------------------------------------------------------
(* The old server: perform_live_handoff.                                   *)

StartHandoff ==
  /\ old = "serving" /\ attempts < MaxAttempts
  /\ old' = "pausing" /\ attempts' = attempts + 1
  /\ new' = "none" /\ to_old' = <<>> /\ to_new' = <<>>
  /\ UNCHANGED <<paused, withdrawn, manifest, sockets, panes, output, mishap>>

Pause(t) ==
  /\ old = "pausing" /\ t \notin paused
  /\ reader' = [reader EXCEPT !.old[t] = "quiesced"] /\ paused' = paused \cup {t}
  /\ UNCHANGED <<old, new, stream, withdrawn, manifest, attempts, sockets, reaps, seen,
                 lost, output, mishap>>

\* An actor that cannot be paused has gone back to work by itself.
PauseFails ==
  /\ old = "pausing" /\ paused # Terminals
  /\ old' = "rolling_back"
  /\ UNCHANGED <<new, stream, paused, withdrawn, manifest, attempts, sockets, panes,
                 output, mishap>>

\* With everything at rest, the state is captured and the new server started.
\* The manifest says up to which output a terminal's screen is known; that the
\* code cuts the history behind it (to MAX_REPLAY_BYTES_PER_PANE, or sends
\* none beside a persisted agent session) is below this grain.
CaptureAndSpawn ==
  /\ old = "pausing" /\ paused = Terminals
  /\ manifest' = seen.old
  /\ \/ old' = "duplicating" /\ new' = "connecting"
     \/ old' = "rolling_back" /\ UNCHANGED new
  /\ UNCHANGED <<stream, paused, withdrawn, attempts, sockets, panes, output, mishap>>

DuplicateFds ==
  /\ old = "duplicating" /\ old' \in {"accepting", "undoing"}
  /\ UNCHANGED <<new, stream, paused, withdrawn, manifest, attempts, sockets, panes,
                 output, mishap>>

\* The old server takes the message it waits for and writes the next one,
\* which fails when the new one's end is closed.
Takes_peeking(message) == to_old # <<>> /\ Head(to_old) = message /\ UNCHANGED to_old
Takes(message) == to_old # <<>> /\ Head(to_old) = message /\ to_old' = Tail(to_old)
Writes(message, next) ==
  IF NewAlive THEN to_new' = Append(to_new, message) /\ old' = next
  ELSE old' = "undoing" /\ UNCHANGED to_new

SendManifest ==
  /\ old = "accepting" /\ Takes("token") /\ Writes("manifest", "validating")
  /\ UNCHANGED <<new, paused, withdrawn, manifest, attempts, sockets, panes, output, mishap>>

SendFds ==
  /\ old = "validating" /\ Takes("validated") /\ Writes("fds", "restoring")
  /\ UNCHANGED <<new, paused, withdrawn, manifest, attempts, sockets, panes, output, mishap>>

\* The public sockets make room for the new server's.
Withdraw ==
  /\ old = "restoring" /\ Takes("restored")
  /\ old' = "readying" /\ withdrawn' = TRUE
  /\ sockets' = IF sockets = "old" THEN "none" ELSE sockets
  /\ UNCHANGED <<new, to_new, paused, manifest, attempts, panes, output, mishap>>

Commit ==
  /\ old = "readying" /\ Takes("ready") /\ Writes("committed", "releasing")
  /\ mishap' = IF new = "quitting" THEN mishap \cup {"new"} ELSE mishap
  /\ UNCHANGED <<new, paused, withdrawn, manifest, attempts, sockets, panes, output>>

\* A wait ends without the message: the time is up or the other end closed.
WaitFails_at_end_only ==
  /\ old \in {"accepting", "validating", "restoring", "readying"} /\ to_old = <<>>
  /\ ~NewAlive /\ old' = "undoing"
  /\ UNCHANGED <<new, stream, paused, withdrawn, manifest, attempts, sockets, panes,
                 output, mishap>>
WaitFails ==
  /\ old \in {"accepting", "validating", "restoring", "readying"} /\ to_old = <<>>
  /\ old' = "undoing"
  /\ UNCHANGED <<new, stream, paused, withdrawn, manifest, attempts, sockets, panes,
                 output, mishap>>

\* cleanup_failed_import_child: kill it and wait for its end.
KillChild ==
  /\ old = "undoing"
  /\ old' = IF withdrawn THEN "republishing" ELSE "rolling_back"
  /\ IF NewAlive THEN NewEnds("exited", {}) ELSE UNCHANGED <<new, to_new, reader, lost, sockets>>
  /\ UNCHANGED <<to_old, paused, withdrawn, manifest, attempts, reaps, seen, output, mishap>>

\* wait_then_restore_public_sockets_after_failed_handoff, which may fail.
Republish ==
  /\ old = "republishing" /\ old' = "rolling_back" /\ withdrawn' = FALSE
  /\ \/ sockets # "new" /\ sockets' = "old" /\ UNCHANGED mishap
     \/ mishap' = mishap \cup {"unreachable"} /\ UNCHANGED sockets
  /\ UNCHANGED <<new, stream, paused, manifest, attempts, panes, output>>

\* rollback_handoff_before_commit.
RollBack ==
  /\ old = "rolling_back"
  /\ old' = "serving" /\ paused' = {}
  /\ reader' = [reader EXCEPT !.old =
                  [t \in Terminals |-> IF t \in paused THEN "running" ELSE @[t]]]
  /\ UNCHANGED <<new, stream, withdrawn, manifest, attempts, sockets, reaps, seen, lost,
                 output, mishap>>

\* preserve_for_handoff: the actors let go and no process is killed.
Release ==
  /\ old = "releasing" /\ old' = "acking"
  /\ LET actors == [reader EXCEPT !.old = All("none")]
     IN reader' = actors /\ lost' = lost \cup HungUp(actors, FALSE)
  /\ UNCHANGED <<new, stream, paused, withdrawn, manifest, attempts, sockets, reaps, seen,
                 output, mishap>>

\* wait_owned_ack: the answer, or half a second, whatever it is.
StopWaiting ==
  /\ old = "acking" /\ old' = "stopping" /\ to_old' = <<>>
  /\ UNCHANGED <<new, to_new, paused, withdrawn, manifest, attempts, sockets, panes,
                 output, mishap>>

\* complete_shutdown removes the socket files that are still its own.
Stop_removing ==
  /\ old = "stopping" /\ old' = "stopped" /\ sockets' = "none"
  /\ UNCHANGED <<new, stream, paused, withdrawn, manifest, attempts, panes, output, mishap>>
Stop ==
  /\ old = "stopping" /\ old' = "stopped"
  /\ sockets' = IF sockets = "old" THEN "none" ELSE sockets
  /\ UNCHANGED <<new, stream, paused, withdrawn, manifest, attempts, panes, output, mishap>>

-----------------------------------------------------------------------------
(* The new server: run_handoff_import_server.                              *)

\* It takes the message it waits for, and goes on or fails.  To go on it
\* answers, which the other end must be there for.
Gets(message) == to_new # <<>> /\ Head(to_new) = message /\ to_new' = Tail(to_new)
Answers(message, next) ==
  \/ OldOpen /\ to_old' = Append(to_old, message) /\ new' = next
  \/ new' = "quitting" /\ UNCHANGED to_old

Connect ==
  /\ new = "connecting" /\ Answers("token", "manifest")
  /\ UNCHANGED <<old, to_new, paused, withdrawn, manifest, attempts, sockets, panes,
                 output, mishap>>

Validate ==
  /\ new = "manifest" /\ Gets("manifest") /\ Answers("validated", "fds")
  /\ UNCHANGED <<old, paused, withdrawn, manifest, attempts, sockets, panes, output, mishap>>

\* new_from_handoff: every terminal gets a paused actor and the state the
\* manifest has for it.  Until it owns them the server must not kill them.
Import_running ==
  /\ new = "fds" /\ Gets("fds")
  /\ reader' = [reader EXCEPT !.new = All("running")]
  /\ seen' = [seen EXCEPT !.new = manifest] /\ reaps' = FALSE
  /\ Answers("restored", "binding")
  /\ UNCHANGED <<old, paused, withdrawn, manifest, attempts, sockets, lost, output, mishap>>
Import_reaping ==
  /\ new = "fds" /\ Gets("fds")
  /\ reader' = [reader EXCEPT !.new = All("quiesced")]
  /\ seen' = [seen EXCEPT !.new = manifest] /\ reaps' = TRUE
  /\ Answers("restored", "binding")
  /\ UNCHANGED <<old, paused, withdrawn, manifest, attempts, sockets, lost, output, mishap>>
Import ==
  /\ new = "fds" /\ Gets("fds")
  /\ reader' = [reader EXCEPT !.new = All("quiesced")]
  /\ seen' = [seen EXCEPT !.new = manifest] /\ reaps' = FALSE
  /\ Answers("restored", "binding")
  /\ UNCHANGED <<old, paused, withdrawn, manifest, attempts, sockets, lost, output, mishap>>

\* Once the old sockets are closed it binds its own and is ready.
Bind ==
  /\ new = "binding" /\ sockets # "old"
  /\ sockets' = "new" /\ Answers("ready", "committing")
  /\ UNCHANGED <<old, to_new, paused, withdrawn, manifest, attempts, panes, output, mishap>>

\* assume_handoff_ownership and unpause_handoff_readers, then it serves.  It
\* does so too when nobody hears that it owns the terminals now.
Own_without_reading ==
  /\ new = "committing" /\ Gets("committed")
  /\ new' = "serving" /\ reaps' = TRUE
  /\ to_old' = IF OldOpen THEN Append(to_old, "owned") ELSE to_old
  /\ UNCHANGED <<old, paused, withdrawn, manifest, attempts, sockets, reader, seen, lost,
                 output, mishap>>
Own ==
  /\ new = "committing" /\ Gets("committed")
  /\ new' = "serving" /\ reaps' = TRUE
  /\ reader' = [reader EXCEPT !.new = All("running")]
  /\ to_old' = IF OldOpen THEN Append(to_old, "owned") ELSE to_old
  /\ UNCHANGED <<old, paused, withdrawn, manifest, attempts, sockets, seen, lost, output,
                 mishap>>

\* What it waits for does not come: the other end is closed or the time is
\* up; the first two waits have no limit.
GiveUp ==
  /\ \/ new \in {"manifest", "fds"} /\ ~OldOpen
     \/ new \in {"binding", "committing"}
  /\ to_new = <<>>
  /\ new' = "quitting"
  /\ UNCHANGED <<old, stream, paused, withdrawn, manifest, attempts, sockets, panes,
                 output, mishap>>

\* Its runtimes and sockets are dropped and the process ends.
Quit ==
  /\ new = "quitting" /\ NewEnds("exited", IF reaps THEN Terminals ELSE {})
  /\ UNCHANGED <<old, to_old, paused, withdrawn, manifest, attempts, reaps, seen, output,
                 mishap>>

-----------------------------------------------------------------------------
(* Crashes in the middle of a handoff.                                     *)

NewCrashes ==
  /\ NewAlive /\ new # "serving" /\ NewEnds("exited", {})
  /\ mishap' = IF Committed THEN mishap \cup {"new"} ELSE mishap
  /\ UNCHANGED <<old, to_old, paused, withdrawn, manifest, attempts, reaps, seen, output>>

OldCrashes ==
  /\ old \notin {"serving", "stopped", "crashed"}
  /\ old' = "crashed" /\ to_old' = <<>>
  /\ mishap' = IF Committed THEN mishap ELSE mishap \cup {"old"}
  /\ sockets' = IF sockets = "old" THEN "none" ELSE sockets
  /\ LET actors == [reader EXCEPT !.old = All("none")]
     IN /\ reader' = actors
        /\ lost' = lost \cup HungUp(actors, \E i \in DOMAIN to_new : to_new[i] = "fds")
  /\ UNCHANGED <<new, to_new, paused, withdrawn, manifest, attempts, reaps, seen, output>>

-----------------------------------------------------------------------------
Panes == \E t \in Terminals : Output(t) \/ \E s \in Servers : Read(s, t)
Old == \/ \E t \in Terminals : Pause(t)
       \/ PauseFails \/ CaptureAndSpawn \/ DuplicateFds \/ SendManifest \/ SendFds
       \/ Withdraw \/ Commit \/ WaitFails \/ KillChild \/ Republish \/ RollBack
       \/ Release \/ StopWaiting \/ Stop
New == Connect \/ Validate \/ Import \/ Bind \/ Own \/ GiveUp \/ Quit
Next == Panes \/ StartHandoff \/ Old \/ New \/ NewCrashes \/ OldCrashes

Spec == Init /\ [][Next]_vars

-----------------------------------------------------------------------------
(* Properties.                                                             *)

TypeOK ==
  /\ old \in {"serving", "pausing", "duplicating", "accepting", "validating", "restoring",
              "readying", "undoing", "republishing", "rolling_back", "releasing",
              "acking", "stopping", "stopped", "crashed"}
  /\ new \in {"none", "connecting", "manifest", "fds", "binding", "committing", "quitting",
              "serving", "exited"}
  /\ to_old \in Seq({"token", "validated", "restored", "ready", "owned"})
  /\ Len(to_old) <= 1 \/ "unreachable" \in mishap
  /\ to_new \in Seq({"manifest", "fds", "committed"}) /\ Len(to_new) <= 1
  /\ paused \subseteq Terminals /\ {withdrawn, reaps} \subseteq BOOLEAN
  /\ manifest \in [Terminals -> 0..MaxOutput] /\ attempts \in 0..MaxAttempts
  /\ sockets \in Servers \cup {"none"}
  /\ reader \in [Servers -> [Terminals -> {"running", "quiesced", "none"}]]
  /\ {printed, taken, seen.old, seen.new} \subseteq [Terminals -> 0..MaxOutput]
  /\ lost \subseteq Terminals /\ mishap \subseteq {"old", "new", "unreachable"}

\* No program is killed or loses its terminal in a handoff, however it goes,
\* unless the old server crashed before it committed, or the new one ended
\* after that (drop of PaneRuntime, preserve_processes_on_drop).
PanesSurvive == mishap \cap {"old", "new"} = {} => lost = {}

\* The public sockets lead to the server that serves: to the old one again
\* after a failed attempt, unless it could not restore them, and to the new
\* one also once the old one has cleaned up behind itself.
SocketsFollow ==
  /\ old = "serving" /\ "unreachable" \notin mishap => sockets = "old"
  /\ new = "serving" => sockets = "new"

\* However the two servers fail, each terminal is passed on atomically.
serving == [t \in Terminals |->
  IF t \in lost THEN {} ELSE {s \in Servers : reader[s][t] = "running"}]
shown == [t \in Terminals |->
  IF serving[t] = {} THEN taken[t] ELSE seen[CHOOSE s \in serving[t] : TRUE][t]]
Atomic == INSTANCE Transfer
ImplementsTransfer == Atomic!Spec

-----------------------------------------------------------------------------
\* The old server runs, and sees the time pass; the program it has started
\* may be anything and hang.
OldRunsSpec == Spec /\ WF_vars(Old)

\* A handoff ends for the old server, one way or the other (READY_TIMEOUT).
HandoffEnds == (old # "serving") ~> (old \in {"serving", "stopped", "crashed"})

\* Where the new server runs too, a terminal that is paused is served again in
\* the end, unless it is lost, and no import server waits for ever, in
\* particular not for an old server that has crashed.
NobodyIsLeftWaiting ==
  WF_vars(New) =>
    /\ \A t \in Terminals : (serving[t] = {}) ~> (serving[t] # {} \/ t \in lost)
    /\ NewAlive ~> (new \in {"serving", "exited", "none"})
=============================================================================
