# HerdrPlus: TLA+ models, checks and proofs

HerdrPlus is a terminal workspace manager for coding agents: a server owns
terminals in panes, tabs and workspaces, agents talk to it and to each other
over an API socket. The program is in `src/__references/herdr`; paths below are
relative to its `src/` directory unless they start with something else.

This directory holds the specifications written from that code, the TLC
configurations that check them, and the proofs.

    tlc -config MCMsgBus.cfg MCMsgBus.tla     # and so on for each run below
    tlapm MsgBusProofs.tla                    # and so on for each *Proofs module, and ProofLemmas

## 1. The system and its parts

One *application thread* owns nearly all state (`AppState`, the `App` around it)
and serves API requests, terminal events and timers one at a time. Around it run
*connection threads* (one per API connection), *worker threads* (git, session
saves), one *PTY actor* per terminal, and the *clients*: terminal clients that
draw frames and CLI processes that send requests.

| Part | State | Operations | Interacts with | What is hard | What makes it correct |
|---|---|---|---|---|---|
| Message bus `msg.rs` | an inbox per canonical pane id (queue, next number, read cursor, drop count, byte count), two indexes of group membership | deliver, list, ack, group join/leave, re-key, remove | owned by the application thread | caps, cursors, four methods over two indexes, ids that change | no uncounted loss, caps hold, the cursor is never ahead, indexes agree |
| Addressing `msg.rs`, `app/api/msg.rs` | none of its own | parse and resolve a target, one delivery per recipient | bus, session directory | ambiguity, former ids | every id that leads to a pane addresses it |
| Event hub `api/event_hub.rs` | a ring of 512 numbered events under a mutex | push, events_after, current_sequence | pushed by the application thread, read by connection threads | eviction behind a slow reader | readers see events in order, none twice |
| Subscriptions `api/subscriptions.rs`, `api/server.rs` | per connection: what is watched, a cursor | open (probe, cursor), poll, write a line | hub, application thread, client | steps interleave with everything | a passed event became a line |
| Message clients `cli/msg.rs` | per process: baseline, deadline, reader thread | wait, read, ack, send | all of the above | lost wakes, timeouts, two-request reads | wait misses nothing, read marks only what it showed |
| Workspaces `workspace.rs`, `workspace/tab.rs`, `layout.rs` | tabs, panes, focus, root, public numbers | split, close, detach, insert, move, switch | owned by the session | index arithmetic after removals | the assertions of `assert_invariants_for_test` |
| Session `app/actions.rs`, `app/state.rs`, `app/api/*.rs`, `app/ids.rs` | the list of workspaces, active, selected, previous focus, aliases | create, split, move, close, focus, reorder, pane died | bus, hub, terminals | long sequences of requests over stale indexes and ids | ids never retarget, mail follows its pane, focus stays |
| Worktrees `app/worktrees.rs`, `app/api/worktrees*` | pending git operations, dialogs, group membership | open, create, remove, completion | worker threads, session | completion after the session changed | one operation per checkout, the answer goes to who asked |
| Team spawn `app/api/team.rs` | none | a sequence of creates with rollback | session, bus | failure in the middle | all or nothing |
| Agent state `terminal/state.rs` | hook authority per source, fallback detection, a sequence number per source | hook report, session start, release, detection, exit | terminals, PTY output | stale and reordered reports | a report never overrides a newer one |
| PTY actor `pty/actor/unix.rs` | a channel of input, one of commands, pending writes, running, quiesced or released; the gate of its handle | write, resize, begin/duplicate/rollback/release | kernel, writing tasks, main thread | pausing against user input, timeouts, late answers | accepted input arrives in order; a paused PTY is left alone |
| Client transport `server/client_transport.rs`, `server/render_stream.rs` | a control queue, one render slot, the baseline of the diff | send, try_send, receive, commit | headless server, socket | slow clients, row marks that an unsent frame used up | only whole frames are shown, the newest in the end |
| Client registry `server/headless.rs`, `server/clients.rs` | clients with mode, size and activity; owners and locks of terminals; foreground client; shared size | connect, attach, takeover, observe, resize, detach, drop | terminals, transport, handoff | clients dropped on five paths, in the middle of others' handlers | owners, locks and clients agree; sizes fit; who stays is redrawn |
| Live handoff `server/handoff.rs`, `server/headless.rs` | progress of each side, the stream, who has the sockets and the PTYs | pause, manifest, fds, restored, ready, committed, owned, roll back | PTY actors, two servers | a timeout, an error or a crash at each step | every terminal is served by one server and none is lost |
| Persistence `app/session.rs`, `persist/*` | dirty mark, deadline, save thread, two files | schedule, save, load, restore | session | kill between two steps, a save beside changes, programs that do not start | a stop loses nothing, a restart is what was saved |
| Waits `api/wait.rs` | deadline | poll output or events | subscriptions | race of match and deadline | a match before the deadline is reported |
| Others | | | | | agent detection (text against manifests), plugins, integrations, configuration, update, user interface, platform, remote, the vendored terminal emulator |

`PROJECT.json` lists these components with the modules that model them, and the
hazards with the line at which each bites.

## 2. The modules

| Module | Models | Extends / instantiates |
|---|---|---|
| `PartialMaps` | HashMap operations | |
| `Mailboxes` | the abstract promise of the bus: numbered mailboxes, a lost and a read prefix, a membership relation | |
| `MsgBus` | `msg.rs`, every method that changes state | `PartialMaps`, `Mailboxes` |
| `ProofLemmas` | induction over the naturals, functions by recursion, least elements, the empty map, what taking out of, putting into, joining and flattening sequences leaves, for proofs | |
| `MsgBusProofs`, `MsgClientsProofs`, `ClientStreamProofs`, `ServerClientsProofs`, `PtyActorProofs`, `HandoffProofs` | theorems about the module each is named for (section 4) | that module, `ProofLemmas`; `MsgClientsProofs` also `MsgBusProofs` |
| `SessionProofs` | theorems about `Session` with the operators of `Workspaces`, and about `SavedSession` | `SavedSession`, `ProofLemmas` |
| `EventHub` | `api/event_hub.rs` | |
| `MsgClients` | `msg wait`, `msg read`, the subscription's connection thread and the requests that race with them | `EventHub`, `MsgBus` |
| `Workspaces` | one workspace: `workspace.rs`, `workspace/tab.rs`, `layout.rs`, as operators | `PartialMaps` |
| `Session` | the application thread's handlers over the list of workspaces | `Workspaces` |
| `SavedSession` | saving, stopping, crashing and restoring, over every change that `Session` makes | `Session` |
| `FrameStream` | the abstract promise to a client: whole frames, in order, each current when it was offered | |
| `ClientStream` | one client from the terminal's row marks to its screen: render half of the main loop, queue, writer and reader thread | `FrameStream` |
| `ServerClients` | the registry of all clients: modes, ownership, locks, foreground, sizes | `PartialMaps` |
| `PtyActor` | the thread that owns one PTY, its handle, the tasks that write and the main thread that pauses it | |
| `Transfer` | the abstract promise of a handoff: each terminal is passed on atomically | |
| `Handoff` | both servers of a live handoff, the stream between them, PTYs, sockets, processes | `Transfer` |
| `MCMsgBus`, `MCMsgClients`, `MCSession`, `MCSavedSession`, `MCClientStream`, `MCServerClients`, `MCPtyActor`, `MCHandoff` | instances for TLC | |

Names follow the source: `enforce_caps`, `rekey_pane`, `take_pane_for_move`,
`close_workspace` are the functions of those names. Actions are handlers:
`MovePaneToTab` is `pane.move` to a tab with everything it calls, the adjustment
of indexes, the alias, the re-keying and the focus included. Operators whose name
extends another's (`ack_inbox_unclamped`) are slips that no specification uses;
substituted for the right one they show that a property notices.

How the modules meet: `MsgClients` runs over the bus of `MsgBus` and the hub of
`EventHub`; `Session` keeps, for every pane, where that bus has its mailbox;
`SavedSession` takes every request of `Session` as a change between saves;
`Handoff` relies on what `PtyActor` shows step by step, that an actor is paused, gives
its input back or is released; `ServerClients` removes all clients when a handoff
begins, and `ClientStream` is what happens on the wire to one that stays.

### MsgBus

The record `bus` is `struct MsgBus`. A message is its number and the size of its
body, all the bus looks at. The loop of `enforce_caps` is a function of the number
of turns (`Dropping`) and the first turn at which the loop's condition fails. The
counters `next_seq`, `dropped` and `total_body_bytes` are 64-bit and grow by at
most one, or one body, per delivery; overflow is out of reach and is not modelled.

### MsgClients

State of three places: the application thread (`bus`, the pane's present id `me`
and its former ids `past`), the connection thread (`sub`) and the client (`wait`,
`reading`). A request and its answer are one step, at the moment the application
thread serves it, because the client neither reads nor writes anything shared
between receiving the answer and its next request. Opening a subscription is not: the
connection thread has the pane resolved (`Probe`), which fails when the application
thread does not answer in time (`ProbeTimesOut`) or knows no such pane, then takes its
cursor (`TakeCursor`), and the client goes on with the acknowledgement (`Subscribed`) or
gives up, on an error or because `--timeout`, which is the socket's receive timeout from
the start, is over (`NotSubscribed`).
`sub.lines` counts lines written to the stream and not yet consumed; a line's
content is never looked at by `msg_wait`. `past` are the aliases of the pane that
`Session` models. The request of the client is answered (`Answers`) if the id it
holds leads to the live pane.

### Workspaces and Session

A tab is the sequence of its panes in layout order, its focus and its root pane.
The split tree decides only where panes are drawn, except that a new pane comes
right behind the pane it splits in that order, and removing a pane gives the focus
to the next one in it, or the previous when there is none (`close_focused`).
Left out: zoom (it makes `pane.move` answer "unchanged"), custom names, terminals,
modes and dialogs (one exception: the request that only opens a confirmation and
selects the workspace, `ClosePane` with `confirm_close`), plugin panes, overlays.
Indexes count from 1 and 0 stands for "none", where the code counts from 0 and has
`Option`. Workspaces belong to at most one worktree group, of one repository.

`mail` says under which id the bus keeps whose mailbox. It is the part of the bus
that the session can get wrong; what is inside a mailbox is `MsgBus`. History
variables: `told` (panes that have been sent something) and `owner` (every public
id that was ever valid, with the pane that had it first).

### SavedSession

A request is any step of `Session` (`Next`); the names that both modules would
have begin with `Saved` here (`SavedNext`, `SavedTypeOK`). It marks the session dirty; the loop
turns the mark into a deadline, and the deadline into a save, on a thread or, when
none can be started, on the loop. A save is two steps, `session.json` and then
`session-history.json`, each replaced at once (written beside and renamed), each of
which may fail and end the save. `Stop` waits for the thread and saves once more.
`Kill` may come between any two steps and leaves only the files. A new process
renumbers raw pane ids from 1, leaves out what does not start (any subset of the
panes), drops a worktree membership that is no longer true, and counts the next
workspace id from those it restored.

Raw ids mean nothing across processes, so the history variable `who` names a pane by
the process and raw id it was created with; a pane's history *is* that name, which
makes a mixed-up history visible. Not in the model: agents that are resumed, labels,
directories, the sidebar, files of older versions.

### ClientStream

A frame is what each row of a screen shows; a message is a function on some of the
rows: those that differ from the baseline for a terminal-ANSI client, all of them for
a semantic one. A PTY write marks its row, and its reader sets `render_dirty` only
afterwards (`PtyWrite`, `PtyMark`). The main loop renders in two ways: `RenderRetained`
puts the marked rows over the last frame sent, `RenderFull` draws the whole picture;
a retained attempt may give up for reasons of the application with any part of the
marks used up, and then a full render follows. The writer thread takes control
messages before the frame, reports the free slot *before* it writes, on a channel
that may be full, and ends only when nothing can send any more and nothing is queued.
A server that stops (`StopServer`, `ProcessExits`) notifies the client twice, sleeps 50 ms after
each, and exits: its threads end wherever they are and the socket with them. Steps of
the main loop need a process that serves, steps of the threads one that has not exited.

### ServerClients

Each handler of the main loop is one action: the handlers of client events, the
death and the closing of a terminal, a broadcast, a render and a handoff. A client's
connection (`peer`) lives on after the server has dropped the client, and its last
event is a disconnect. Until then any event may come from any client, in any order, as
the server does not check it: a client that is pending, or attached to one terminal, may
send events of the full kind and is then the foreground client, though the client of this
repository never does so. That is the case for which `become_terminal_client` looks at the
foreground. The activity counter is represented by the order it gives.
Clients that one loop of the code drops are dropped in any order (the code iterates
over a HashMap). `drawn` holds the shared size at which the last render drew each client,
not the order in which it drew them.

### PtyActor

The handle's calls by the main thread are split at the points where another thread
can come in: put the command into the channel, wait, take the answer or time out,
and roll back when that is what the code does. A timeout may strike at any moment
after the command was queued, which leaves the command in the channel (`GiveUp`);
the actor answers into a channel nobody reads. A chunk of input is written whole
or not at all. The gate (`UserWriteGate`) is checked before a task waits for a place
in the channel and again after it has got one.

### Handoff

Each `?` in `perform_live_handoff` and in `run_handoff_import_server` is a step that
can fail; each wait can time out; either process can crash anywhere in between. The
stream carries `manifest`, `fds` (with the descriptors in it: a PTY whose last
descriptor goes is hung up), `committed` one way and `token`, `validated`,
`restored`, `ready`, `owned` the other. A terminal's screen is the number of
pieces of output taken in, and the manifest carries it; the code cuts the history behind
the screen to 8 KB per pane and sends none for a pane with a persisted agent session,
which no property speaks of. `reaps` is `preserve_processes_on_drop`, negated.

## 3. The runs

| Run | Configuration | Distinct states | Shows |
|---|---|---|---|
| `msg_bus` | `MCMsgBus.cfg` | 32 160 | bus invariants and refinement of `Mailboxes` |
| `msg_clients` | `MCMsgClients.cfg` | 610 665 | `msg wait` misses nothing and ends, also when its subscription cannot be opened; `msg read` marks only what it showed |
| `session` | `MCSession.cfg` | 17 957 | indexes, roots, ids, mail and focus over any sequence of requests and exits |
| `saved_session` | `MCSavedSession.cfg` | 338 293 | a stop loses nothing, a restart is what was saved, every change is saved in the end |
| `client_stream` | `MCClientStream.cfg` | 262 463 | refinement of `FrameStream`, convergence, a client that has to go is told |
| `server_clients` | `MCServerClients.cfg` | 151 148 | owners, locks, foreground and sizes agree whatever clients send; who stays is redrawn; nobody is left after a handoff |
| `pty_actor` | `MCPtyActor.cfg` | 132 401 | accepted input arrives, a pause holds and ends, no writer is stuck |
| `handoff` | `MCHandoff.cfg` | 23 000 | refinement of `Transfer`, no program is lost, sockets follow, nobody waits for ever |
| `msg_wait_moved` | `MCMsgWaitMoved.cfg` | violation | finding 1 |
| `session_addresses` | `MCSessionAddresses.cfg` | violation | finding 2 |
| `session_aliases` | `MCSessionAliases.cfg` | violation | finding 3 |
| `session_previous_focus` | `MCSessionPreviousFocus.cfg` | violation | finding 4 |

**Bounds.** Where the code has a cap, the models have it as a constant and the
configurations make it small enough to be reached; the counters that grow for ever
are bounded by constants named as bounds.

- `msg_bus`: two panes and two groups are enough for an index to disagree about
  somebody else's entry and for a re-keyed pane to meet leftovers. Caps of 3
  messages and 5 bytes with bodies of 1 and 3 bytes reach the count cap alone, the
  byte cap alone, and a body that pushes out three messages; the body of 6 is over the
  body cap. Four deliveries per inbox go past the count cap. Pane ids and group names
  are opaque keys, so both are permuted (symmetry).
- `msg_clients`: one pane under two ids and up to two messages, both of which fit the
  inbox (what an eviction does to it is the run `msg_bus`, and the theorems below hold
  for every cap); a hub of one event, so that one other event suffices to lose a wake.
  One waiting client, with and without `--timeout` (both initial states), and one
  `msg read` beside it, which displays with and without `--after` and `--all`; acks by
  hand are the other reader.
- `msg_wait_moved`: a hub larger than the number of events.
- `session`: three panes, three workspaces, two tab numbers, three pane numbers: enough
  for a lone pane to move twice (two aliases for one pane), for a pane to move away from
  one that stays, for a group of two workspaces beside a third, and to tell the
  workspace in front of the active one, the active one and the one behind it. One
  addressee receives mail. Longer chains of moves, there and back, are left to the
  theorems, which hold for every bound.
- `saved_session`: three requests over two processes make a session of three panes
  or two workspaces, change it, and change it again while the first save is running
  or after the restart.
- `client_stream`: two rows are enough for a message that holds one and not the other;
  two contents of a cell, because only being the same or not matters; two changes
  after the first frame fill the writer and the slot; a channel of one event, so that the
  writer has to wait for the main loop. One other control message may be queued in front
  of a notice. The client starts with a screen that differs from the first frame in every
  row; nothing happens to the picture of a client that is removed.
- `server_clients`: three clients (an owner, one who takes over, and a third that
  observes or has the application), one terminal that starts, dies, is taken over or
  closes, two sizes and the minimum. No counter is bounded: it is all there is.
- `pty_actor`: a channel of one place, two tasks of which one has to wait, two chunks,
  one pending answer of the terminal, and two calls of the main thread: a pause and
  its outcome, or a pause that times out and its roll-back.
- `handoff`: two terminals, so that one can be paused or imported and the other not;
  two attempts, so that leftovers of the first meet the second; two pieces of output,
  one before and one after the pause.

**Deadlock.** Only `msg_bus` and `server_clients`, which never come to an end, check for
it. The other configurations say `CHECK_DEADLOCK FALSE`: the clients finish and the
server stops (`MsgClients`), a session may become empty after the bounded number of
panes was created (`Session`), the last process has ended (`SavedSession`), the client
has left (`ClientStream`), the PTY is released and all chunks are written
(`PtyActor`), and after a handoff the old server is gone (`Handoff`). That nobody
waits for ever is what the liveness properties say instead.

**Fairness.**

- `MsgClients`: `WF(WaitStep)`: the client process is scheduled, the application thread
  serves requests in turn (its loop drains the API channel on every turn), and
  `recv_timeout` returns after 250 ms at the latest (`WAIT_POLL_INTERVAL`).
  `WF(DeadlinePasses)`: time passes. `WF(SubscribeStep)`: the connection thread opens or
  refuses the subscription, as its probe waits for `APP_RESPONSE_TIMEOUT` at most. After
  that nothing is assumed of it, nor of other clients or readers: the subscription is, as a
  comment in `msg_wait` says, "only a WAKE HINT", and `UnreadEndsWait` holds without it. It
  allows a wait to end with an error when the subscription was not opened, or not
  acknowledged within `--timeout`, although a message is unread; and it leaves out the step
  between the last list and the deadline check: a message that is delivered there does
  lose to the deadline, which is what a timeout means.
- `SavedSession`: the loop turns the mark into a deadline and the deadline into a save,
  and a save that is under way writes on (`WF` each). Nobody has to stop, restart or
  send requests. That the deadline passes rests on a pause in the changes: the code
  sets it anew with every change, and the bound on requests is that pause.
- `ClientStream`: threads run while the process lives, and the main loop while it serves.
  `SF` on the handling of an event: every turn of the main loop
  drains its events, also when it is busy with changes in between. A client that is
  open reads what it is sent (`WF(Writer)` includes the write to the socket); it closes
  only when told, or whenever it likes. Nothing makes the server stop, but a server that is
  stopping exits (`WF(ProcessExits)`), which no writer can count on outrunning.
- `PtyActor`: the actor's thread runs, and so does the one who waits for it.
  `SF(TakeData)`: each turn of its loop empties the channel of input. `SF(Reserve)`:
  places in a tokio channel are given out in the order they were asked for. Nothing is
  assumed of the child, which may never read.
- `Handoff`: the old server runs and sees time pass (`OldRunsSpec`), so `HandoffEnds` holds
  whatever the program it has started does. `NobodyIsLeftWaiting` assumes the same of the
  new one, inside the property.

**What the properties except.** `PauseHoldsAndEnds` excepts the history in which an answer to a
roll-back comes after the second the handle waits for it: the actor then runs and the
gate stays closed (section 5). `RestoresWhatWasSaved` asks for the right history only
when both files come from one process (section 5). `SavedInTheEnd` leaves out `selected`,
which a refused close moves without a mark. `TerminalsFit` leaves out a foreground client
whose connection is broken and not yet noticed, and one that is not a full client: the
panes are laid out for full clients only. When an attached client has brought itself to the
foreground, its later resize changes the effective size only when the foreground's state is
next taken over, which an agent's report does without a render; `TerminalsFit` does not
speak of the effective size then, and `RemainingAreRedrawn` not of that situation.
`ShutdownIsRead` promises nothing when the server stops: the code waits 100 ms in all and
the process exits. `Converges` supposes a server that goes on.

## 4. The proofs

Every theorem below holds for every value of the constants that satisfies the
assumptions of the module, and TLC evaluates these in the runs. The bounds of the
runs are constants as well, so that a theorem speaks of any number of clients, panes,
terminals, rows, requests or attempts.

| Module | Assumed of the constants | Theorems |
|---|---|---|
| `MsgBusProofs` | sizes are natural numbers; room for one message at least; `MaxBody <= MaxBytes` | `Invariant`, `TypeCorrect`, `SeqAccountingCorrect`, `NothingReadAheadCorrect`, `CapsHoldCorrect`, `IndexesAgreeCorrect`; `Refinement` of `Mailboxes` |
| `MsgClientsProofs` | the same, room for one event at least, the pane's first id is an id | `Invariant`, `TypeCorrect`, `NothingIsReadUnseen` (`ReadOnlyWhatWasShown`), `WaitIsComplete` (`WaitPrintsUnread`) |
| `ClientStreamProofs` | a blank cell is a cell; an event queue of one place at least | `Invariant`, `TypeCorrect`, `BaselineIsRight` (`BaselineIsWhatItWillShow`); `Refinement` of `FrameStream` |
| `ServerClientsProofs` | some sizes, all different from the smallest one | `Invariant`, `TypeCorrect`, `Attachments` (`AttachmentsAgree`), `SizesFit` (`TerminalsFit`), `Redrawn` (`RemainingAreRedrawn`), `NobodyLeft` (`NobodyAfterHandoff`) |
| `PtyActorProofs` | a channel of one place at least | `Invariant`, `TypeCorrect`, `InputIsDelivered` (`AcceptedIsDelivered`), `PauseIsRight` (`PauseHoldsAndEnds`) |
| `HandoffProofs` | the bounds are natural numbers | `Invariant`, `TypeCorrect`, `NothingIsLost` (`PanesSurvive`), `SocketsLeadOn` (`SocketsFollow`); `Refinement` of `Transfer` |
| `SessionProofs` | nothing (the bounds may be anything) | of `Session`: `Invariant`, `TypeCorrect`, `SessionSafe` (`SessionInvariant`), `MailFollows` (`MailFollowsPane`), `NoRetargeting` (`IdsNeverRetarget`), `FocusKeeps` (`FocusStays`); of `SavedSession`: `SavesInvariant`, `NothingIsLost` (`StopLosesNothing`), `SavedSound`, `SavedTypes` (`SavedTypeOK`), `HistoryAgrees`, `Restored` (`RestoresWhatWasSaved`) |

Each module defines an inductive invariant `IInv` (`SavesInv`, `SavedInv` and `History` for
`SavedSession`), has one lemma per action that the action keeps it, and derives the properties
from it.

**MsgBus.** `IInv` is the conjunction of the five invariants that the run `msg_bus`
checks, inbox by inbox. None of the parts is inductive alone: that the newest message
survives `enforce_caps` (`NothingReadAhead`) needs the byte counter to be exact, as
otherwise the loop could drop everything; the exactness (`CapsHold`) needs the types of
the sizes and that `saturating_sub` never saturates; the read cursor stays behind
`newest_seq` after a delivery because numbers are consecutive (`SeqAccounting`); and
`remove_pane`, which visits only the groups that the pane's own entry names, leaves no
trace of the pane only because the indexes agree before.

The loop: `DroppingDef` shows that the recursive function `Dropping` exists, from
recursion over the naturals; every turn leaves an inbox that satisfies what the previous
one did except the caps, and the number of messages falls by one per turn; at the turn
that leaves one message the byte count is that message's size, which is at most
`MaxBody <= MaxBytes`, so the loop stops with a message left. The prover cannot take a
predicate as a parameter, so induction is used with the set of numbers that satisfy it
(`ProofLemmas.SetInduction`, which rests on the well-foundedness of the strict subset
order on finite sets).

The refinement maps an inbox to the counts of messages sent, lost and read, and the
index by group to the relation. One lemma per method shows the abstract step or a
stutter (`DeliverSends`, `AckReads`, `JoinJoins`, `LeaveLeaves`, `RemoveCloses`,
`RekeyRenames`), under `IInv`.

**MsgClients.** What `deliver` and `ack` do to the inbox is taken from `MsgBusProofs`.
`ReadersBehind` is the heart: between its two requests a reader holds a number in
`reading` such that every message still retained up to it was shown or acknowledged by
hand. A delivery in between may drop messages, which only makes the claim smaller, and
numbers the new one above `reading`; therefore the later `ack` keeps `ReadAreSeen`, which
is the property. A wait is complete because its baseline is at most the read cursor from
the moment it found nothing unread (`WaitBehind`), and the cursor never goes back. A move
keeps all of this because the inbox moves with the pane (`BusSound`).

**ClientStream.** `BaselineIsWhatItWillShow` needs `OthersAreCurrent`: a diff against the
baseline that draws only marked rows is right only if the other rows of the baseline are
already what a full render would show. That is kept only by the order of the code: marks
are consumed with the frame that is offered, and a frame that is not offered leaves
`render_pending` or `needs_full`. `WriterHolds` says at which of the writer's steps a
message is still between slot and screen. In the refinement the frames on their way are
those that result when what the writer holds, and then what is in the slot, is applied to
the screen; putting a message in the slot is the abstract offer, the write to the socket is the
showing, and a broken connection loses what was on its way.

**ServerClients.** `Foreground` has two parts. `Foremost`: nobody is in the foreground only
when there is no full client, an observer never is, and no full client was used after the one
that is. `Effective`: the size in use is the one of that client, if it is not attached. An event
that brings a client to the foreground also stamps it, and an event that changes what a
client is takes it from the foreground again; only when the foreground
client goes is another looked for, and for that the proof needs that the order of activity is
strict and total on the clients there are (`Ordered`) and that a finite
set of clients that is not empty has a latest one, by well-foundedness. `Owned` relates owners,
locks, modes and the sizes of owned terminals in both directions; a takeover changes three
of these and a `drop` all four. The loops over clients (`drop_all`, `remove_all`) are functions by
recursion over an order that is not determined; the lemmas hold for every order.
`Settled` is the part with the argument about failures: when no render is promised
(`needs_render`), sizes fit and all remaining clients were drawn at the effective size; each of the
paths that drop a client in the middle of another's handler either leaves it unreported,
and then the render is still promised, or asks for one.

**PtyActor.** The channel of commands and the calls of the main thread are related by
`OneIsWaitedFor` and `LastCommands`: at most one command is waited for, it is the last in
the channel or in the actor's hands, nothing follows a shutdown and only a shutdown a
release. From these `Calls` says what an answer means when it is read later, and `Paused`
that nothing but duplicates can reach a paused actor. Accepted input is in the order of
`accepted` because the gate is closed while the actor may discard its channel (`Gate`,
`Taken`), and because a task that reserved a place before the gate closed still has it
(`Places`: places taken and places reserved together do not exceed the capacity).

**Handoff.** `OnTheWayToOld` and `OnTheWayToNew` list what the stream can hold and where
both servers are then; it is never filled in both directions. `Together` bounds how far
one server is ahead of the other, `Actors` says whose actors have the PTYs, `Sockets` who
holds the public ones and `Fate` whose failure explains a lost terminal. All are needed at
once: that no terminal has two readers when the new server starts its actors needs to
know that the old one has committed and what became of its actors, which only the message
"committed" in the stream tells. In the refinement a pause and a roll-back are abstract
passes of their terminals, `Own` is the pass of all of them to the new server, and a
release, the end or the crash of a server may only lose terminals; everything else stutters.

**Session.** The invariant speaks of the *name* of a pane, which is the public id it has at
the moment, and of ids that are *reserved*: of a workspace whose id was given out, and, if
that workspace is still there, with a number below its counter. `IInv` has six parts:

- `Counters`: panes and who was told something are below the counter of raw ids;
- `Sound`: every workspace is `Good` (tabs with at least one pane, roots and focuses
  inside, numbers that differ, a public number for exactly the panes there are), no two of
  them share an id or a pane, and the indexes and the previous focus lead to something;
- `Settled`: there is an active workspace when there is one at all, in a session that was
  not restored from a file;
- `OwnerSound`: every id ever given out is reserved and has one owner, and a living pane
  owns its name;
- `AliasesSound`: an alias leads to the owner of the id, and every id whose owner lives
  under another name is an alias;
- `MailSound`: exactly the living panes that were told something have a mailbox, under their
  name.

`IdsNeverRetarget` is not inductive without the aliases and the reserved numbers: an id that
answers correctly now could be given to a new pane in the next step if the counters could
reach it again, and a moved pane is found under its former id only by an alias. `MailFollowsPane`
is not without the injectivity of names: re-keying one mailbox could run over another.

The lemmas come in layers, each using only the one below. Sequences: what taking out,
inserting, replacing and dropping several elements leave (`RemoveAt`, `InsertAt`, `Kept`).
Tabs of a workspace. One workspace: each operator of `Workspaces` leaves a `Good` one (or, in the
middle of an operation, one that is `Half`: empty, or with a number whose pane is not placed
yet), and either only loses panes (`Left`) or places one that has its number (`Placed`); the
panes that stay keep their numbers. All workspaces: a change after which the panes that
stay keep their names (`Same`) or after which one pane has a new name besides (`Gains`); both
compose and keep ids reserved. With `StepKeeps`, which turns these into `IInv'`, there is a
lemma for each handler. In a move the session between leaving and arriving is sound except
for the pane on its way (`SoundBut`): the previous focus may name it, and its aliases and its
mailbox are still there under the old name.

`FocusStays` needs of the invariant only that the workspaces are sound and that the active
one exists (`Attended`); a focus that is a living pane implies the latter. `KeepsFocus` says
of two sessions that the active workspace of the second shows the same pane, and there is a lemma for each
request without `focus`: what it puts somewhere is put behind the indexes it leaves
alone, or the indexes move along with what they name. A pane that is closed takes the focus
with it only in its own tab, and a tab in its own workspace. That a closing which leaves the
number of workspaces closes none (`KeptShorter`) is counting: fewer are kept than there were.

**SavedSession.** Saves are at most one job of the worker thread and one of the event loop,
each a pair of writes (`IsSave`). `LastSave` follows the job of a stopping server through
its two files and says that the worker's job is over, since `save_session_now` joins it; `Stopped`
is what is left when it has ended. What the session is does not matter to this proof, any request
of `Session` may come before the stop.

What the files hold, and what becomes of it, is the second invariant, `SavedInv`: memory
satisfies the invariant of `Session` (`Memory`), and the session of every file and of every save
under way is one that could have been built by requests (`SessionSound`), with a `who` for each
of its panes (`Files`). For this the invariant of `Session` has a parameter: `IInv(fresh)` asks
for an active workspace only of a session that was not restored, because the place that a file
names may be beyond the end when workspaces did not start again; and
its step lemmas prove more than the invariant, that no pane is new but the one with
the next raw id (`Keeps`). What `restore` does is followed from the inside out: the new
raw ids are a renaming of the saved ones (`OldIds`, which needs what `FlattenSeq` makes of
sequences without a common element); a tab, the tabs of a workspace, a
workspace, the session with those elements dropped of which nothing started, and the others
renamed (`RestoredTab`, `TabsRestored`, `RestoredWorkspace`, `SessionRestored`), each again well-formed
and each saying both which saved part a restored one comes from and which restored part a saved one
has become; then `BecomeKeeps`, that a process with this session satisfies `IInv(FALSE)`.

`RestoresWhatWasSaved` then has three parts. Places and focuses follow from these two
directions (`PlacesRestored`). That nothing at all changes when every program starts is a
statement about sequences and not sets: nothing is dropped (`RestIsAll`), so each index has what it
had (`ShapeStays`, `AllRestored`). That no pane shows another one's history needs
`History`: what memory, a file or a save says of a raw id of one process is one thing, and a raw id
that is not yet given out by the living process is known nowhere. Without the second half the
first one is not inductive. Files of two processes may name different panes by one raw
id, so the property supposes that both are of one process (the end of section 5 tells when they
are not).

**Only model-checked.** Liveness is out of the prover's reach: `UnreadEndsWait`, `WaitEnds`,
`SavedInTheEnd`, `Converges`, `ShutdownIsRead`, `WriteCallEnds`, `HandoffEnds`,
`NobodyIsLeftWaiting`. Every invariant and every action property of the runs that pass is proved.

## 5. Findings

1. **The subscription of a moved pane is deaf** (`msg_wait_moved`). The message
   subscription keeps the id that the pane had when it was opened; after a move the
   events carry the new one. The comment in `cli/msg.rs` that anything delivered
   after the baseline list fires an event is not so. In the run the pane moves between the
   two halves of opening the subscription, before the baseline list, and the message comes
   after that list; a move after the list does the same. The poll finds the message
   within 250 ms, so `msg wait` is still correct.
2. **A former id receives mail requests but no mail** (`session_addresses`).
   `msg.list`, `msg.ack` and the groups accept a moved pane's former id, `msg.send`
   does not find it, though `app/api/msg.rs` says every handler must resolve it.
3. **Aliases of closed panes stay** (`session_aliases`), unless the shell exited by
   itself. `assert_invariants_for_test` forbids it; no test closes a moved pane and
   then calls it. No id retargets because of it (`IdsNeverRetarget` holds): an alias
   of a dead pane leads to nothing, and its number is not used again.
4. **The previous focus of a moved pane** (`session_previous_focus`). A move with
   focus of the focused pane records its old workspace with the pane itself as the
   previous focus; "last pane" then does nothing but forget it.

The following contradicts no sentence of the repository, and is what the code does:

- `handle_pane_died` clamps `active` and `selected` but does not shift them, so when the
  last pane of a workspace in front of the active one exits, the focus jumps to another
  workspace (`pane.move` shifts them). Closing the last pane of a background workspace
  through the API selects and activates a neighbour as well. `FocusStays` therefore
  speaks of steps that leave the number of workspaces as it was.
- `active`, `active_tab` and `selected` are saved as places. When a workspace or tab in
  front of them does not start again, the places are clamped, not shifted; with
  `active` beyond the end no workspace is active although some are there.
- `reserve_workspace_ids` counts from the workspaces that were restored: the id of a
  workspace that was closed last can be given out again after a restart.
- `session.json` and `session-history.json` name panes by raw ids, which start again
  from 1 in each process. A process killed between the two renames of its first save
  leaves a history of an earlier process beside its own session, and the next process
  may show a pane the history of another one.
- Switching `experimental.pane_history` off removes the file at once, but a save that is
  running then writes it again, and it stays until the next save. Switching it on
  schedules no save.
- The save deadline moves with every change: a session that never rests for
  `SESSION_SAVE_DEBOUNCE` is saved only when the server stops. Aliases of moved panes,
  the previous focus and mailboxes are not saved at all.
- `rollback_handoff` gives the actor a second. An answer after that is thrown away and
  leaves the gate of user input closed while the actor runs; the pane takes no input
  until a later roll-back succeeds.

## 6. Not modelled, and the plan

The order of what follows is by how much concurrency and failure is in it.

| Module | Sources | States and properties | Kind |
|---|---|---|---|
| `AgentAuthority` | `terminal/state.rs` | reports of several sources, detection, exit | state machine |
| `Worktrees` | `app/worktrees.rs`, `app/api/worktrees/deferred.rs` | operations on worker threads against a changing session | state machine |
| `TeamSpawn` | `app/api/team.rs` | composition over `Session`, rollback restores the session | action property |
| `Addressing` | `msg.rs`, `app/api/msg.rs` | `resolve` against a reference definition | pure operators |
| `LayoutTree` | `layout.rs` | the split tree refines the pane order of `Workspaces`; swap, balance | refinement |
| `Subscriptions` | `api/subscriptions.rs`, `api/wait.rs`, `api/server.rs` | output, status and lifecycle subscriptions, late answers, waits with deadlines | state machine, liveness |

Within the modelled parts: kitty graphics, frames over 2 MiB, clipboard files, themes and
the handshake of clients; the emulator and scrollback behind a PTY actor and chunks that are cut short; labels, directories, the
sidebar and resumed agents of a saved session; the split tree with its ratios.

Not planned: agent detection (its correctness is in its manifests), plugins,
integrations, configuration, update, user interface, platform code and the vendored
emulator: input and output, formats and rendering, with no protocol between parts.
