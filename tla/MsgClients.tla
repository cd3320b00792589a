----------------------------- MODULE MsgClients -----------------------------
(***************************************************************************)
(* One pane's mailbox as its clients use it: `herdr msg wait` and          *)
(* `herdr msg read` (src/cli/msg.rs) talking to the server over the API    *)
(* socket while the pane is sent messages, moved to another workspace      *)
(* or closed.                                                              *)
(*                                                                         *)
(* The actors are the application thread, which serves one request at a    *)
(* time; the connection thread that streams a subscription                 *)
(* (stream_subscriptions, ActiveMsgReceivedSubscription); and the client   *)
(* processes.  A request and its answer are one step at the moment the     *)
(* application thread serves it: what the client does with the answer      *)
(* touches nothing shared until its next request.  A broadcast delivers to *)
(* its recipients one by one, and the hub can be read in between; the      *)
(* other recipients' events are the steps OtherEvent.                      *)
(*                                                                         *)
(* An operator whose name extends another's (Tick_never)                   *)
(* is that operator with a plausible slip in it.  Nothing uses it; it      *)
(* shows, put in the place of the right one, that a property notices.      *)
(***************************************************************************)
EXTENDS EventHub, FiniteSets

CONSTANTS
  PaneIds, Sizes, MaxMessages, MaxBytes, MaxBody, MaxSeq,  \* as in MsgBus
  Home,         \* the id the clients know the pane by (HERDR_PANE_ID)
  Readers,      \* processes running `herdr msg read`
  MaxEventSeq   \* bound of the model: events the hub may number

ASSUME ClientsAssumption ==
  /\ Home \in PaneIds
  /\ MaxEventSeq \in Nat

\* What MsgBus assumes of its constants.
ASSUME BusAssumption ==
  /\ Sizes \subseteq Nat
  /\ MaxMessages \in Nat \ {0}
  /\ {MaxBytes, MaxBody, MaxSeq} \subseteq Nat /\ MaxBody <= MaxBytes

VARIABLES
  bus,      \* the message bus, owned by the application thread
  hub,      \* the event hub, shared under its mutex
  me,       \* the pane's canonical id, or "closed"
  past,     \* ids it had before: the keys of public_pane_id_aliases
  running,  \* the server's `running` flag
  sub,      \* the subscription, and the lines in its socket and channel
  wait,     \* the `msg wait` process, with or without --timeout
  reading,  \* per reader, the seq it is about to ack, or 0
  shown,    \* history: seqs that some `msg read` displayed
  acked     \* history: seqs covered by an explicit msg.ack

vars == <<bus, hub, me, past, running, sub, wait, reading, shown, acked>>
app == <<bus, hub, me, past, running>>
readers == <<reading, shown, acked>>

Bus == INSTANCE MsgBus WITH Groups <- {}

-----------------------------------------------------------------------------
(* What the application thread sees.                                       *)

inbox == Bus!InboxOf(bus, me)
Highest(seqs) == CHOOSE s \in seqs \cup {0} : \A t \in seqs : t <= s

\* canonical_pane_id(Home): the id itself or its alias leads to the pane
\* as long as the pane lives, and the server answers.
Answers == running /\ me # "closed" /\ Home \in past \cup {me}
Refuses == ~Answers

MsgReceived(pane_id, seq) == [kind |-> "msg_received", pane_id |-> pane_id, seq |-> seq]
Other == [kind |-> "other", pane_id |-> "none", seq |-> 0]

Init ==
  /\ bus = Bus!NewBus /\ hub = NewHub
  /\ me = Home /\ past = {} /\ running = TRUE
  /\ sub = [state |-> "none", pane_id |-> "none", last_sequence |-> 0, lines |-> 0]
  /\ wait \in [pc : {"subscribing"}, last_seq : {0}, printed : {{}}, result : {"none"},
               deadline : BOOLEAN, expired : {FALSE}, reader_gone : {FALSE}]
  /\ reading = [r \in Readers |-> 0]
  /\ shown = {} /\ acked = {}

-----------------------------------------------------------------------------
(* Requests of others that the application thread serves.                  *)

\* One recipient's turn of the loop in handle_msg_send: deliver, then tell
\* the hub under the id the pane has now.
Send(size) ==
  /\ running /\ me # "closed"
  /\ size <= MaxBody
  /\ inbox.next_seq <= MaxSeq
  /\ bus' = Bus!deliver(bus, me, size)
  /\ hub' = push(hub, MsgReceived(me, inbox.next_seq))
  /\ UNCHANGED <<me, past, running, sub, wait, readers>>

\* Any other event: messages for other panes, focus, output, layout ...
OtherEvent ==
  /\ running
  /\ hub.next_sequence < MaxEventSeq
  /\ hub' = push(hub, Other)
  /\ UNCHANGED <<bus, me, past, running, sub, wait, readers>>

MovePane_strands_inbox(new) ==
  /\ running /\ me # "closed"
  /\ new \notin past \cup {me}
  /\ past' = past \cup {me}
  /\ me' = new
  /\ hub' = push(hub, Other)
  /\ UNCHANGED <<bus, running, sub, wait, readers>>

\* handle_pane_move to another workspace, where the pane gets a number that
\* was never used: alias, re-key, event.
MovePane(new) ==
  /\ running /\ me # "closed"
  /\ new \notin past \cup {me}
  /\ past' = past \cup {me}
  /\ me' = new
  /\ bus' = Bus!rekey_pane(bus, me, new)
  /\ hub' = push(hub, Other)
  /\ UNCHANGED <<running, sub, wait, readers>>

\* close_pane; the aliases of the pane stay behind.
ClosePane ==
  /\ running /\ me # "closed"
  /\ bus' = Bus!remove_pane(bus, me)
  /\ me' = "closed"
  /\ hub' = push(hub, Other)
  /\ UNCHANGED <<past, running, sub, wait, readers>>

\* `herdr msg ack SEQ`.
AckRequest(up_to_seq) ==
  /\ Answers
  /\ bus' = Bus!ack(bus, me, up_to_seq)
  /\ acked' = acked \cup {s \in 1..up_to_seq : s < inbox.next_seq}
  /\ UNCHANGED <<hub, me, past, running, sub, wait, reading, shown>>

ServerStops ==
  /\ running
  /\ running' = FALSE
  /\ UNCHANGED <<bus, hub, me, past, sub, wait, readers>>

-----------------------------------------------------------------------------
(* The connection thread that serves the subscription.                     *)

\* ActiveSubscription::new asks the application thread which pane is meant.
Probe ==
  /\ sub.state = "none"
  /\ sub' = IF Answers THEN [sub EXCEPT !.state = "probed", !.pane_id = me]
                       ELSE [sub EXCEPT !.state = "refused"]
  /\ UNCHANGED <<app, wait, readers>>

\* pane_get has no answer after APP_RESPONSE_TIMEOUT (or none can come: the
\* application thread is gone), which is an error line for the client.
ProbeTimesOut ==
  /\ sub.state = "none"
  /\ sub' = [sub EXCEPT !.state = "refused"]
  /\ UNCHANGED <<app, wait, readers>>

\* ... then reads where the hub is, and writes the SubscriptionStarted line.
TakeCursor ==
  /\ sub.state = "probed"
  /\ sub' = [sub EXCEPT !.state = "open", !.last_sequence = current_sequence(hub)]
  /\ UNCHANGED <<app, wait, readers>>

\* ActiveMsgReceivedSubscription::poll: walk the events behind the cursor up
\* to the first of this pane, and write one line for it.
StreamPoll ==
  LET later == events_after(hub, sub.last_sequence)
      hits == {k \in later : /\ hub.events[k].event.kind = "msg_received"
                             /\ hub.events[k].event.pane_id = sub.pane_id}
  IN  /\ sub.state = "open" /\ running
      /\ \/ \E k \in hits :
              /\ \A j \in hits : k <= j
              /\ sub' = [sub EXCEPT !.last_sequence = hub.events[k].sequence,
                                    !.lines = @ + 1]
         \/ /\ hits = {}
            /\ \E k \in later :
                 /\ \A j \in later : j <= k
                 /\ sub' = [sub EXCEPT !.last_sequence = hub.events[k].sequence]
      /\ UNCHANGED <<app, wait, readers>>

\* should_stop_connection: the server stops, or the client is gone.
StreamStops ==
  /\ sub.state = "open"
  /\ ~running \/ wait.pc = "done"
  /\ sub' = [sub EXCEPT !.state = "closed"]
  /\ UNCHANGED <<app, wait, readers>>

-----------------------------------------------------------------------------
(* `herdr msg wait`.                                                       *)

Finish(result, printed) ==
  wait' = [wait EXCEPT !.pc = "done", !.result = result, !.printed = printed]

\* subscribe_value returns the ack, whatever became of the stream behind it ...
Subscribed ==
  /\ wait.pc = "subscribing"
  /\ sub.state \in {"open", "closed"}
  /\ wait' = [wait EXCEPT !.pc = "baseline"]
  /\ UNCHANGED <<app, sub, readers>>

\* ... or an error line, or nothing within the socket's read timeout, which is
\* --timeout and set before the ack is read: the wait ends with an error.
NotSubscribed ==
  /\ wait.pc = "subscribing"
  /\ sub.state = "refused" \/ (wait.deadline /\ wait.expired)
  /\ Finish("unsubscribed", {})
  /\ UNCHANGED <<app, sub, readers>>

baseline_unread_ignored(messages) == {}
baseline_unread(messages) == {s \in messages : s > inbox.ack_seq}

\* The first msg.list, after the subscription has started.
Baseline ==
  LET messages == Bus!list(bus, me, 0, TRUE)
      unread == baseline_unread(messages)
  IN  /\ wait.pc = "baseline"
      /\ \/ Refuses /\ Finish("error", {})
         \/ Answers /\ unread # {} /\ Finish("ok", unread)
         \/ /\ Answers /\ unread = {}
            /\ wait' = [wait EXCEPT !.pc = "waiting", !.last_seq = Highest(messages)]
      /\ UNCHANGED <<app, sub, readers>>

\* recv_timeout returns a line that the reader thread forwarded ...
Wake ==
  /\ wait.pc = "waiting" /\ ~wait.reader_gone
  /\ sub.lines > 0
  /\ sub' = [sub EXCEPT !.lines = @ - 1]
  /\ wait' = [wait EXCEPT !.pc = "listing"]
  /\ UNCHANGED <<app, readers>>

Tick_never ==
  /\ wait.pc = "waiting" /\ wait.reader_gone
  /\ wait' = [wait EXCEPT !.pc = "listing"]
  /\ UNCHANGED <<app, sub, readers>>

\* ... or WAIT_POLL_INTERVAL passed (or the channel is disconnected) ...
Tick ==
  /\ wait.pc = "waiting"
  /\ wait' = [wait EXCEPT !.pc = "listing"]
  /\ UNCHANGED <<app, sub, readers>>

\* ... or the end of the stream, which is an error ...
Closed ==
  /\ wait.pc = "waiting" /\ ~wait.reader_gone
  /\ sub.state = "closed" /\ sub.lines = 0
  /\ Finish("error", {})
  /\ UNCHANGED <<app, sub, readers>>

\* ... or the socket's read timeout, set to --timeout, which ends the reader
\* thread but not the wait.
SocketTimeout ==
  /\ wait.pc = "waiting" /\ ~wait.reader_gone
  /\ wait.deadline /\ wait.expired
  /\ sub.state = "open" /\ sub.lines = 0
  /\ wait' = [wait EXCEPT !.pc = "listing", !.reader_gone = TRUE]
  /\ UNCHANGED <<app, sub, readers>>

\* Whatever woke it up, the wait lists what is behind its baseline.
Listing ==
  LET new == Bus!list(bus, me, wait.last_seq, TRUE)
  IN  /\ wait.pc = "listing"
      /\ \/ Refuses /\ Finish("error", {})
         \/ Answers /\ new # {} /\ Finish("ok", new)
         \/ Answers /\ new = {} /\ wait' = [wait EXCEPT !.pc = "deadline"]
      /\ UNCHANGED <<app, sub, readers>>

CheckDeadline_when_quiet ==
  /\ wait.pc = "deadline"
  /\ IF wait.deadline /\ wait.expired /\ sub.lines = 0
     THEN Finish("timeout", {})
     ELSE wait' = [wait EXCEPT !.pc = "waiting"]
  /\ UNCHANGED <<app, sub, readers>>

CheckDeadline ==
  /\ wait.pc = "deadline"
  /\ IF wait.deadline /\ wait.expired
     THEN Finish("timeout", {})
     ELSE wait' = [wait EXCEPT !.pc = "waiting"]
  /\ UNCHANGED <<app, sub, readers>>

DeadlinePasses ==
  /\ wait.deadline /\ ~wait.expired /\ wait.pc # "done"
  /\ wait' = [wait EXCEPT !.expired = TRUE]
  /\ UNCHANGED <<app, sub, readers>>

-----------------------------------------------------------------------------
(* `herdr msg read`: msg.list, display, msg.ack, as two requests.          *)

read_auto_ack_seq_always(after_given, highest) == highest

\* What is displayed with --after is not acked.
read_auto_ack_seq(after_given, highest) == IF after_given THEN 0 ELSE highest

ReadList(r, after_given, after_seq, all) ==
  LET messages == Bus!list(bus, me, after_seq, all)
  IN  /\ reading[r] = 0
      /\ Answers
      /\ shown' = shown \cup messages
      /\ reading' = [reading EXCEPT ![r] =
                       read_auto_ack_seq(after_given, Highest(messages))]
      /\ UNCHANGED <<app, sub, wait, acked>>

ReadAck(r) ==
  /\ reading[r] > 0
  /\ bus' = IF Answers THEN Bus!ack(bus, me, reading[r]) ELSE bus
  /\ reading' = [reading EXCEPT ![r] = 0]
  /\ UNCHANGED <<hub, me, past, running, sub, wait, shown, acked>>

-----------------------------------------------------------------------------

AppStep ==
  \/ \E size \in Sizes : Send(size)
  \/ OtherEvent
  \/ \E new \in PaneIds : MovePane(new)
  \/ ClosePane
  \/ \E up_to_seq \in 1..(MaxSeq + 1) : AckRequest(up_to_seq)
  \/ ServerStops

SubscribeStep == Probe \/ ProbeTimesOut \/ TakeCursor

StreamStep == StreamPoll \/ StreamStops

WaitStep ==
  \/ Subscribed \/ NotSubscribed \/ Baseline
  \/ Wake \/ Tick \/ Closed \/ SocketTimeout
  \/ Listing \/ CheckDeadline

ReadStep == \E r \in Readers :
  \/ \E all \in BOOLEAN :
       \/ ReadList(r, FALSE, 0, all)
       \/ \E after_seq \in 0..MaxSeq : ReadList(r, TRUE, after_seq, all)
  \/ ReadAck(r)

Next == AppStep \/ SubscribeStep \/ StreamStep \/ WaitStep \/ DeadlinePasses \/ ReadStep

\* The client runs whenever it can, the application thread serves every
\* request in turn, a subscription is opened or refused (its probe waits at
\* most APP_RESPONSE_TIMEOUT), and time passes.  Nothing is assumed of the
\* stream after that: it is only a hint.
Fairness ==
  /\ WF_vars(WaitStep) /\ WF_vars(DeadlinePasses)
  /\ WF_vars(SubscribeStep)

Spec == Init /\ [][Next]_vars /\ Fairness

-----------------------------------------------------------------------------
(* Properties.                                                             *)

TypeOK ==
  /\ bus = [inboxes |-> bus.inboxes, pane_groups |-> <<>>, group_members |-> <<>>]
  /\ DOMAIN bus.inboxes \subseteq PaneIds \ past
  /\ me \in PaneIds \cup {"closed"} /\ past \subseteq PaneIds
  /\ running \in BOOLEAN
  /\ Len(hub.events) <= MaxEvents
  /\ sub.state \in {"none", "probed", "refused", "open", "closed"}
  /\ sub.pane_id \in PaneIds \cup {"none"}
  /\ sub.last_sequence \in 0..hub.next_sequence /\ sub.lines \in Nat
  /\ wait.pc \in {"subscribing", "baseline", "waiting", "listing", "deadline", "done"}
  /\ wait.result \in {"none", "unsubscribed", "ok", "error", "timeout"}
  /\ wait.last_seq \in 0..MaxSeq /\ wait.printed \subseteq 1..MaxSeq
  /\ {wait.deadline, wait.expired, wait.reader_gone} \subseteq BOOLEAN
  /\ reading \in [Readers -> 0..MaxSeq]
  /\ shown \subseteq 1..MaxSeq /\ acked \subseteq 1..MaxSeq

unread == IF me = "closed" THEN {} ELSE Bus!UnreadSeqs(inbox)

\* A message that is still in the inbox is marked read only if a reader
\* displayed it or somebody acked it by hand, whatever arrives, is evicted or
\* is acked between the two requests of `msg read` (read_auto_ack_seq).
ReadOnlyWhatWasShown ==
  me # "closed" =>
    \A s \in Bus!list(bus, me, 0, TRUE) : s <= inbox.ack_seq => s \in shown \cup acked

\* When `msg wait` succeeds it has printed something, and everything that is
\* unread at that moment, and nothing that is not in the inbox (msg_wait).
SucceedsOnce == wait.result = "none" /\ wait'.result = "ok"
WaitPrintsUnread ==
  [][SucceedsOnce => /\ wait'.printed # {}
                     /\ unread \subseteq wait'.printed
                     /\ wait'.printed \subseteq Bus!list(bus, me, 0, TRUE)]_vars

\* `msg wait` misses no message, even if its event was evicted from the hub,
\* or came between the steps of the subscription, or carried an id that the
\* pane got after it: an unread message ends the wait successfully, unless it
\* is read, the pane closed or the server stopped first, or the subscription
\* could not be opened in time, which the wait reports as an error.  A message
\* that comes between the last list and the deadline check may lose to the
\* deadline.
UnreadEndsWait ==
  (unread # {} /\ wait.pc \notin {"done", "deadline"})
    ~> \/ wait.result \in {"ok", "unsubscribed"}
       \/ unread = {} \/ me = "closed" \/ ~running

\* With --timeout the wait ends, however many events keep waking it.
WaitEnds == wait.deadline => <>(wait.pc = "done")

\* The comment at the head of msg_wait: "anything delivered after [the
\* baseline list] fires an event on the already-open subscription".
DeliveredFiresEvent ==
  wait.pc = "waiting" =>
    \A s \in Bus!list(bus, me, wait.last_seq, TRUE) :
      \/ sub.lines > 0
      \/ \E k \in DOMAIN hub.events :
           /\ hub.events[k].event = MsgReceived(sub.pane_id, s)
           /\ hub.events[k].sequence > sub.last_sequence

=============================================================================
