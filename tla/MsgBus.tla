------------------------------- MODULE MsgBus -------------------------------
(***************************************************************************)
(* The server-side message bus of src/msg.rs: one bounded inbox per pane   *)
(* id, an acknowledgement cursor per inbox, and named groups indexed both  *)
(* by pane and by group.                                                   *)
(*                                                                         *)
(* The bus is one value, the record `bus`, owned by the application        *)
(* thread; every method of `impl MsgBus` that takes &mut self is an        *)
(* operator on that record and one action of Next.  A message keeps what   *)
(* the bus looks at: its sequence number and the size of its body.         *)
(*                                                                         *)
(* An operator whose name extends the next one's (drop_oldest_uncounted)   *)
(* is that operator with a plausible slip in it.  Nothing uses it; it      *)
(* shows, put in the place of the right one, that a property notices.      *)
(***************************************************************************)
EXTENDS Naturals, Sequences, PartialMaps

CONSTANTS
  PaneIds,      \* canonical public pane ids, the keys of the bus
  Groups,       \* group names that validate_group_name accepts
  Sizes,        \* the body sizes that senders use
  MaxMessages,  \* MAX_INBOX_MESSAGES (500)
  MaxBytes,     \* MAX_INBOX_BODY_BYTES (4 MiB)
  MaxBody,      \* MAX_MESSAGE_BODY_BYTES (64 KiB)
  MaxSeq        \* bound of the model: deliveries one inbox may receive

ASSUME SizesAssumption == Sizes \subseteq Nat
ASSUME CapsAssumption ==
  /\ MaxMessages \in Nat \ {0}
  /\ MaxBody \in Nat /\ MaxBytes \in Nat
  /\ MaxBody <= MaxBytes
ASSUME MaxSeqAssumption == MaxSeq \in Nat

VARIABLE bus

-----------------------------------------------------------------------------
SaturatingSub(a, b) == IF b <= a THEN a - b ELSE 0

Message == [seq : Nat \ {0}, size : Nat]

Inbox == [messages : Seq(Message), next_seq : Nat \ {0}, ack_seq : Nat,
          dropped : Nat, total_body_bytes : Nat]

NewInbox == [messages |-> <<>>, next_seq |-> 1, ack_seq |-> 0,
             dropped |-> 0, total_body_bytes |-> 0]

NewBus == [inboxes |-> <<>>, pane_groups |-> <<>>, group_members |-> <<>>]

-----------------------------------------------------------------------------
(* One inbox.                                                              *)

newest_seq(i) == IF i.messages = <<>> THEN 0 ELSE i.messages[Len(i.messages)].seq

\* Sequence numbers of the messages of i behind position `after`.
SeqsAfter(i, after) ==
  {i.messages[k].seq : k \in {j \in 1..Len(i.messages) : i.messages[j].seq > after}}

\* Inbox::unread counts these messages.
UnreadSeqs(i) == SeqsAfter(i, i.ack_seq)

drop_oldest_uncounted(i) ==
  IF i.messages = <<>> THEN i
  ELSE [i EXCEPT !.messages = Tail(@),
                 !.total_body_bytes = SaturatingSub(@, Head(i.messages).size)]

drop_oldest(i) ==
  IF i.messages = <<>> THEN i
  ELSE [i EXCEPT !.messages = Tail(@),
                 !.total_body_bytes = SaturatingSub(@, Head(i.messages).size),
                 !.dropped = @ + 1]

OverCaps(i) == \/ Len(i.messages) > MaxMessages
               \/ i.total_body_bytes > MaxBytes

\* The loop of enforce_caps: the inbox after k turns of it.
Dropping(i) ==
  LET after[k \in 0..Len(i.messages)] ==
        IF k = 0 THEN i ELSE drop_oldest(after[k - 1])
  IN  after

\* The loop stops at the first turn that finds the caps met or nothing left.
Stops(i, k) == \/ ~OverCaps(Dropping(i)[k])
               \/ Dropping(i)[k].messages = <<>>

enforce_caps_once(i) == IF OverCaps(i) THEN drop_oldest(i) ELSE i

enforce_caps(i) ==
  Dropping(i)[CHOOSE k \in 0..Len(i.messages) :
                /\ Stops(i, k)
                /\ \A j \in 0..(k - 1) : ~Stops(i, j)]

\* The part of MsgBus::deliver in front of enforce_caps: the inbox numbers
\* the message itself, whatever seq the caller wrote into it.
push_back(i, size) ==
  [i EXCEPT !.messages = Append(@, [seq |-> i.next_seq, size |-> size]),
            !.next_seq = @ + 1,
            !.total_body_bytes = @ + size]

ack_inbox_unclamped(i, up_to_seq) ==
  IF up_to_seq > i.ack_seq THEN [i EXCEPT !.ack_seq = up_to_seq] ELSE i

ack_inbox(i, up_to_seq) ==
  LET clamped == IF up_to_seq <= newest_seq(i) THEN up_to_seq ELSE newest_seq(i)
  IN  IF clamped > i.ack_seq THEN [i EXCEPT !.ack_seq = clamped] ELSE i

-----------------------------------------------------------------------------
(* The methods of MsgBus, on the record b.                                 *)

InboxOf(b, p) == Get(b.inboxes, p, NewInbox)

\* deliver refuses a body over MaxBody; see Deliver for the guard.
deliver(b, p, size) ==
  [b EXCEPT !.inboxes = Put(@, p, enforce_caps(push_back(InboxOf(b, p), size)))]

\* The sequence numbers that list returns; it changes nothing.
list(b, p, after_seq, include_read) ==
  {seq \in SeqsAfter(InboxOf(b, p), after_seq) :
     include_read \/ seq > InboxOf(b, p).ack_seq}

ack(b, p, up_to_seq) ==
  IF p \in DOMAIN b.inboxes
  THEN [b EXCEPT !.inboxes[p] = ack_inbox(@, up_to_seq)]
  ELSE b

group_join_swapped(b, p, g) ==
  [b EXCEPT !.group_members = Put(@, p, Get(@, p, {}) \cup {g}),
            !.pane_groups = Put(@, g, Get(@, g, {}) \cup {p})]

group_join(b, p, g) ==
  [b EXCEPT !.group_members = Put(@, g, Get(@, g, {}) \cup {p}),
            !.pane_groups = Put(@, p, Get(@, p, {}) \cup {g})]

\* Take x out of the set f[k], and k out of f when nothing is left in it.
RemoveFrom(f, k, x) ==
  IF k \notin DOMAIN f THEN f
  ELSE IF f[k] \ {x} = {} THEN Without(f, k)
  ELSE [f EXCEPT ![k] = @ \ {x}]

group_leave(b, p, g) ==
  [b EXCEPT !.group_members = RemoveFrom(@, g, p),
            !.pane_groups = RemoveFrom(@, p, g)]

remove_pane_keeps_inbox(b, p) ==
  [b EXCEPT !.pane_groups = Without(@, p),
            !.group_members =
              [g \in {h \in DOMAIN @ : @[h] # {p}} |-> @[g] \ {p}]]

\* The groups that remove_pane leaves behind: it visits only the groups the
\* pane's own entry names, and deletes those it empties.
remove_pane(b, p) ==
  LET mine == Get(b.pane_groups, p, {})
      left(g) == IF g \in mine THEN b.group_members[g] \ {p}
                               ELSE b.group_members[g]
  IN  [inboxes |-> Without(b.inboxes, p),
       pane_groups |-> Without(b.pane_groups, p),
       group_members |->
         [g \in {h \in DOMAIN b.group_members : h \in mine => left(h) # {}}
            |-> left(g)]]

rekey_pane_onto_leftovers(b, old, new) ==
  IF old = new THEN b
  ELSE LET mine == Get(b.pane_groups, old, {})
       IN  [inboxes |-> MoveKey(b.inboxes, old, new),
            pane_groups |-> MoveKey(b.pane_groups, old, new),
            group_members |->
              [g \in DOMAIN b.group_members |->
                 IF g \in mine THEN (b.group_members[g] \ {old}) \cup {new}
                               ELSE b.group_members[g]]]

rekey_pane(b, old, new) ==
  IF old = new THEN b
  ELSE LET c == remove_pane(b, new)
           mine == Get(c.pane_groups, old, {})
       IN  [inboxes |-> MoveKey(c.inboxes, old, new),
            pane_groups |-> MoveKey(c.pane_groups, old, new),
            group_members |->
              [g \in DOMAIN c.group_members |->
                 IF g \in mine THEN (c.group_members[g] \ {old}) \cup {new}
                               ELSE c.group_members[g]]]

-----------------------------------------------------------------------------
(* The bus as a state machine: its methods in any order, for any pane.     *)

Init == bus = NewBus

Deliver(p, size) ==
  /\ size <= MaxBody
  /\ InboxOf(bus, p).next_seq <= MaxSeq
  /\ bus' = deliver(bus, p, size)

Ack(p, up_to_seq) == bus' = ack(bus, p, up_to_seq)
GroupJoin(p, g) == bus' = group_join(bus, p, g)
GroupLeave(p, g) == bus' = group_leave(bus, p, g)
RekeyPane(old, new) == bus' = rekey_pane(bus, old, new)
RemovePane(p) == bus' = remove_pane(bus, p)

Next == \E p \in PaneIds :
  \/ \E size \in Sizes : Deliver(p, size)
  \/ \E up_to_seq \in 0..(MaxSeq + 1) : Ack(p, up_to_seq)
  \/ \E g \in Groups : GroupJoin(p, g)
  \/ \E g \in Groups : GroupLeave(p, g)
  \/ \E new \in PaneIds : RekeyPane(p, new)
  \/ RemovePane(p)

Spec == Init /\ [][Next]_bus

-----------------------------------------------------------------------------
(* Properties.                                                             *)

\* The bus maps pane ids to inboxes and to their groups, and groups to panes.
TypeOK ==
  /\ bus = [inboxes |-> bus.inboxes, pane_groups |-> bus.pane_groups,
             group_members |-> bus.group_members]
  /\ DOMAIN bus.inboxes \subseteq PaneIds
  /\ \A p \in DOMAIN bus.inboxes : bus.inboxes[p] \in Inbox
  /\ DOMAIN bus.pane_groups \subseteq PaneIds
  /\ \A p \in DOMAIN bus.pane_groups : bus.pane_groups[p] \subseteq Groups
  /\ DOMAIN bus.group_members \subseteq Groups
  /\ \A g \in DOMAIN bus.group_members : bus.group_members[g] \subseteq PaneIds

\* No message is lost without being counted: the retained messages carry
\* consecutive numbers, the first one follows the dropped ones and the last
\* one precedes next_seq (deliver, drop_oldest).
Accounted(i) ==
  /\ i.next_seq = i.dropped + Len(i.messages) + 1
  /\ \A k \in 1..Len(i.messages) : i.messages[k].seq = i.dropped + k
SeqAccounting == \A p \in DOMAIN bus.inboxes : Accounted(bus.inboxes[p])

\* An inbox that exists keeps its newest message whatever the caps dropped,
\* and the read cursor is never in front of it: what arrives next is unread,
\* even after an ack for a number that was not handed out (ack, enforce_caps).
CursorBehind(i) == i.messages # <<>> /\ i.ack_seq <= newest_seq(i)
NothingReadAhead == \A p \in DOMAIN bus.inboxes : CursorBehind(bus.inboxes[p])

\* total_body_bytes is a counter beside the queue; it equals the bytes queued,
\* so the caps it is compared with bound the queue itself (enforce_caps).
NewestBytes(s) ==   \* the bytes of the newest k messages of the queue s
  LET sum[k \in 0..Len(s)] ==
        IF k = 0 THEN 0 ELSE sum[k - 1] + s[Len(s) - k + 1].size
  IN  sum
QueuedBytes(i) == NewestBytes(i.messages)[Len(i.messages)]
BytesExact(i) == i.total_body_bytes = QueuedBytes(i)
CapsHold == \A p \in DOMAIN bus.inboxes :
  BytesExact(bus.inboxes[p]) /\ ~OverCaps(bus.inboxes[p])

\* The index by pane and the index by group describe one membership relation,
\* and neither keeps an empty entry (group_join, group_leave, rekey_pane,
\* remove_pane update them separately).
IndexesAgree ==
  /\ \A p \in PaneIds, g \in Groups :
       g \in Get(bus.pane_groups, p, {}) <=> p \in Get(bus.group_members, g, {})
  /\ \A p \in DOMAIN bus.pane_groups : bus.pane_groups[p] # {}
  /\ \A g \in DOMAIN bus.group_members : bus.group_members[g] # {}

\* The bus implements the mailboxes its users are promised.
BoxOf(i) == [sent |-> i.next_seq - 1, lost |-> i.dropped, read |-> i.ack_seq]
mail_box == [p \in PaneIds |-> BoxOf(InboxOf(bus, p))]
mail_member ==
  {m \in PaneIds \X Groups : m[1] \in Get(bus.group_members, m[2], {})}

Mail == INSTANCE Mailboxes WITH box <- mail_box, member <- mail_member

\* Every step of the bus is one step of the mailboxes or none: a send loses
\* only older messages, an ack moves one cursor, a re-keyed pane keeps its
\* mailbox and groups, a removed pane leaves nothing under its id.
ImplementsMailboxes == Mail!MailSpec

=============================================================================
