-------------------------- MODULE MsgClientsProofs --------------------------
(***************************************************************************)
(* Proofs about MsgClients, for any number of readers and every value of   *)
(* the caps.  What deliver and ack do to one inbox is proved in            *)
(* MsgBusProofs.                                                           *)
(***************************************************************************)
EXTENDS MsgClients, ProofLemmas

BusProofs == INSTANCE MsgBusProofs WITH Groups <- {}

-----------------------------------------------------------------------------
(* The inductive invariant.                                                *)

Event == [kind : {"msg_received", "other"}, pane_id : PaneIds \cup {"none"}, seq : Nat]
HubEvent == [sequence : Nat, event : Event]

\* The ring holds events that were numbered.
HubSound ==
  /\ hub = [next_sequence |-> hub.next_sequence, events |-> hub.events]
  /\ hub.next_sequence \in Nat
  /\ hub.events \in Seq(HubEvent) /\ Len(hub.events) <= MaxEvents
  /\ \A k \in DOMAIN hub.events : hub.events[k].sequence <= hub.next_sequence

Sub == [state : {"none", "probed", "refused", "open", "closed"},
        pane_id : PaneIds \cup {"none"}, last_sequence : Nat, lines : Nat]
Wait == [pc : {"subscribing", "baseline", "waiting", "listing", "deadline", "done"},
         last_seq : 0..MaxSeq, printed : SUBSET (1..MaxSeq),
         result : {"none", "unsubscribed", "ok", "error", "timeout"},
         deadline : BOOLEAN, expired : BOOLEAN, reader_gone : BOOLEAN]

Types ==
  /\ me \in PaneIds \cup {"closed"} /\ past \subseteq PaneIds /\ running \in BOOLEAN
  /\ me \notin past /\ "closed" \notin past
  /\ sub \in Sub /\ sub.last_sequence <= hub.next_sequence
  /\ wait \in Wait
  /\ reading \in [Readers -> 0..MaxSeq]
  /\ shown \subseteq 1..MaxSeq /\ acked \subseteq 1..MaxSeq

\* The bus keeps one inbox at most: the pane's, under the id it has now.
BusSound ==
  /\ bus = [inboxes |-> bus.inboxes, pane_groups |-> <<>>, group_members |-> <<>>]
  /\ DOMAIN bus.inboxes \subseteq PaneIds \cap {me}
  /\ \A p \in DOMAIN bus.inboxes : BusProofs!SoundInbox(bus.inboxes[p])
  /\ inbox.next_seq <= MaxSeq + 1

Retained == Bus!SeqsAfter(inbox, 0)

\* A wait that found nothing unread stays behind the read cursor, which never
\* goes back: what is unread is behind the wait's baseline.
WaitBehind ==
  me # "closed" /\ wait.pc \in {"waiting", "listing", "deadline"} =>
    wait.last_seq <= inbox.ack_seq

\* What a reader is about to ack was displayed, and everything in front of it
\* that is still there.
ReadersBehind ==
  me # "closed" =>
    \A r \in Readers :
      /\ reading[r] < inbox.next_seq
      /\ \A s \in Retained : s <= reading[r] => s \in shown \cup acked

ReadAreSeen ==
  me # "closed" =>
    \A s \in Retained : s <= inbox.ack_seq => s \in shown \cup acked

IInv == Types /\ HubSound /\ BusSound /\ WaitBehind /\ ReadersBehind /\ ReadAreSeen

-----------------------------------------------------------------------------
(* Maps without keys, and the highest number of a set.                     *)

\* Bus operations leave an index without entries as it is.
LEMMA NoGroups ==
  ASSUME NEW p, NEW q
  PROVE  Bus!Without(<<>>, p) = <<>> /\ Bus!MoveKey(<<>>, p, q) = <<>>
<1> DEFINE f == [x \in {} |-> <<>>[x]]
<1>1. f = <<>>
  BY EmptyMap
<1>2. Bus!Without(<<>>, p) = f
  <2>1. (DOMAIN <<>>) \ {p} = {}
    OBVIOUS
  <2> QED
    BY <2>1 DEF Bus!Without
<1> QED
  BY <1>1, <1>2 DEF Bus!MoveKey

\* A bounded set of numbers has a highest one, and without any it is 0.
LEMMA HighestIs ==
  ASSUME NEW n \in Nat, NEW seqs \in SUBSET (1..n)
  PROVE  /\ Highest(seqs) \in seqs \cup {0} /\ Highest(seqs) \in 0..n
         /\ \A s \in seqs : s <= Highest(seqs)
<1> DEFINE Distances == {d \in Nat : n - d \in seqs \cup {0}}
<1>1. n \in Distances
  OBVIOUS
<1>2. PICK d \in Distances : \A e \in 0..(d - 1) : e \notin Distances
  <2>1. Distances \in SUBSET Nat /\ Distances # {}
    BY <1>1
  <2> QED
    BY <2>1, BusProofs!LeastElement, BusAssumption
<1>3. n - d \in seqs \cup {0} /\ n - d \in 0..n
  BY <1>2
<1>4. ASSUME NEW t \in seqs \cup {0}, t > n - d PROVE FALSE
  <2>1. t \in 0..n /\ n - t \in 0..(d - 1) /\ n - (n - t) = t
    BY <1>4, <1>3, <1>2
  <2> QED
    BY <1>2, <2>1
<1>5. \A t \in seqs \cup {0} : t <= n - d
  BY <1>3, <1>4
<1>6. \E s \in seqs \cup {0} : \A t \in seqs : t <= s
  BY <1>3, <1>5
<1>7. Highest(seqs) \in seqs \cup {0} /\ \A t \in seqs : t <= Highest(seqs)
  BY <1>6 DEF Highest
<1>8. \A s \in seqs \cup {0} : s \in 0..n
  OBVIOUS
<1> HIDE DEF Distances
<1> QED
  BY <1>7, <1>8

-----------------------------------------------------------------------------
(* One inbox.                                                              *)

Sound(i) == BusProofs!SoundInbox(i) \/ i = Bus!NewInbox

\* The operator that MsgBusProofs speaks about is the one used here.
LEMMA SameCaps ==
  ASSUME NEW i
  PROVE  Bus!enforce_caps(i) = BusProofs!enforce_caps(i)
BY DEF Bus!enforce_caps, Bus!Dropping, Bus!Stops, Bus!OverCaps, Bus!drop_oldest,
       Bus!SaturatingSub,
       BusProofs!enforce_caps, BusProofs!Dropping, BusProofs!Stops,
       BusProofs!OverCaps, BusProofs!drop_oldest, BusProofs!SaturatingSub

\* The messages that an inbox keeps have consecutive numbers, up to the next
\* one, and the read cursor is behind that.
LEMMA Numbers ==
  ASSUME NEW i, Sound(i)
  PROVE  /\ i.next_seq \in Nat \ {0}
         /\ i.ack_seq \in 0..(i.next_seq - 1) /\ i.dropped \in 0..(i.next_seq - 1)
         /\ \A a \in Nat :
              Bus!SeqsAfter(i, a) = {s \in (i.dropped + 1)..(i.next_seq - 1) : s > a}
<1>1. CASE i = Bus!NewInbox
  <2>1. i.messages = <<>> /\ i.next_seq = 1 /\ i.ack_seq = 0 /\ i.dropped = 0
    BY <1>1 DEF Bus!NewInbox
  <2>2. \A a : Bus!SeqsAfter(i, a) = {}
    BY <2>1 DEF Bus!SeqsAfter
  <2> QED
    BY <2>1, <2>2
<1>2. CASE BusProofs!SoundInbox(i)
  <2>1. /\ i.messages \in Seq(BusProofs!Message) /\ i.next_seq \in Nat \ {0}
        /\ i.ack_seq \in Nat /\ i.dropped \in Nat
        /\ i.messages # <<>> /\ i.ack_seq <= BusProofs!newest_seq(i)
        /\ i.next_seq = i.dropped + Len(i.messages) + 1
        /\ \A k \in 1..Len(i.messages) : i.messages[k].seq = i.dropped + k
    BY <1>2 DEF BusProofs!SoundInbox, BusProofs!Inbox, BusProofs!Accounted,
                BusProofs!CursorBehind
  <2>2. Len(i.messages) \in Nat \ {0}
    BY <2>1, EmptySeq
  <2>3. i.ack_seq <= i.next_seq - 1
    <3>1. BusProofs!newest_seq(i) = i.messages[Len(i.messages)].seq
      BY <2>1 DEF BusProofs!newest_seq
    <3> QED
      BY <2>1, <2>2, <3>1
  <2>4. ASSUME NEW a \in Nat
        PROVE  Bus!SeqsAfter(i, a) = {s \in (i.dropped + 1)..(i.next_seq - 1) : s > a}
    <3>1. ASSUME NEW s \in (i.dropped + 1)..(i.next_seq - 1), s > a
          PROVE  s \in Bus!SeqsAfter(i, a)
      <4>1. s - i.dropped \in 1..Len(i.messages)
        BY <2>1, <2>2
      <4>2. i.messages[s - i.dropped].seq = s
        BY <2>1, <4>1
      <4> QED
        BY <3>1, <4>1, <4>2 DEF Bus!SeqsAfter
    <3>2. ASSUME NEW k \in 1..Len(i.messages)
          PROVE  i.messages[k].seq \in (i.dropped + 1)..(i.next_seq - 1)
      BY <2>1, <2>2
    <3> QED
      BY <3>1, <3>2 DEF Bus!SeqsAfter
  <2> QED
    BY <2>1, <2>2, <2>3, <2>4
<1> QED
  BY <1>1, <1>2 DEF Sound

\* deliver gives the message the next number, and may drop older ones.
LEMMA Delivered ==
  ASSUME NEW i, Sound(i), NEW size \in Nat, size <= MaxBody
  PROVE  LET r == Bus!enforce_caps(Bus!push_back(i, size)) IN
         /\ BusProofs!SoundInbox(r)
         /\ r.next_seq = i.next_seq + 1 /\ r.ack_seq = i.ack_seq
         /\ r.dropped \in i.dropped..(i.next_seq - 1)
<1>1. Bus!push_back(i, size) = BusProofs!push_back(i, size)
  BY DEF Bus!push_back, BusProofs!push_back
<1>2. Bus!NewInbox = BusProofs!NewInbox
  BY DEF Bus!NewInbox, BusProofs!NewInbox
<1>3. LET r == BusProofs!enforce_caps(BusProofs!push_back(i, size)) IN
      /\ BusProofs!SoundInbox(r)
      /\ r.next_seq = i.next_seq + 1 /\ r.ack_seq = i.ack_seq
      /\ r.dropped \in i.dropped..(i.next_seq - 1)
  <2>1. BusProofs!SoundInbox(i) \/ i = BusProofs!NewInbox
    BY <1>2 DEF Sound
  <2>2. i \in BusProofs!Inbox
    <3>1. <<>> \in Seq(BusProofs!Message)
      BY EmptySeq
    <3>2. BusProofs!NewInbox \in BusProofs!Inbox
      BY <3>1 DEF BusProofs!NewInbox, BusProofs!Inbox
    <3> QED
      BY <2>1, <3>2 DEF BusProofs!SoundInbox
  <2> QED
    BY <2>1, <2>2, BusProofs!DeliverSound, BusAssumption
<1> QED
  BY <1>1, <1>3, SameCaps

\* ack moves the cursor to no message behind the number it is given.
LEMMA Acknowledged ==
  ASSUME NEW i, BusProofs!SoundInbox(i), NEW n \in Nat
  PROVE  LET r == Bus!ack_inbox(i, n) IN
         /\ BusProofs!SoundInbox(r)
         /\ r.next_seq = i.next_seq /\ r.dropped = i.dropped
         /\ r.ack_seq \in i.ack_seq..(i.next_seq - 1)
         /\ r.ack_seq = i.ack_seq \/ r.ack_seq <= n
<1>1. Bus!ack_inbox(i, n) = BusProofs!ack_inbox(i, n)
  BY DEF Bus!ack_inbox, Bus!newest_seq, BusProofs!ack_inbox, BusProofs!newest_seq
<1>2. LET r == BusProofs!ack_inbox(i, n) IN
      /\ BusProofs!SoundInbox(r)
      /\ r.next_seq = i.next_seq /\ r.dropped = i.dropped
      /\ r.ack_seq \in i.ack_seq..(i.next_seq - 1)
  BY BusProofs!AckSound, BusAssumption
<1> DEFINE clamped == IF n <= Bus!newest_seq(i) THEN n ELSE Bus!newest_seq(i)
           r == Bus!ack_inbox(i, n)
<1>3. r.ack_seq = i.ack_seq \/ r.ack_seq = clamped
  BY DEF Bus!ack_inbox, BusProofs!SoundInbox, BusProofs!Inbox
<1>4. Bus!newest_seq(i) \in Nat
  <2>1. Bus!newest_seq(i) = BusProofs!newest_seq(i)
    BY DEF Bus!newest_seq, BusProofs!newest_seq
  <2>2. i.messages \in Seq(BusProofs!Message)
    BY DEF BusProofs!SoundInbox, BusProofs!Inbox
  <2>3. i.messages # <<>> => i.messages[Len(i.messages)] \in BusProofs!Message
    BY <2>2, EmptySeq
  <2> QED
    BY <2>3 DEF Bus!newest_seq, BusProofs!Message
<1>5. clamped <= n
  BY <1>4
<1> HIDE DEF clamped
<1> QED
  BY <1>1, <1>2, <1>3, <1>5

-----------------------------------------------------------------------------
(* The pane's inbox under the steps that touch it.                         *)

\* The inbox is sound, and what it keeps is what `msg.list` can show.
LEMMA InboxIsSound ==
  ASSUME IInv
  PROVE  /\ Sound(inbox)
         /\ Retained = (inbox.dropped + 1)..(inbox.next_seq - 1)
         /\ Retained \subseteq 1..MaxSeq
         /\ \A after \in Nat : \A all \in BOOLEAN :
              Bus!list(bus, me, after, all) =
                {s \in Retained : s > after /\ (all \/ s > inbox.ack_seq)}
<1>1. Sound(inbox)
  BY DEF IInv, BusSound, inbox, Bus!InboxOf, Bus!Get, Sound
<1>2. /\ inbox.next_seq \in Nat \ {0} /\ inbox.next_seq <= MaxSeq + 1
      /\ inbox.dropped \in 0..(inbox.next_seq - 1)
      /\ \A a \in Nat : Bus!SeqsAfter(inbox, a) =
           {s \in (inbox.dropped + 1)..(inbox.next_seq - 1) : s > a}
  BY <1>1, Numbers DEF IInv, BusSound
<1>3. Retained = (inbox.dropped + 1)..(inbox.next_seq - 1)
  <2> DEFINE all == (inbox.dropped + 1)..(inbox.next_seq - 1)
  <2>1. \A s \in all : s > 0
    BY <1>2
  <2>2. Retained = {s \in all : s > 0}
    BY <1>2, 0 \in Nat DEF Retained
  <2> HIDE DEF all
  <2>3. Retained = all
    BY <2>1, <2>2
  <2> QED
    BY <2>3 DEF all
<1>4. \A after \in Nat : Bus!SeqsAfter(inbox, after) = {s \in Retained : s > after}
  BY <1>2, <1>3
<1>5. ASSUME NEW after \in Nat, NEW all \in BOOLEAN
      PROVE  Bus!list(bus, me, after, all) =
               {s \in Retained : s > after /\ (all \/ s > inbox.ack_seq)}
  <2>1. Bus!list(bus, me, after, all) =
          {s \in Bus!SeqsAfter(inbox, after) : all \/ s > inbox.ack_seq}
    BY DEF Bus!list, inbox
  <2> QED
    BY <1>4, <2>1
<1> QED
  BY <1>1, <1>2, <1>3, <1>5, BusAssumption

\* Steps that touch neither the bus nor the pane's id.
LEMMA InboxStays ==
  ASSUME UNCHANGED <<bus, me>>
  PROVE  inbox' = inbox /\ Retained' = Retained /\ (BusSound => BusSound')
<1>1. inbox' = inbox
  BY DEF inbox, Bus!InboxOf, Bus!Get, Bus!NewInbox
<1> QED
  BY <1>1 DEF Retained, Bus!SeqsAfter, BusSound

\* One inbox is replaced by a sound one.
LEMMA InboxReplaced ==
  ASSUME IInv, NEW r, BusProofs!SoundInbox(r), r.next_seq <= MaxSeq + 1,
         me \in PaneIds, me' = me,
         bus' = [inboxes |-> Bus!Put(bus.inboxes, me, r),
                 pane_groups |-> <<>>, group_members |-> <<>>]
  PROVE  /\ BusSound' /\ inbox' = r
         /\ Retained' = (r.dropped + 1)..(r.next_seq - 1)
<1>1. /\ bus'.inboxes = Bus!Put(bus.inboxes, me, r) /\ DOMAIN bus'.inboxes = {me}
      /\ bus'.inboxes[me] = r
  BY DEF IInv, BusSound, Bus!Put
<1>2. inbox' = r
  BY <1>1 DEF inbox, Bus!InboxOf, Bus!Get
<1>3. BusSound'
  BY <1>1, <1>2 DEF BusSound
<1>4. Bus!SeqsAfter(r, 0) = (r.dropped + 1)..(r.next_seq - 1)
  <2> DEFINE all == (r.dropped + 1)..(r.next_seq - 1)
  <2>1. \A s \in all : s > 0
    BY Numbers DEF Sound
  <2>2. Bus!SeqsAfter(r, 0) = {s \in all : s > 0}
    BY Numbers, 0 \in Nat DEF Sound
  <2> HIDE DEF all
  <2>3. Bus!SeqsAfter(r, 0) = all
    BY <2>1, <2>2
  <2> QED
    BY <2>3 DEF all
<1> QED
  BY <1>2, <1>3, <1>4 DEF Retained

\* The effect of msg.ack.
LEMMA AckInbox ==
  ASSUME IInv, NEW n \in Nat, bus' = Bus!ack(bus, me, n), me' = me
  PROVE  /\ BusSound'
         /\ inbox'.next_seq = inbox.next_seq /\ Retained' = Retained
         /\ inbox'.ack_seq \in Nat /\ inbox'.ack_seq >= inbox.ack_seq
         /\ inbox'.ack_seq = inbox.ack_seq \/ inbox'.ack_seq <= n
<1>1. CASE me \notin DOMAIN bus.inboxes
  <2>1. bus' = bus
    BY <1>1 DEF Bus!ack
  <2>2. inbox.ack_seq \in Nat
    BY InboxIsSound, Numbers
  <2> QED
    BY <2>1, <2>2, InboxStays DEF IInv
<1>2. CASE me \in DOMAIN bus.inboxes
  <2> DEFINE r == Bus!ack_inbox(inbox, n)
  <2>1. inbox = bus.inboxes[me] /\ BusProofs!SoundInbox(inbox) /\ me \in PaneIds
    BY <1>2 DEF IInv, BusSound, inbox, Bus!InboxOf, Bus!Get
  <2>2. /\ BusProofs!SoundInbox(r)
        /\ r.next_seq = inbox.next_seq /\ r.dropped = inbox.dropped
        /\ r.ack_seq \in inbox.ack_seq..(inbox.next_seq - 1)
        /\ r.ack_seq = inbox.ack_seq \/ r.ack_seq <= n
    BY <2>1, Acknowledged
  <2>3. bus' = [bus EXCEPT !.inboxes[me] = r]
    BY <1>2, <2>1 DEF Bus!ack
  <2> HIDE DEF r
  <2>4. bus' = [inboxes |-> [bus.inboxes EXCEPT ![me] = r],
                pane_groups |-> <<>>, group_members |-> <<>>]
    BY <2>3 DEF IInv, BusSound
  <2>5. [bus.inboxes EXCEPT ![me] = r] = Bus!Put(bus.inboxes, me, r)
    BY <1>2 DEF Bus!Put
  <2>6. r.next_seq <= MaxSeq + 1
    BY <2>2 DEF IInv, BusSound
  <2>7. /\ BusSound' /\ inbox' = r /\ Retained' = (r.dropped + 1)..(r.next_seq - 1)
    BY <2>1, <2>2, <2>4, <2>5, <2>6, InboxReplaced
  <2>8. inbox.ack_seq \in Nat /\ inbox.next_seq \in Nat
    BY InboxIsSound, Numbers
  <2> QED
    BY <2>2, <2>7, <2>8, InboxIsSound
<1> QED
  BY <1>1, <1>2

-----------------------------------------------------------------------------
(* The invariant is kept by every step of the application thread.          *)

\* At first there is no message.
LEMMA InitInv == Init => IInv
<1> SUFFICES ASSUME Init PROVE IInv
  OBVIOUS
<1>1. /\ bus = [inboxes |-> <<>>, pane_groups |-> <<>>, group_members |-> <<>>]
      /\ hub = [next_sequence |-> 0, events |-> <<>>]
  BY DEF Init, Bus!NewBus, NewHub
<1>2. inbox = Bus!NewInbox
  BY <1>1 DEF inbox, Bus!InboxOf, Bus!Get
<1>3. BusSound
  BY <1>1, <1>2, BusAssumption DEF BusSound, Bus!NewInbox
<1>4. HubSound
  <2>1. <<>> \in Seq(HubEvent) /\ Len(<<>>) = 0
    BY EmptySeq
  <2> QED
    BY <1>1, <2>1, MaxEventsAssumption DEF HubSound
<1>5. Types
  <2>1. wait \in Wait
    <3>1. /\ wait = [pc |-> wait.pc, last_seq |-> wait.last_seq, printed |-> wait.printed,
                     result |-> wait.result, deadline |-> wait.deadline,
                     expired |-> wait.expired, reader_gone |-> wait.reader_gone]
          /\ wait.pc = "subscribing" /\ wait.last_seq = 0 /\ wait.printed = {}
          /\ wait.result = "none" /\ wait.deadline \in BOOLEAN
          /\ wait.expired \in BOOLEAN /\ wait.reader_gone \in BOOLEAN
      BY DEF Init
    <3>2. 0 \in 0..MaxSeq /\ {} \in SUBSET (1..MaxSeq)
      BY BusAssumption
    <3> QED
      BY <3>1, <3>2 DEF Wait
  <2>2. sub \in Sub /\ sub.last_sequence <= hub.next_sequence
    BY <1>1 DEF Init, Sub
  <2>3. reading \in [Readers -> 0..MaxSeq]
    BY BusAssumption DEF Init
  <2> QED
    BY <2>1, <2>2, <2>3, ClientsAssumption DEF Init, Types
<1>6. Retained = {}
  BY <1>2 DEF Retained, Bus!SeqsAfter, Bus!NewInbox
<1>7. inbox.next_seq = 1 /\ wait.pc = "subscribing" /\ \A r \in Readers : reading[r] = 0
  BY <1>2 DEF Init, Bus!NewInbox
<1> QED
  BY <1>3, <1>4, <1>5, <1>6, <1>7 DEF IInv, WaitBehind, ReadersBehind, ReadAreSeen

\* push numbers an event and makes room for it.
LEMMA Pushed ==
  ASSUME HubSound, NEW e \in Event, hub' = push(hub, e)
  PROVE  HubSound' /\ hub'.next_sequence = hub.next_sequence + 1
<1> DEFINE n == Len(hub.events)
           numbered == [sequence |-> hub.next_sequence + 1, event |-> e]
           all == Append(hub.events, numbered)
           overflow == IF Len(all) > MaxEvents THEN Len(all) - MaxEvents ELSE 0
           left == SubSeq(all, overflow + 1, Len(all))
<1>1. /\ hub.next_sequence \in Nat /\ hub.events \in Seq(HubEvent)
      /\ n \in Nat /\ n <= MaxEvents
      /\ \A k \in 1..n : hub.events[k].sequence <= hub.next_sequence
  BY LenProperties DEF HubSound
<1>2. numbered \in HubEvent
  BY <1>1 DEF HubEvent
<1>3. /\ all \in Seq(HubEvent) /\ Len(all) = n + 1
      /\ \A k \in 1..n : all[k] = hub.events[k]
      /\ all[n + 1] = numbered
  BY <1>1, <1>2, AppendProperties
<1>4. hub' = [next_sequence |-> hub.next_sequence + 1, events |-> left]
  BY DEF push
<1>5. \A k \in 1..(n + 1) : all[k].sequence <= hub.next_sequence + 1
  <2> SUFFICES ASSUME NEW k \in 1..(n + 1) PROVE all[k].sequence <= hub.next_sequence + 1
    OBVIOUS
  <2>1. CASE k \in 1..n
    <3>1. hub.events[k] \in HubEvent /\ all[k] = hub.events[k]
      BY <1>1, <1>3, <2>1, ElementOfSeq
    <3> QED
      BY <1>1, <2>1, <3>1 DEF HubEvent
  <2>2. CASE k = n + 1
    <3>1. all[k].sequence = hub.next_sequence + 1
      BY <1>3, <2>2
    <3> QED
      BY <1>1, <3>1
  <2> QED
    BY <1>1, <2>1, <2>2
<1>6. overflow \in 0..1 /\ overflow <= n /\ n + 1 - overflow <= MaxEvents
  BY <1>1, <1>3, MaxEventsAssumption
<1>7. \A i \in (overflow + 1)..(n + 1) : all[i] \in HubEvent
  BY <1>1, <1>3, <1>6, ElementOfSeq
<1> HIDE DEF all, overflow, n
<1>8. /\ left \in Seq(HubEvent) /\ Len(left) = n + 1 - overflow
      /\ \A k \in 1..(n + 1 - overflow) : left[k] = all[overflow + k]
  <2>1. /\ SubSeq(all, overflow + 1, n + 1) \in Seq(HubEvent)
        /\ Len(SubSeq(all, overflow + 1, n + 1)) =
             IF overflow + 1 <= n + 1 THEN n + 1 - (overflow + 1) + 1 ELSE 0
        /\ \A k \in 1..(n + 1 - (overflow + 1) + 1) :
             SubSeq(all, overflow + 1, n + 1)[k] = all[overflow + 1 + k - 1]
    BY <1>1, <1>6, <1>7, SubSeqProperties
  <2>2. left = SubSeq(all, overflow + 1, n + 1)
    BY <1>3
  <2> HIDE DEF left
  <2>3. /\ overflow + 1 <= n + 1 /\ n + 1 - (overflow + 1) + 1 = n + 1 - overflow
        /\ \A k \in 1..(n + 1 - overflow) : overflow + 1 + k - 1 = overflow + k
    BY <1>1, <1>6
  <2>4. /\ left \in Seq(HubEvent) /\ Len(left) = n + 1 - overflow
        /\ \A k \in 1..(n + 1 - overflow) : left[k] = all[overflow + 1 + k - 1]
    BY <2>1, <2>2, <2>3
  <2> QED
    BY <2>3, <2>4
<1> HIDE DEF left
<1>9. \A k \in DOMAIN left : left[k].sequence <= hub.next_sequence + 1
  <2>1. DOMAIN left = 1..(n + 1 - overflow)
    BY <1>8, LenProperties
  <2>2. \A k \in 1..(n + 1 - overflow) : overflow + k \in 1..(n + 1)
    BY <1>1, <1>6
  <2> QED
    BY <1>5, <1>8, <2>1, <2>2
<1> QED
  BY <1>1, <1>4, <1>6, <1>8, <1>9 DEF HubSound

\* The events of this model are events.
LEMMA Events ==
  /\ Other \in Event
  /\ \A p \in PaneIds, seq \in Nat : MsgReceived(p, seq) \in Event
BY DEF Other, MsgReceived, Event

\* What the application thread does to the inbox keeps what the clients know
\* of it, if the cursor stays and nothing appears but a new message.
LEMMA AppKeeps ==
  ASSUME IInv, Types', HubSound', BusSound', UNCHANGED <<wait, readers>>,
         me' # "closed" =>
           /\ me # "closed"
           /\ inbox'.next_seq \in Nat /\ inbox'.next_seq >= inbox.next_seq
           /\ inbox'.ack_seq = inbox.ack_seq
           /\ Retained' \subseteq Retained \cup {s \in Nat : s >= inbox.next_seq}
  PROVE  IInv'
<1>1. CASE me' = "closed"
  BY <1>1 DEF IInv, WaitBehind, ReadersBehind, ReadAreSeen
<1>2. CASE me' # "closed"
  <2>1. /\ me # "closed" /\ inbox'.next_seq \in Nat /\ inbox'.next_seq >= inbox.next_seq
        /\ inbox'.ack_seq = inbox.ack_seq
        /\ Retained' \subseteq Retained \cup {s \in Nat : s >= inbox.next_seq}
        /\ wait' = wait /\ reading' = reading /\ shown' = shown /\ acked' = acked
    BY <1>2 DEF readers
  <2>2. /\ inbox.next_seq \in Nat /\ inbox.ack_seq \in Nat
        /\ inbox.ack_seq < inbox.next_seq /\ Retained \subseteq Nat
    BY InboxIsSound, Numbers
  <2>3. WaitBehind'
    BY <2>1 DEF WaitBehind, IInv
  <2>4. ReadersBehind'
    <3> SUFFICES ASSUME NEW r \in Readers
                 PROVE  /\ reading[r] < inbox'.next_seq
                        /\ \A s \in Retained' : s <= reading[r] => s \in shown \cup acked
      BY <2>1 DEF ReadersBehind
    <3>1. /\ reading[r] \in Nat /\ reading[r] < inbox.next_seq
          /\ \A s \in Retained : s <= reading[r] => s \in shown \cup acked
      BY <2>1, BusAssumption DEF IInv, ReadersBehind, Types
    <3> QED
      BY <2>1, <2>2, <3>1
  <2>5. ReadAreSeen'
    BY <2>1, <2>2 DEF ReadAreSeen, IInv
  <2> QED
    BY <2>3, <2>4, <2>5 DEF IInv
<1> QED
  BY <1>1, <1>2

\* A delivery.
LEMMA SendKeeps ==
  ASSUME IInv, NEW size \in Sizes, Send(size)
  PROVE  IInv'
<1> DEFINE r == Bus!enforce_caps(Bus!push_back(inbox, size))
<1>1. /\ me # "closed" /\ size <= MaxBody /\ inbox.next_seq <= MaxSeq
      /\ bus' = [bus EXCEPT !.inboxes = Bus!Put(bus.inboxes, me, r)]
      /\ hub' = push(hub, MsgReceived(me, inbox.next_seq))
      /\ UNCHANGED <<me, past, running, sub, wait, readers>>
  BY DEF Send, Bus!deliver, inbox
<1>2. /\ BusProofs!SoundInbox(r)
      /\ r.next_seq = inbox.next_seq + 1 /\ r.ack_seq = inbox.ack_seq
      /\ r.dropped \in inbox.dropped..(inbox.next_seq - 1)
  BY <1>1, InboxIsSound, Delivered, BusAssumption
<1> HIDE DEF r
<1>3. /\ inbox.next_seq \in Nat \ {0} /\ inbox.dropped \in 0..(inbox.next_seq - 1)
      /\ Retained = (inbox.dropped + 1)..(inbox.next_seq - 1)
  BY InboxIsSound, Numbers
<1>4. me \in PaneIds
  BY <1>1 DEF IInv, Types
<1>5. bus' = [inboxes |-> Bus!Put(bus.inboxes, me, r),
              pane_groups |-> <<>>, group_members |-> <<>>]
  BY <1>1 DEF IInv, BusSound
<1>6. /\ BusSound' /\ inbox' = r /\ Retained' = (r.dropped + 1)..(r.next_seq - 1)
  <2>1. r.next_seq <= MaxSeq + 1 /\ me' = me
    BY <1>1, <1>2, <1>3, BusAssumption
  <2> QED
    BY <1>2, <1>4, <1>5, <2>1, InboxReplaced
<1>7. HubSound' /\ hub'.next_sequence = hub.next_sequence + 1
  BY <1>1, <1>3, <1>4, Events, Pushed DEF IInv
<1>8. Types'
  BY <1>1, <1>7 DEF IInv, Types, readers, Sub, HubSound
<1>9. Retained' \subseteq Retained \cup {s \in Nat : s >= inbox.next_seq}
  BY <1>2, <1>3, <1>6
<1> QED
  BY <1>1, <1>2, <1>3, <1>6, <1>7, <1>8, <1>9, AppKeeps

\* Another event.
LEMMA OtherEventKeeps ==
  ASSUME IInv, OtherEvent
  PROVE  IInv'
<1>1. /\ hub' = push(hub, Other) /\ UNCHANGED <<bus, me, past, running, sub, wait, readers>>
  BY DEF OtherEvent
<1>2. HubSound' /\ hub'.next_sequence = hub.next_sequence + 1
  BY <1>1, Events, Pushed DEF IInv
<1>3. Types'
  BY <1>1, <1>2 DEF IInv, Types, readers, Sub, HubSound
<1>4. inbox' = inbox /\ Retained' = Retained /\ BusSound' /\ inbox.next_seq \in Nat
  BY <1>1, InboxStays, InboxIsSound, Numbers DEF IInv
<1> QED
  BY <1>1, <1>2, <1>3, <1>4, AppKeeps

\* A move: the inbox goes with the pane.
LEMMA MovePaneKeeps ==
  ASSUME IInv, NEW new \in PaneIds, MovePane(new)
  PROVE  IInv'
<1>1. /\ me # "closed" /\ new \notin past \cup {me}
      /\ past' = past \cup {me} /\ me' = new
      /\ bus' = Bus!rekey_pane(bus, me, new)
      /\ hub' = push(hub, Other)
      /\ UNCHANGED <<running, sub, wait, readers>>
  BY DEF MovePane
<1>2. HubSound' /\ hub'.next_sequence = hub.next_sequence + 1
  BY <1>1, Events, Pushed DEF IInv
<1>3. Types'
  <2>1. /\ me \in PaneIds /\ past' \subseteq PaneIds /\ me' \in PaneIds /\ me' \notin past'
        /\ "closed" \notin past'
    BY <1>1 DEF IInv, Types
  <2>2. /\ sub' = sub /\ wait' = wait /\ running' = running /\ reading' = reading
        /\ shown' = shown /\ acked' = acked
    BY <1>1 DEF readers
  <2>3. sub.last_sequence <= hub'.next_sequence
    BY <1>2 DEF IInv, Types, Sub, HubSound
  <2> QED
    BY <2>1, <2>2, <2>3 DEF IInv, Types
<1>4. /\ DOMAIN bus.inboxes \subseteq {me} /\ new \notin DOMAIN bus.inboxes
      /\ bus.pane_groups = <<>> /\ bus.group_members = <<>>
  BY <1>1 DEF IInv, BusSound
<1> DEFINE c == Bus!remove_pane(bus, new)
<1>5. /\ c.inboxes = Bus!Without(bus.inboxes, new)
      /\ c.pane_groups = <<>> /\ c.group_members = <<>>
  <2>1. c.pane_groups = <<>>
    BY <1>4, NoGroups DEF Bus!remove_pane
  <2>2. /\ c.group_members = [x \in DOMAIN c.group_members |-> c.group_members[x]]
        /\ DOMAIN c.group_members = {}
    BY <1>4 DEF Bus!remove_pane
  <2>3. c.inboxes = Bus!Without(bus.inboxes, new)
    BY DEF Bus!remove_pane
  <2> HIDE DEF c
  <2> QED
    BY <2>1, <2>2, <2>3, EmptyMap
<1> HIDE DEF c
<1>6. /\ bus' = [inboxes |-> bus'.inboxes, pane_groups |-> <<>>, group_members |-> <<>>]
      /\ bus'.inboxes = Bus!MoveKey(c.inboxes, me, new)
  <2> DEFINE members ==
        [g \in DOMAIN c.group_members |->
           IF g \in Bus!Get(c.pane_groups, me, {})
           THEN (c.group_members[g] \ {me}) \cup {new} ELSE c.group_members[g]]
  <2>1. bus' = [inboxes |-> Bus!MoveKey(c.inboxes, me, new),
                pane_groups |-> Bus!MoveKey(c.pane_groups, me, new),
                group_members |-> members]
    BY <1>1 DEF Bus!rekey_pane, c
  <2>2. members = [x \in DOMAIN members |-> members[x]] /\ DOMAIN members = {}
    BY <1>5
  <2> HIDE DEF members
  <2>3. members = <<>> /\ Bus!MoveKey(c.pane_groups, me, new) = <<>>
    BY <1>5, <2>2, EmptyMap, NoGroups
  <2> QED
    BY <2>1, <2>3
<1>7. /\ DOMAIN bus'.inboxes = {p \in {new} : me \in DOMAIN bus.inboxes}
      /\ me \in DOMAIN bus.inboxes => bus'.inboxes[new] = bus.inboxes[me]
  BY <1>1, <1>4, <1>5, <1>6 DEF Bus!MoveKey, Bus!Put, Bus!Without
<1>8. inbox' = inbox
  BY <1>1, <1>7 DEF inbox, Bus!InboxOf, Bus!Get, Bus!NewInbox
<1>9. BusSound' /\ Retained' = Retained /\ inbox.next_seq \in Nat
  <2>1. BusSound'
    BY <1>1, <1>4, <1>6, <1>7, <1>8 DEF BusSound, IInv
  <2> QED
    BY <1>8, <2>1, InboxIsSound, Numbers DEF Retained, Bus!SeqsAfter
<1> QED
  BY <1>1, <1>2, <1>3, <1>8, <1>9, AppKeeps

\* The pane is closed: its inbox goes.
LEMMA ClosePaneKeeps ==
  ASSUME IInv, ClosePane
  PROVE  IInv'
<1>1. /\ me # "closed" /\ me' = "closed"
      /\ bus' = Bus!remove_pane(bus, me)
      /\ hub' = push(hub, Other)
      /\ UNCHANGED <<past, running, sub, wait, readers>>
  BY DEF ClosePane
<1>2. HubSound' /\ hub'.next_sequence = hub.next_sequence + 1
  BY <1>1, Events, Pushed DEF IInv
<1>3. Types'
  BY <1>1, <1>2 DEF IInv, Types, readers, Sub, HubSound
<1>4. bus.pane_groups = <<>> /\ bus.group_members = <<>> /\ DOMAIN bus.inboxes \subseteq {me}
  BY DEF IInv, BusSound
<1>5. /\ bus' = [inboxes |-> Bus!Without(bus.inboxes, me),
                 pane_groups |-> <<>>, group_members |-> <<>>]
  <2> DEFINE c == Bus!remove_pane(bus, me)
  <2>1. c.pane_groups = <<>>
    BY <1>4, NoGroups DEF Bus!remove_pane
  <2>2. /\ c.group_members = [x \in DOMAIN c.group_members |-> c.group_members[x]]
        /\ DOMAIN c.group_members = {}
    BY <1>4 DEF Bus!remove_pane
  <2>3. c = [inboxes |-> Bus!Without(bus.inboxes, me), pane_groups |-> c.pane_groups,
             group_members |-> c.group_members]
    BY DEF Bus!remove_pane
  <2> HIDE DEF c
  <2>4. c.group_members = <<>>
    BY <2>2, EmptyMap
  <2> QED
    BY <1>1, <2>1, <2>3, <2>4 DEF c
<1>6. DOMAIN bus'.inboxes = {}
  BY <1>4, <1>5 DEF Bus!Without
<1>7. inbox'.next_seq = 1
  BY <1>6 DEF inbox, Bus!InboxOf, Bus!Get, Bus!NewInbox
<1>8. BusSound'
  BY <1>5, <1>6, <1>7, BusAssumption DEF BusSound
<1> QED
  BY <1>1, <1>2, <1>3, <1>8, AppKeeps

\* The server stops.
LEMMA ServerStopsKeeps ==
  ASSUME IInv, ServerStops
  PROVE  IInv'
<1>1. running' = FALSE /\ UNCHANGED <<bus, hub, me, past, sub, wait, readers>>
  BY DEF ServerStops
<1>2. Types' /\ HubSound'
  BY <1>1 DEF IInv, Types, readers, HubSound
<1>3. inbox' = inbox /\ Retained' = Retained /\ BusSound' /\ inbox.next_seq \in Nat
  BY <1>1, InboxStays, InboxIsSound, Numbers DEF IInv
<1> QED
  BY <1>1, <1>2, <1>3, AppKeeps

\* `herdr msg ack`: what it marks read is acked by hand.
LEMMA AckRequestKeeps ==
  ASSUME IInv, NEW n \in 1..(MaxSeq + 1), AckRequest(n)
  PROVE  IInv'
<1>1. /\ me # "closed"
      /\ bus' = Bus!ack(bus, me, n)
      /\ acked' = acked \cup {s \in 1..n : s < inbox.next_seq}
      /\ UNCHANGED <<hub, me, past, running, sub, wait, reading, shown>>
  BY DEF AckRequest, Answers
<1>2. /\ BusSound'
      /\ inbox'.next_seq = inbox.next_seq /\ Retained' = Retained
      /\ inbox'.ack_seq \in Nat /\ inbox'.ack_seq >= inbox.ack_seq
      /\ inbox'.ack_seq = inbox.ack_seq \/ inbox'.ack_seq <= n
  BY <1>1, AckInbox, BusAssumption
<1>3. /\ inbox.next_seq \in Nat /\ inbox.next_seq <= MaxSeq + 1 /\ inbox.ack_seq \in Nat
      /\ \A s \in Retained : s \in Nat /\ s > 0 /\ s < inbox.next_seq
  BY InboxIsSound, Numbers DEF IInv, BusSound
<1>4. Types' /\ HubSound'
  <2>1. \A s \in 1..n : s < inbox.next_seq => s \in 1..MaxSeq
    BY <1>3, BusAssumption
  <2>2. acked' \subseteq 1..MaxSeq
    BY <1>1, <2>1 DEF IInv, Types
  <2> QED
    BY <1>1, <2>2 DEF IInv, Types, HubSound
<1>5. WaitBehind'
  <2> SUFFICES ASSUME wait.pc \in {"waiting", "listing", "deadline"}
               PROVE  wait.last_seq <= inbox'.ack_seq
    BY <1>1 DEF WaitBehind
  <2>1. wait.last_seq <= inbox.ack_seq /\ wait.last_seq \in Nat
    BY <1>1, BusAssumption DEF IInv, WaitBehind, Types, Wait
  <2> QED
    BY <1>2, <1>3, <2>1
<1>6. ReadersBehind'
  BY <1>1, <1>2 DEF IInv, ReadersBehind
<1>7. ReadAreSeen'
  <2> SUFFICES ASSUME NEW s \in Retained, s <= inbox'.ack_seq
               PROVE  s \in shown \cup acked'
    BY <1>1, <1>2 DEF ReadAreSeen
  <2>1. s <= inbox.ack_seq => s \in shown \cup acked
    BY <1>1 DEF IInv, ReadAreSeen
  <2>2. s <= n => s \in acked'
    BY <1>1, <1>3
  <2> QED
    BY <1>1, <1>2, <1>3, <2>1, <2>2
<1> QED
  BY <1>2, <1>4, <1>5, <1>6, <1>7 DEF IInv

-----------------------------------------------------------------------------
(* ... and by every step of the clients.                                   *)

\* What the connection thread and the wait do touches nothing of the server.
LEMMA ClientKeeps ==
  ASSUME IInv, UNCHANGED <<app, readers>>,
         sub' \in Sub, sub'.last_sequence <= hub.next_sequence,
         wait' \in Wait,
         me # "closed" /\ wait'.pc \in {"waiting", "listing", "deadline"} =>
           wait'.last_seq <= inbox.ack_seq
  PROVE  IInv'
<1>1. /\ UNCHANGED <<bus, hub, me, past, running, reading, shown, acked>>
  BY DEF app, readers
<1>2. inbox' = inbox /\ Retained' = Retained /\ BusSound'
  BY <1>1, InboxStays DEF IInv
<1>3. Types' /\ HubSound'
  BY <1>1 DEF IInv, Types, HubSound
<1>4. WaitBehind'
  BY <1>1, <1>2 DEF WaitBehind
<1>5. ReadersBehind' /\ ReadAreSeen'
  BY <1>1, <1>2 DEF IInv, ReadersBehind, ReadAreSeen
<1> QED
  BY <1>2, <1>3, <1>4, <1>5 DEF IInv

\* A subscription starts at the newest event and moves over events that the
\* ring has.
LEMMA StreamStepKeeps ==
  ASSUME IInv, SubscribeStep \/ StreamStep
  PROVE  IInv'
<1>1. UNCHANGED <<app, wait, readers>>
  BY DEF SubscribeStep, Probe, ProbeTimesOut, TakeCursor, StreamStep, StreamPoll, StreamStops
<1>2. sub \in Sub /\ sub.last_sequence <= hub.next_sequence /\ wait \in Wait
  BY DEF IInv, Types
<1>3. sub' \in Sub /\ sub'.last_sequence <= hub.next_sequence
  <2>1. CASE StreamStops
    BY <1>2, <2>1 DEF StreamStops, Sub
  <2>2. CASE StreamPoll
    <3>1. PICK k \in DOMAIN hub.events :
            \/ sub' = [sub EXCEPT !.last_sequence = hub.events[k].sequence, !.lines = @ + 1]
            \/ sub' = [sub EXCEPT !.last_sequence = hub.events[k].sequence]
      BY <2>2 DEF StreamPoll, events_after
    <3>2. hub.events[k].sequence \in Nat /\ hub.events[k].sequence <= hub.next_sequence
      <4>1. hub.events \in Seq(HubEvent)
        BY DEF IInv, HubSound
      <4>2. hub.events[k] \in HubEvent
        BY <4>1, ElementOfSeq, LenProperties
      <4> QED
        BY <4>2 DEF IInv, HubSound, HubEvent
    <3>3. sub.lines + 1 \in Nat
      BY <1>2 DEF Sub
    <3> QED
      BY <1>2, <3>1, <3>2, <3>3 DEF Sub
  <2>3. CASE Probe \/ ProbeTimesOut
    <3>1. \/ sub' = [sub EXCEPT !.state = "refused"]
          \/ me # "closed" /\ sub' = [sub EXCEPT !.state = "probed", !.pane_id = me]
      BY <2>3 DEF Probe, ProbeTimesOut, Answers
    <3>2. me # "closed" => me \in PaneIds
      BY DEF IInv, Types
    <3> QED
      BY <1>2, <3>1, <3>2 DEF Sub
  <2>4. CASE TakeCursor
    <3>1. sub' = [sub EXCEPT !.state = "open", !.last_sequence = hub.next_sequence]
      BY <2>4 DEF TakeCursor, current_sequence
    <3>2. hub.next_sequence \in Nat
      BY DEF IInv, HubSound
    <3>3. sub' \in Sub /\ sub'.last_sequence = hub.next_sequence
      BY <1>2, <3>1, <3>2 DEF Sub
    <3> QED
      BY <3>2, <3>3
  <2> QED
    BY <2>1, <2>2, <2>3, <2>4 DEF SubscribeStep, StreamStep
<1> QED
  BY <1>1, <1>2, <1>3, ClientKeeps DEF IInv, WaitBehind

\* The lists that the clients are handed name messages of the inbox.
LEMMA Listed ==
  ASSUME IInv, NEW after \in Nat, NEW all \in BOOLEAN
  PROVE  /\ Bus!list(bus, me, after, all) \subseteq Retained
         /\ Bus!list(bus, me, after, all) \in SUBSET (1..MaxSeq)
         /\ Highest(Bus!list(bus, me, after, all)) \in 0..MaxSeq
         /\ \A s \in Bus!list(bus, me, after, all) : s <= Highest(Bus!list(bus, me, after, all))
         /\ Highest(Bus!list(bus, me, after, all)) \in Bus!list(bus, me, after, all) \cup {0}
<1> DEFINE messages == Bus!list(bus, me, after, all)
<1>1. messages \subseteq Retained /\ messages \in SUBSET (1..MaxSeq)
  BY InboxIsSound
<1> HIDE DEF messages
<1>2. /\ Highest(messages) \in messages \cup {0} /\ Highest(messages) \in 0..MaxSeq
      /\ \A s \in messages : s <= Highest(messages)
  BY <1>1, HighestIs, BusAssumption
<1> QED
  BY <1>1, <1>2 DEF messages

\* The wait ends.
LEMMA WaitFinishes ==
  ASSUME wait \in Wait, NEW result \in {"ok", "error", "timeout"},
         NEW printed \in SUBSET (1..MaxSeq),
         wait' = [wait EXCEPT !.pc = "done", !.result = result, !.printed = printed]
  PROVE  wait' \in Wait /\ wait'.pc = "done"
BY DEF Wait

\* What there is, what is unread, and what is behind a baseline.
LEMMA Everything ==
  ASSUME IInv, NEW after \in Nat
  PROVE  /\ Bus!list(bus, me, 0, TRUE) = Retained
         /\ Bus!UnreadSeqs(inbox) = {s \in Retained : s > inbox.ack_seq}
         /\ Bus!list(bus, me, after, TRUE) = {s \in Retained : s > after}
<1>1. /\ inbox.ack_seq \in Nat
      /\ \A a \in Nat : Bus!SeqsAfter(inbox, a) =
           {s \in (inbox.dropped + 1)..(inbox.next_seq - 1) : s > a}
      /\ Retained = (inbox.dropped + 1)..(inbox.next_seq - 1)
      /\ \A s \in Retained : s \in Nat /\ s > 0
  BY InboxIsSound, Numbers
<1>2. Bus!UnreadSeqs(inbox) = {s \in Retained : s > inbox.ack_seq}
  BY <1>1 DEF Bus!UnreadSeqs
<1>3. ASSUME NEW a \in Nat
      PROVE  Bus!list(bus, me, a, TRUE) = {s \in Retained : s > a}
  <2>1. TRUE \in BOOLEAN
    OBVIOUS
  <2>2. Bus!list(bus, me, a, TRUE) = {s \in Retained : s > a /\ (TRUE \/ s > inbox.ack_seq)}
    BY <2>1, InboxIsSound
  <2> QED
    BY <2>2
<1>4. Bus!list(bus, me, 0, TRUE) = {s \in Retained : s > 0}
  BY <1>3, 0 \in Nat
<1>5. {s \in Retained : s > 0} = Retained
  BY <1>1
<1> QED
  BY <1>2, <1>3, <1>4, <1>5

\* The baseline of a wait that goes on is not in front of the read cursor.
LEMMA BaselineKeeps ==
  ASSUME IInv, Baseline
  PROVE  IInv'
<1> DEFINE messages == Bus!list(bus, me, 0, TRUE)
           new == {s \in messages : s > inbox.ack_seq}
<1>1. /\ UNCHANGED <<app, sub, readers>>
      /\ \/ \E result \in {"error", "ok"} : \E printed \in {{}, new} :
              wait' = [wait EXCEPT !.pc = "done", !.result = result, !.printed = printed]
         \/ /\ new = {}
            /\ wait' = [wait EXCEPT !.pc = "waiting", !.last_seq = Highest(messages)]
  BY DEF Baseline, Finish, baseline_unread
<1>2. /\ messages \in SUBSET (1..MaxSeq) /\ Highest(messages) \in 0..MaxSeq
      /\ Highest(messages) \in messages \cup {0}
      /\ \A s \in messages : s <= Highest(messages)
  <2>1. 0 \in Nat /\ TRUE \in BOOLEAN
    OBVIOUS
  <2> QED
    BY <2>1, Listed
<1>3. sub \in Sub /\ sub.last_sequence <= hub.next_sequence /\ wait \in Wait
  BY DEF IInv, Types
<1> HIDE DEF messages
<1>4. new \in SUBSET (1..MaxSeq) /\ {} \in SUBSET (1..MaxSeq)
  BY <1>2
<1>5. new = {} => Highest(messages) <= inbox.ack_seq
  <2>1. inbox.ack_seq \in Nat
    BY InboxIsSound, Numbers
  <2>2. new = {} => Highest(messages) = 0 \/ ~(Highest(messages) > inbox.ack_seq)
    BY <1>2
  <2> QED
    BY <1>2, <2>1, <2>2, BusAssumption
<1> HIDE DEF new
<1>6. wait' \in Wait /\ (wait'.pc = "waiting" => wait'.last_seq <= inbox.ack_seq)
      /\ wait'.pc \in {"done", "waiting"}
  <2>1. CASE \E result \in {"error", "ok"} : \E printed \in {{}, new} :
               wait' = [wait EXCEPT !.pc = "done", !.result = result, !.printed = printed]
    <3>1. PICK result \in {"error", "ok"}, printed \in SUBSET (1..MaxSeq) :
            wait' = [wait EXCEPT !.pc = "done", !.result = result, !.printed = printed]
      BY <1>4, <2>1
    <3> QED
      BY <1>3, <3>1, WaitFinishes
  <2>2. CASE /\ new = {}
             /\ wait' = [wait EXCEPT !.pc = "waiting", !.last_seq = Highest(messages)]
    BY <1>2, <1>3, <1>5, <2>2 DEF Wait
  <2> QED
    BY <1>1, <2>1, <2>2
<1> QED
  BY <1>1, <1>3, <1>6, ClientKeeps

\* The wait goes round with the baseline it has, or ends.
LEMMA WaitStepKeeps ==
  ASSUME IInv, WaitStep \/ DeadlinePasses
  PROVE  IInv'
<1>1. sub \in Sub /\ sub.last_sequence <= hub.next_sequence /\ wait \in Wait
  BY DEF IInv, Types
<1>2. wait.pc \in {"waiting", "listing", "deadline"} /\ me # "closed" =>
        wait.last_seq <= inbox.ack_seq
  BY DEF IInv, WaitBehind
<1>3. CASE Subscribed
  <2>1. /\ UNCHANGED <<app, sub, readers>>
        /\ wait' = [wait EXCEPT !.pc = "baseline"]
    BY <1>3 DEF Subscribed
  <2>2. wait' \in Wait /\ wait'.pc = "baseline"
    BY <1>1, <2>1 DEF Wait
  <2> QED
    BY <1>1, <2>1, <2>2, ClientKeeps
<1>4. CASE NotSubscribed
  <2>1. /\ UNCHANGED <<app, sub, readers>>
        /\ wait' = [wait EXCEPT !.pc = "done", !.result = "unsubscribed", !.printed = {}]
    BY <1>4 DEF NotSubscribed, Finish
  <2>2. wait' \in Wait /\ wait'.pc = "done"
    BY <1>1, <2>1 DEF Wait
  <2> QED
    BY <1>1, <2>1, <2>2, ClientKeeps
<1>5. CASE Wake
  <2>1. /\ UNCHANGED <<app, readers>> /\ wait.pc = "waiting" /\ sub.lines > 0
        /\ sub' = [sub EXCEPT !.lines = @ - 1]
        /\ wait' = [wait EXCEPT !.pc = "listing"]
    BY <1>5 DEF Wake
  <2>2. sub' \in Sub /\ sub'.last_sequence <= hub.next_sequence
    <3> DEFINE fewer == sub.lines - 1
    <3>1. fewer \in Nat
      BY <1>1, <2>1 DEF Sub
    <3>2. sub' = [sub EXCEPT !.lines = fewer]
      BY <2>1
    <3> HIDE DEF fewer
    <3> QED
      BY <1>1, <3>1, <3>2 DEF Sub
  <2>3. wait' \in Wait /\ wait'.last_seq = wait.last_seq
    BY <1>1, <2>1 DEF Wait
  <2> QED
    BY <1>2, <2>1, <2>2, <2>3, ClientKeeps
<1>6. CASE Tick \/ SocketTimeout
  <2>1. /\ UNCHANGED <<app, sub, readers>> /\ wait.pc = "waiting"
        /\ \/ wait' = [wait EXCEPT !.pc = "listing"]
           \/ wait' = [wait EXCEPT !.pc = "listing", !.reader_gone = TRUE]
    BY <1>6 DEF Tick, SocketTimeout
  <2>2. wait' \in Wait /\ wait'.last_seq = wait.last_seq
    BY <1>1, <2>1 DEF Wait
  <2> QED
    BY <1>1, <1>2, <2>1, <2>2, ClientKeeps
<1>7. CASE Closed
  <2>1. /\ UNCHANGED <<app, sub, readers>>
        /\ wait' = [wait EXCEPT !.pc = "done", !.result = "error", !.printed = {}]
    BY <1>7 DEF Closed, Finish
  <2>2. wait' \in Wait /\ wait'.pc = "done"
    BY <1>1, <2>1 DEF Wait
  <2> QED
    BY <1>1, <2>1, <2>2, ClientKeeps
<1>8. CASE Listing
  <2> DEFINE new == Bus!list(bus, me, wait.last_seq, TRUE)
  <2>1. /\ UNCHANGED <<app, sub, readers>> /\ wait.pc = "listing"
        /\ \/ \E result \in {"error", "ok"} : \E printed \in {{}, new} :
                wait' = [wait EXCEPT !.pc = "done", !.result = result, !.printed = printed]
           \/ wait' = [wait EXCEPT !.pc = "deadline"]
    BY <1>8 DEF Listing, Finish
  <2>2. new \in SUBSET (1..MaxSeq) /\ {} \in SUBSET (1..MaxSeq)
    <3>1. wait.last_seq \in Nat
      BY <1>1, BusAssumption DEF Wait
    <3> QED
      BY <3>1, Listed
  <2> HIDE DEF new
  <2>3. wait' \in Wait /\ (wait'.pc = "done" \/ wait'.last_seq = wait.last_seq)
    <3>1. CASE \E result \in {"error", "ok"} : \E printed \in {{}, new} :
                 wait' = [wait EXCEPT !.pc = "done", !.result = result, !.printed = printed]
      <4>1. PICK result \in {"error", "ok"}, printed \in SUBSET (1..MaxSeq) :
              wait' = [wait EXCEPT !.pc = "done", !.result = result, !.printed = printed]
        BY <2>2, <3>1
      <4> QED
        BY <1>1, <4>1, WaitFinishes
    <3>2. CASE wait' = [wait EXCEPT !.pc = "deadline"]
      BY <1>1, <3>2 DEF Wait
    <3> QED
      BY <2>1, <3>1, <3>2
  <2> QED
    BY <1>1, <1>2, <2>1, <2>3, ClientKeeps
<1>9. CASE CheckDeadline
  <2>1. /\ UNCHANGED <<app, sub, readers>> /\ wait.pc = "deadline"
        /\ \/ wait' = [wait EXCEPT !.pc = "done", !.result = "timeout", !.printed = {}]
           \/ wait' = [wait EXCEPT !.pc = "waiting"]
    BY <1>9 DEF CheckDeadline, Finish
  <2>2. wait' \in Wait /\ (wait'.pc = "done" \/ wait'.last_seq = wait.last_seq)
    BY <1>1, <2>1 DEF Wait
  <2> QED
    BY <1>1, <1>2, <2>1, <2>2, ClientKeeps
<1>10. CASE DeadlinePasses
  <2>1. /\ UNCHANGED <<app, sub, readers>> /\ wait' = [wait EXCEPT !.expired = TRUE]
    BY <1>10 DEF DeadlinePasses
  <2>2. wait' \in Wait /\ wait'.pc = wait.pc /\ wait'.last_seq = wait.last_seq
    BY <1>1, <2>1 DEF Wait
  <2> QED
    BY <1>1, <1>2, <2>1, <2>2, ClientKeeps
<1> QED
  BY <1>3, <1>4, <1>5, <1>6, <1>7, <1>8, <1>9, <1>10, BaselineKeeps DEF WaitStep

\* `msg read` displays before it acks, and will ack no more than that: with
\* --after nothing, and otherwise the highest that it displays, where everything
\* in front of it was displayed too or read before.
LEMMA ReadListKeeps ==
  ASSUME IInv, NEW r \in Readers, NEW all \in BOOLEAN, NEW after_given \in BOOLEAN,
         NEW after_seq \in Nat, after_given \/ after_seq = 0,
         ReadList(r, after_given, after_seq, all)
  PROVE  IInv'
<1> DEFINE messages == Bus!list(bus, me, after_seq, all)
           up_to == IF after_given THEN 0 ELSE Highest(messages)
<1>1. /\ me # "closed" /\ shown' = shown \cup messages
      /\ reading' = [reading EXCEPT ![r] = up_to]
      /\ UNCHANGED <<bus, hub, me, past, running, sub, wait, acked>>
  BY DEF ReadList, Answers, read_auto_ack_seq, app
<1>2. /\ messages \subseteq Retained /\ messages \in SUBSET (1..MaxSeq)
      /\ Highest(messages) \in 0..MaxSeq
      /\ Highest(messages) \in messages \cup {0}
      /\ \A s \in messages : s <= Highest(messages)
      /\ messages = {s \in Retained : s > after_seq /\ (all \/ s > inbox.ack_seq)}
  BY Listed, InboxIsSound
<1> HIDE DEF messages
<1>3. /\ inbox.next_seq \in Nat \ {0} /\ inbox.ack_seq \in Nat
      /\ \A s \in Retained : s \in Nat /\ s > 0 /\ s < inbox.next_seq
  BY InboxIsSound, Numbers
<1>4. /\ up_to \in 0..MaxSeq /\ up_to < inbox.next_seq
  BY <1>2, <1>3, BusAssumption
<1>5. inbox' = inbox /\ Retained' = Retained /\ BusSound'
  BY <1>1, InboxStays DEF IInv
<1>6. Types' /\ HubSound'
  <2>1. reading' \in [Readers -> 0..MaxSeq]
    BY <1>1, <1>4 DEF IInv, Types
  <2>2. shown' \subseteq 1..MaxSeq
    BY <1>1, <1>2 DEF IInv, Types
  <2> QED
    BY <1>1, <2>1, <2>2 DEF IInv, Types, HubSound
<1>7. WaitBehind' /\ ReadAreSeen'
  BY <1>1, <1>5 DEF IInv, WaitBehind, ReadAreSeen
<1>8. ASSUME NEW s \in Retained, s <= up_to PROVE s \in shown' \cup acked
  <2>1. ~after_given /\ after_seq = 0
    BY <1>3, <1>8
  <2>2. s <= inbox.ack_seq => s \in shown \cup acked
    BY <1>1 DEF IInv, ReadAreSeen
  <2>3. s > inbox.ack_seq => s \in messages
    BY <1>2, <1>3, <2>1
  <2> QED
    BY <1>1, <1>3, <2>2, <2>3
<1>9. ReadersBehind'
  <2> SUFFICES ASSUME NEW q \in Readers
               PROVE  /\ reading'[q] < inbox.next_seq
                      /\ \A s \in Retained : s <= reading'[q] => s \in shown' \cup acked
    BY <1>1, <1>5 DEF ReadersBehind
  <2>1. reading'[q] = IF q = r THEN up_to ELSE reading[q]
    BY <1>1 DEF IInv, Types
  <2> HIDE DEF up_to
  <2>2. /\ reading[q] < inbox.next_seq
        /\ \A s \in Retained : s <= reading[q] => s \in shown \cup acked
    BY <1>1 DEF IInv, ReadersBehind
  <2> QED
    BY <1>1, <1>4, <1>8, <2>1, <2>2
<1> QED
  BY <1>5, <1>6, <1>7, <1>9 DEF IInv

\* ... and then acks it, whatever happened in between.
LEMMA ReadAckKeeps ==
  ASSUME IInv, NEW r \in Readers, ReadAck(r)
  PROVE  IInv'
<1>1. /\ bus' = bus \/ (me # "closed" /\ bus' = Bus!ack(bus, me, reading[r]))
      /\ reading' = [reading EXCEPT ![r] = 0]
      /\ UNCHANGED <<hub, me, past, running, sub, wait, shown, acked>>
  BY DEF ReadAck, Answers
<1>2. reading \in [Readers -> 0..MaxSeq] /\ reading[r] \in Nat
  BY BusAssumption DEF IInv, Types
<1>3. /\ inbox.next_seq \in Nat \ {0} /\ inbox.ack_seq \in Nat
      /\ \A s \in Retained : s \in Nat /\ s > 0 /\ s < inbox.next_seq
  BY InboxIsSound, Numbers
<1>4. /\ BusSound'
      /\ inbox'.next_seq = inbox.next_seq /\ Retained' = Retained
      /\ inbox'.ack_seq \in Nat /\ inbox'.ack_seq >= inbox.ack_seq
      /\ inbox'.ack_seq = inbox.ack_seq \/ (me # "closed" /\ inbox'.ack_seq <= reading[r])
  <2>1. CASE bus' = bus
    BY <1>1, <1>3, <2>1, InboxStays DEF IInv
  <2>2. CASE me # "closed" /\ bus' = Bus!ack(bus, me, reading[r])
    BY <1>1, <1>2, <2>2, AckInbox
  <2> QED
    BY <1>1, <2>1, <2>2
<1>5. reading' \in [Readers -> 0..MaxSeq] /\ \A q \in Readers : reading'[q] \in {reading[q], 0}
  BY <1>1, <1>2, BusAssumption
<1>6. Types' /\ HubSound'
  BY <1>1, <1>5 DEF IInv, Types, HubSound
<1>7. WaitBehind'
  <2> SUFFICES ASSUME wait.pc \in {"waiting", "listing", "deadline"}, me # "closed"
               PROVE  wait.last_seq <= inbox'.ack_seq
    BY <1>1 DEF WaitBehind
  <2>1. wait.last_seq <= inbox.ack_seq /\ wait.last_seq \in Nat
    BY BusAssumption DEF IInv, WaitBehind, Types, Wait
  <2> QED
    BY <1>3, <1>4, <2>1
<1>8. ReadersBehind'
  <2> SUFFICES ASSUME me # "closed", NEW q \in Readers
               PROVE  /\ reading'[q] < inbox.next_seq
                      /\ \A s \in Retained : s <= reading'[q] => s \in shown \cup acked
    BY <1>1, <1>4 DEF ReadersBehind
  <2>1. /\ reading[q] < inbox.next_seq
        /\ \A s \in Retained : s <= reading[q] => s \in shown \cup acked
    BY DEF IInv, ReadersBehind
  <2> QED
    BY <1>3, <1>5, <2>1
<1>9. ReadAreSeen'
  <2> SUFFICES ASSUME me # "closed", NEW s \in Retained, s <= inbox'.ack_seq
               PROVE  s \in shown \cup acked
    BY <1>1, <1>4 DEF ReadAreSeen
  <2>1. s <= inbox.ack_seq => s \in shown \cup acked
    BY DEF IInv, ReadAreSeen
  <2>2. s <= reading[r] => s \in shown \cup acked
    BY DEF IInv, ReadersBehind
  <2> QED
    BY <1>2, <1>3, <1>4, <2>1, <2>2
<1> QED
  BY <1>4, <1>6, <1>7, <1>8, <1>9 DEF IInv

-----------------------------------------------------------------------------
(* The theorems.                                                           *)

\* The invariant holds in every reachable state: every step keeps it.
THEOREM Invariant == Spec => []IInv
<1>1. IInv /\ [Next]_vars => IInv'
  <2> SUFFICES ASSUME IInv, [Next]_vars PROVE IInv'
    OBVIOUS
  <2>1. CASE UNCHANGED vars
    <3>1. UNCHANGED <<app, readers>> /\ sub' = sub /\ wait' = wait
      BY <2>1 DEF vars, app, readers
    <3> QED
      BY <3>1, ClientKeeps DEF IInv, Types, WaitBehind
  <2>2. CASE AppStep
    BY <2>2, SendKeeps, OtherEventKeeps, MovePaneKeeps, ClosePaneKeeps,
       AckRequestKeeps, ServerStopsKeeps DEF AppStep
  <2>3. CASE ReadStep
    <3>1. PICK r \in Readers :
            \/ \E all \in BOOLEAN :
                 \/ ReadList(r, FALSE, 0, all)
                 \/ \E after_seq \in 0..MaxSeq : ReadList(r, TRUE, after_seq, all)
            \/ ReadAck(r)
      BY <2>3 DEF ReadStep
    <3>2. 0 \in Nat /\ 0..MaxSeq \subseteq Nat /\ {TRUE, FALSE} \subseteq BOOLEAN
      BY BusAssumption
    <3> QED
      BY <3>1, <3>2, ReadListKeeps, ReadAckKeeps
  <2> QED
    BY <2>1, <2>2, <2>3, StreamStepKeeps, WaitStepKeeps DEF Next
<1> QED
  BY InitInv, <1>1, PTL DEF Spec

\* The types; in particular, nothing is left under an id that the pane had.
THEOREM TypeCorrect == Spec => []TypeOK
<1>1. IInv => TypeOK
  <2> SUFFICES ASSUME IInv PROVE TypeOK
    OBVIOUS
  <2>1. bus = [inboxes |-> bus.inboxes, pane_groups |-> <<>>, group_members |-> <<>>]
        /\ DOMAIN bus.inboxes \subseteq PaneIds \ past
    BY DEF IInv, BusSound, Types
  <2>2. /\ sub.last_sequence \in 0..hub.next_sequence /\ Len(hub.events) <= MaxEvents
        /\ sub.state \in {"none", "probed", "refused", "open", "closed"} /\ sub.lines \in Nat
        /\ sub.pane_id \in PaneIds \cup {"none"}
    BY DEF IInv, HubSound, Types, Sub
  <2>3. /\ wait.pc \in {"subscribing", "baseline", "waiting", "listing", "deadline", "done"}
        /\ wait.result \in {"none", "unsubscribed", "ok", "error", "timeout"}
        /\ wait.last_seq \in 0..MaxSeq /\ wait.printed \subseteq 1..MaxSeq
        /\ {wait.deadline, wait.expired, wait.reader_gone} \subseteq BOOLEAN
    BY DEF IInv, Types, Wait
  <2> QED
    BY <2>1, <2>2, <2>3 DEF IInv, Types, TypeOK
<1> QED
  BY Invariant, <1>1, PTL

\* A message is marked read only if somebody saw it or acked it by hand,
\* whatever arrives or is evicted between the two requests of `msg read`.
THEOREM NothingIsReadUnseen == Spec => []ReadOnlyWhatWasShown
<1>1. IInv => ReadOnlyWhatWasShown
  <2> SUFFICES ASSUME IInv, me # "closed", NEW s \in Bus!list(bus, me, 0, TRUE),
                      s <= inbox.ack_seq
               PROVE  s \in shown \cup acked
    BY DEF ReadOnlyWhatWasShown
  <2>1. s \in Retained
    BY Listed
  <2> QED
    BY <2>1 DEF IInv, ReadAreSeen
<1> QED
  BY Invariant, <1>1, PTL

\* A wait that succeeds prints all that is unread at that moment, for the
\* cursor cannot have been behind the baseline it listed from.
THEOREM WaitIsComplete == Spec => WaitPrintsUnread
<1> DEFINE Prints == SucceedsOnce => /\ wait'.printed # {}
                                     /\ unread \subseteq wait'.printed
                                     /\ wait'.printed \subseteq Bus!list(bus, me, 0, TRUE)
<1>1. IInv /\ [Next]_vars => [Prints]_vars
  <2> SUFFICES ASSUME IInv, Next, SucceedsOnce PROVE Prints
    BY DEF vars
  <2>1. /\ wait \in Wait /\ inbox.ack_seq \in Nat /\ wait.last_seq \in Nat
    <3>1. wait \in Wait /\ inbox.ack_seq \in Nat
      BY InboxIsSound, Numbers DEF IInv, Types
    <3> QED
      BY <3>1, BusAssumption DEF Wait
  <2>2. /\ Bus!list(bus, me, 0, TRUE) = Retained
        /\ Bus!UnreadSeqs(inbox) = {s \in Retained : s > inbox.ack_seq}
        /\ Bus!list(bus, me, wait.last_seq, TRUE) = {s \in Retained : s > wait.last_seq}
    BY <2>1, Everything
  <2>3. WaitStep \/ UNCHANGED wait \/ DeadlinePasses
    BY DEF Next, AppStep, Send, OtherEvent, MovePane, ClosePane, AckRequest, ServerStops,
           SubscribeStep, Probe, ProbeTimesOut, TakeCursor, StreamStep, StreamPoll,
           StreamStops, ReadStep, ReadList, ReadAck, readers
  <2>4. wait'.result = "ok" /\ wait.result = "none"
    BY DEF SucceedsOnce
  <2>5. CASE Baseline
    <3>1. /\ me # "closed" /\ wait'.printed = {s \in Retained : s > inbox.ack_seq}
          /\ wait'.printed # {}
      <4>1. \/ wait'.result = "error" \/ wait'.result = wait.result
            \/ /\ me # "closed"
               /\ {s \in Bus!list(bus, me, 0, TRUE) : s > inbox.ack_seq} # {}
               /\ wait'.printed = {s \in Bus!list(bus, me, 0, TRUE) : s > inbox.ack_seq}
        BY <2>1, <2>5 DEF Baseline, Answers, Finish, baseline_unread, Wait
      <4> QED
        BY <2>2, <2>4, <4>1
    <3> QED
      BY <2>2, <3>1 DEF unread
  <2>6. CASE Listing
    <3>1. /\ me # "closed" /\ wait'.printed = {s \in Retained : s > wait.last_seq}
          /\ wait'.printed # {} /\ wait.pc = "listing"
      <4>1. /\ wait.pc = "listing"
            /\ \/ wait'.result = "error" \/ wait'.result = wait.result
               \/ /\ me # "closed"
                  /\ Bus!list(bus, me, wait.last_seq, TRUE) # {}
                  /\ wait'.printed = Bus!list(bus, me, wait.last_seq, TRUE)
        BY <2>1, <2>6 DEF Listing, Answers, Finish, Wait
      <4> QED
        BY <2>2, <2>4, <4>1
    <3>2. wait.last_seq <= inbox.ack_seq
      BY <3>1 DEF IInv, WaitBehind
    <3>3. \A s \in Retained : s \in Nat
      BY InboxIsSound
    <3>4. \A s \in Retained : s > inbox.ack_seq => s > wait.last_seq
      BY <2>1, <3>2, <3>3
    <3>5. unread \subseteq wait'.printed /\ wait'.printed \subseteq Retained
      BY <2>2, <3>1, <3>4 DEF unread
    <3> QED
      BY <2>2, <3>1, <3>5
  <2>7. CASE ~(Baseline \/ Listing)
    <3>1. wait'.result \in {wait.result, "unsubscribed", "error", "timeout"}
      BY <2>1, <2>3, <2>7 DEF WaitStep, Subscribed, NotSubscribed, Wake, Tick, Closed,
         SocketTimeout, CheckDeadline, DeadlinePasses, Finish, Wait
    <3> QED
      BY <2>4, <3>1
  <2> QED
    BY <2>5, <2>6, <2>7
<1> QED
  BY Invariant, <1>1, PTL DEF Spec, WaitPrintsUnread
=============================================================================
