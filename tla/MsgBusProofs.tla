---------------------------- MODULE MsgBusProofs ----------------------------
(***************************************************************************)
(* Proofs about MsgBus, for every set of panes and groups and every value  *)
(* of the caps: its invariants, and that it implements Mailboxes.          *)
(***************************************************************************)
EXTENDS MsgBus, ProofLemmas

-----------------------------------------------------------------------------
(* The loop of enforce_caps.                                               *)

\* Dropping the oldest message leaves an inbox.
LEMMA DropOldestType ==
  ASSUME NEW i \in Inbox
  PROVE  drop_oldest(i) \in Inbox
<1>1. CASE i.messages = <<>>
  BY <1>1 DEF drop_oldest
<1>2. CASE i.messages # <<>>
  <2>1. i.messages \in Seq(Message)
    BY DEF Inbox
  <2>2. Tail(i.messages) \in Seq(Message) /\ Head(i.messages) \in Message
    BY <1>2, <2>1, HeadTailProperties
  <2>3. SaturatingSub(i.total_body_bytes, Head(i.messages).size) \in Nat
    BY <2>2 DEF Inbox, Message, SaturatingSub
  <2>4. drop_oldest(i) =
          [messages |-> Tail(i.messages), next_seq |-> i.next_seq,
           ack_seq |-> i.ack_seq, dropped |-> i.dropped + 1,
           total_body_bytes |->
             SaturatingSub(i.total_body_bytes, Head(i.messages).size)]
    BY <1>2 DEF drop_oldest, Inbox
  <2> QED
    BY <2>2, <2>3, <2>4 DEF Inbox
<1> QED
  BY <1>1, <1>2

\* The turns of the loop are what the recursion says they are.
LEMMA DroppingDef ==
  ASSUME NEW i \in Inbox
  PROVE  /\ Dropping(i)[0] = i
         /\ \A k \in 1..Len(i.messages) :
              Dropping(i)[k] = drop_oldest(Dropping(i)[k - 1])
<1> DEFINE n == Len(i.messages)
           Turns(f) == f = [k \in 0..n |->
                              IF k = 0 THEN i ELSE drop_oldest(f[k - 1])]
           F == [k \in 1..n |-> [j \in Inbox |-> drop_oldest(j)]]
<1>1. n \in Nat
  BY LenProperties DEF Inbox
<1>2. F \in [1..n -> [Inbox -> Inbox]]
  BY DropOldestType
<1>3. PICK f \in [0..n -> Inbox] :
        f[0] = i /\ \A k \in 1..n : f[k] = F[k][f[k - 1]]
  <2> HIDE DEF F, n
  <2> QED
    BY <1>1, <1>2, FunctionByRecursion
<1>4. ASSUME NEW k \in 1..n PROVE f[k] = drop_oldest(f[k - 1])
  <2>1. k - 1 \in 0..n /\ f[k - 1] \in Inbox
    BY <1>1
  <2> QED
    BY <1>3, <2>1
<1>5. Turns(f)
  BY <1>1, <1>3, <1>4
<1>6. Dropping(i) = CHOOSE g : Turns(g)
  BY DEF Dropping
<1>7. Turns(Dropping(i))
  <2> HIDE DEF Turns
  <2> QED
    BY <1>5, <1>6
<1>8. \A k \in 1..n : k \in 0..n /\ k # 0
  BY <1>1
<1>9. 0 \in 0..n
  BY <1>1
<1> QED
  BY <1>7, <1>8, <1>9

\* What drop_oldest preserves holds at every turn of the loop, and the k-th
\* turn has k messages fewer.
LEMMA DroppingInvariant ==
  ASSUME NEW S \in SUBSET Inbox, \A j \in S : drop_oldest(j) \in S, NEW i \in S
  PROVE  \A k \in 0..Len(i.messages) :
           /\ Dropping(i)[k] \in S
           /\ Len(Dropping(i)[k].messages) = Len(i.messages) - k
<1> DEFINE n == Len(i.messages)
           Good == {k \in Nat : k <= n =>
                      /\ Dropping(i)[k] \in S
                      /\ Len(Dropping(i)[k].messages) = n - k}
<1>1. n \in Nat
  BY LenProperties DEF Inbox
<1>2. 0 \in Good
  BY <1>1, DroppingDef
<1>3. ASSUME NEW k \in Nat, k \in Good PROVE k + 1 \in Good
  <2>1. SUFFICES ASSUME k + 1 <= n
                 PROVE  /\ Dropping(i)[k + 1] \in S
                        /\ Len(Dropping(i)[k + 1].messages) = n - (k + 1)
    OBVIOUS
  <2> DEFINE j == Dropping(i)[k]
  <2>2. j \in S /\ Len(j.messages) = n - k
    BY <1>1, <1>3, <2>1
  <2>3. Dropping(i)[k + 1] = drop_oldest(j)
    BY <1>1, <2>1, DroppingDef
  <2>4. j.messages \in Seq(Message) /\ j.messages # <<>>
    BY <1>1, <2>1, <2>2, EmptySeq DEF Inbox
  <2>5. Len(drop_oldest(j).messages) = Len(j.messages) - 1
    <3>1. Len(Tail(j.messages)) = Len(j.messages) - 1
      BY <2>4, HeadTailProperties
    <3> QED
      BY <2>2, <2>4, <3>1 DEF drop_oldest, Inbox
  <2> HIDE DEF j
  <2> QED
    BY <1>1, <2>2, <2>3, <2>5
<1>4. Nat \subseteq Good
  BY <1>2, <1>3, SetInduction
<1> QED
  BY <1>1, <1>4

\* The loop ends at one of its turns, the first that may stop.
LEMMA EnforceCapsStops ==
  ASSUME NEW i \in Inbox
  PROVE  \E k \in 0..Len(i.messages) :
           /\ enforce_caps(i) = Dropping(i)[k]
           /\ Stops(i, k)
           /\ \A j \in 0..(k - 1) : ~Stops(i, j)
<1> DEFINE n == Len(i.messages)
           First(k) == Stops(i, k) /\ \A j \in 0..(k - 1) : ~Stops(i, j)
           Stopping == {k \in 0..n : Stops(i, k)}
<1>1. n \in Nat
  BY LenProperties DEF Inbox
<1>2. n \in Stopping
  <2>1. \A k \in 0..n : /\ Dropping(i)[k] \in Inbox
                         /\ Len(Dropping(i)[k].messages) = n - k
    <3>1. \A j \in Inbox : drop_oldest(j) \in Inbox
      BY DropOldestType
    <3> QED
      BY <3>1, Inbox \in SUBSET Inbox, DroppingInvariant
  <2>2. Dropping(i)[n].messages = <<>>
    BY <1>1, <2>1, EmptySeq DEF Inbox
  <2> QED
    BY <1>1, <2>2 DEF Stops
<1>3. PICK m \in Stopping : \A j \in 0..(m - 1) : j \notin Stopping
  <2>1. Stopping \in SUBSET Nat /\ Stopping # {}
    BY <1>1, <1>2
  <2> HIDE DEF Stopping
  <2> QED
    BY <2>1, LeastElement
<1>4. m \in 0..n /\ First(m)
  BY <1>1, <1>3
<1>5. enforce_caps(i) = Dropping(i)[CHOOSE k \in 0..n : First(k)]
  BY DEF enforce_caps
<1> HIDE DEF First
<1>6. First(CHOOSE k \in 0..n : First(k)) /\ (CHOOSE k \in 0..n : First(k)) \in 0..n
  BY <1>4
<1> QED
  BY <1>5, <1>6 DEF First

-----------------------------------------------------------------------------
(* The byte count of a queue.                                              *)

\* The partial sums are what the recursion says they are, and naturals.
LEMMA NewestBytesDef ==
  ASSUME NEW s \in Seq(Message)
  PROVE  /\ NewestBytes(s)[0] = 0
         /\ \A k \in 1..Len(s) :
              NewestBytes(s)[k] = NewestBytes(s)[k - 1] + s[Len(s) - k + 1].size
         /\ \A k \in 0..Len(s) : NewestBytes(s)[k] \in Nat
<1> DEFINE n == Len(s)
           size(k) == s[n - k + 1].size
           Sums(f) == f = [k \in 0..n |-> IF k = 0 THEN 0 ELSE f[k - 1] + size(k)]
           F == [k \in 1..n |-> [v \in Nat |-> v + size(k)]]
<1>1. n \in Nat
  BY LenProperties
<1>2. \A k \in 1..n : size(k) \in Nat
  <2>1. ASSUME NEW k \in 1..n PROVE s[n - k + 1] \in Message
    <3>1. n - k + 1 \in 1..n
      BY <1>1
    <3> QED
      BY <3>1, ElementOfSeq
  <2> QED
    BY <2>1 DEF Message
<1> HIDE DEF size
<1>3. F \in [1..n -> [Nat -> Nat]]
  BY <1>2
<1>4. PICK f \in [0..n -> Nat] : f[0] = 0 /\ \A k \in 1..n : f[k] = F[k][f[k - 1]]
  <2> DEFINE V == Nat
             zero == 0
  <2>1. zero \in V /\ n \in Nat /\ F \in [1..n -> [V -> V]]
    BY <1>1, <1>3
  <2> HIDE DEF F, n, V, zero
  <2>2. \E f \in [0..n -> V] : f[0] = zero /\ \A k \in 1..n : f[k] = F[k][f[k - 1]]
    BY <2>1, FunctionByRecursion, SMTT(20)
  <2> QED
    BY <2>2 DEF V, zero
<1>5. ASSUME NEW k \in 1..n PROVE f[k] = f[k - 1] + size(k)
  <2>1. k - 1 \in 0..n /\ f[k - 1] \in Nat
    BY <1>1
  <2> QED
    BY <1>4, <2>1
<1>6. Sums(f)
  BY <1>1, <1>4, <1>5
<1>7. NewestBytes(s) = CHOOSE g : Sums(g)
  BY DEF NewestBytes, size
<1>8. Sums(NewestBytes(s))
  <2> HIDE DEF Sums
  <2> QED
    BY <1>6, <1>7
<1> DEFINE B == NewestBytes(s)
<1> HIDE DEF B
<1>9. B[0] = 0 /\ \A k \in 1..n : B[k] = B[k - 1] + size(k)
  BY <1>1, <1>8 DEF B
<1>10. \A k \in 0..n : B[k] \in Nat
  <2> DEFINE Good == {k \in Nat : k <= n => B[k] \in Nat}
  <2>1. 0 \in Good
    BY <1>9
  <2>2. ASSUME NEW k \in Nat, k \in Good PROVE k + 1 \in Good
    <3>1. SUFFICES ASSUME k + 1 <= n PROVE B[k + 1] \in Nat
      OBVIOUS
    <3>2. k + 1 \in 1..n /\ (k + 1) - 1 = k /\ B[k] \in Nat
      BY <1>1, <2>2, <3>1
    <3> QED
      BY <1>2, <1>9, <3>2
  <2>3. Nat \subseteq Good
    BY <2>1, <2>2, SetInduction
  <2> QED
    BY <1>1, <2>3
<1> QED
  BY <1>9, <1>10 DEF B, size

\* Dropping the oldest message takes its size off the byte count.
LEMMA NewestBytesTail ==
  ASSUME NEW s \in Seq(Message), s # <<>>
  PROVE  NewestBytes(s)[Len(s)] =
           NewestBytes(Tail(s))[Len(Tail(s))] + Head(s).size
<1> DEFINE t == Tail(s)
           n == Len(t)
           Good == {k \in Nat : k <= n => NewestBytes(t)[k] = NewestBytes(s)[k]}
<1>1. /\ t \in Seq(Message) /\ n \in Nat /\ Len(s) = n + 1
      /\ \A k \in 1..n : t[k] = s[k + 1]
      /\ Head(s) = s[1]
  BY HeadTailProperties, LenProperties
<1> HIDE DEF t, n
<1>2. 0 \in Good
  BY <1>1, NewestBytesDef
<1>3. ASSUME NEW k \in Nat, k \in Good PROVE k + 1 \in Good
  <2>1. SUFFICES ASSUME k + 1 <= n
                 PROVE  NewestBytes(t)[k + 1] = NewestBytes(s)[k + 1]
    OBVIOUS
  <2>2. /\ k + 1 \in 1..n /\ k + 1 \in 1..Len(s) /\ (k + 1) - 1 = k
        /\ n - (k + 1) + 1 \in 1..n
    BY <1>1, <2>1
  <2>3. NewestBytes(t)[k + 1] = NewestBytes(t)[k] + t[n - (k + 1) + 1].size
    BY <1>1, <2>2, NewestBytesDef DEF n
  <2>4. NewestBytes(s)[k + 1] = NewestBytes(s)[k] + s[Len(s) - (k + 1) + 1].size
    BY <1>1, <2>2, NewestBytesDef
  <2>5. t[n - (k + 1) + 1] = s[Len(s) - (k + 1) + 1]
    BY <1>1, <2>2
  <2>6. NewestBytes(t)[k] = NewestBytes(s)[k]
    BY <1>3, <2>1, <1>1
  <2> QED
    BY <2>3, <2>4, <2>5, <2>6
<1>4. NewestBytes(t)[n] = NewestBytes(s)[n]
  <2>1. Nat \subseteq Good
    BY <1>2, <1>3, SetInduction
  <2> QED
    BY <1>1, <2>1
<1>5. NewestBytes(s)[n + 1] = NewestBytes(s)[n] + s[1].size
  <2>1. n + 1 \in 1..Len(s) /\ (n + 1) - 1 = n /\ Len(s) - (n + 1) + 1 = 1
    BY <1>1
  <2> QED
    BY <2>1, NewestBytesDef
<1> QED
  BY <1>1, <1>4, <1>5 DEF t, n

\* Appending a message adds its size to the byte count.
LEMMA NewestBytesAppend ==
  ASSUME NEW s \in Seq(Message), NEW e \in Message
  PROVE  NewestBytes(Append(s, e))[Len(s) + 1] = NewestBytes(s)[Len(s)] + e.size
<1> DEFINE t == Append(s, e)
           n == Len(s)
           Good == {k \in Nat : k <= n =>
                      NewestBytes(t)[k + 1] = NewestBytes(s)[k] + e.size}
<1>1. /\ t \in Seq(Message) /\ n \in Nat /\ Len(t) = n + 1
      /\ \A k \in 1..n : t[k] = s[k]
      /\ t[n + 1] = e
      /\ e.size \in Nat
  BY AppendProperties, LenProperties DEF Message
<1> HIDE DEF t, n
<1>2. 0 \in Good
  <2>1. 1 \in 1..Len(t) /\ 1 - 1 = 0 /\ Len(t) - 1 + 1 = n + 1
    BY <1>1
  <2>2. NewestBytes(t)[1] = NewestBytes(t)[0] + t[n + 1].size
    BY <1>1, <2>1, NewestBytesDef
  <2> QED
    BY <1>1, <2>2, NewestBytesDef
<1>3. ASSUME NEW k \in Nat, k \in Good PROVE k + 1 \in Good
  <2>1. SUFFICES ASSUME k + 1 <= n
                 PROVE  NewestBytes(t)[k + 1 + 1] = NewestBytes(s)[k + 1] + e.size
    OBVIOUS
  <2>2. /\ k + 2 \in 1..Len(t) /\ (k + 2) - 1 = k + 1 /\ k + 1 + 1 = k + 2
        /\ k + 1 \in 1..n /\ (k + 1) - 1 = k /\ k \in 0..n
        /\ Len(t) - (k + 2) + 1 = n - (k + 1) + 1
        /\ n - (k + 1) + 1 \in 1..n
    BY <1>1, <2>1
  <2>3. NewestBytes(t)[k + 2] = NewestBytes(t)[k + 1] + t[n - (k + 1) + 1].size
    BY <1>1, <2>2, NewestBytesDef
  <2>4. NewestBytes(s)[k + 1] = NewestBytes(s)[k] + s[n - (k + 1) + 1].size
    BY <1>1, <2>2, NewestBytesDef DEF n
  <2>5. t[n - (k + 1) + 1] = s[n - (k + 1) + 1]
    BY <1>1, <2>2
  <2>7. s[n - (k + 1) + 1].size \in Nat
    <3>1. s[n - (k + 1) + 1] \in Message
      BY <2>2, ElementOfSeq DEF n
    <3> QED
      BY <3>1 DEF Message
  <2>8. NewestBytes(s)[k] \in Nat
    BY <2>2, NewestBytesDef DEF n
  <2>6. NewestBytes(t)[k + 1] = NewestBytes(s)[k] + e.size
    BY <1>3, <2>1, <2>2
  <2> QED
    BY <1>1, <2>2, <2>3, <2>4, <2>5, <2>6, <2>7, <2>8
<1>4. Nat \subseteq Good
  BY <1>2, <1>3, SetInduction
<1> QED
  BY <1>1, <1>4 DEF t, n

-----------------------------------------------------------------------------
(* One inbox under deliver and ack.                                        *)

\* What holds of every inbox between two calls.
SoundInbox(i) ==
  /\ i \in Inbox
  /\ Accounted(i)
  /\ CursorBehind(i)
  /\ BytesExact(i)
  /\ ~OverCaps(i)

\* What holds of an inbox inside deliver, from the push to the last turn of
\* enforce_caps; `size` is the size of the message just pushed.
Delivering(i, next_seq, ack_seq, dropped, size) ==
  /\ Accounted(i)
  /\ BytesExact(i)
  /\ i.next_seq = next_seq /\ i.ack_seq = ack_seq /\ i.dropped >= dropped
  /\ i.messages # <<>> => i.messages[Len(i.messages)].size = size

\* A turn of the loop keeps what holds inside deliver: numbers stay
\* consecutive, the saturating subtraction is exact, the newest message stays.
LEMMA DropOldestDelivering ==
  ASSUME NEW n, NEW a, NEW d \in Nat, NEW size, NEW i \in Inbox,
         Delivering(i, n, a, d, size)
  PROVE  Delivering(drop_oldest(i), n, a, d, size)
<1>1. CASE i.messages = <<>>
  BY <1>1 DEF drop_oldest
<1>2. CASE i.messages # <<>>
  <2> DEFINE s == i.messages
             t == Tail(s)
             j == drop_oldest(i)
  <2>1. /\ s \in Seq(Message) /\ t \in Seq(Message)
        /\ Len(s) \in Nat /\ Len(t) \in Nat /\ Len(s) = Len(t) + 1
        /\ Head(s) \in Message
        /\ \A k \in 1..Len(t) : t[k] = s[k + 1]
    BY <1>2, HeadTailProperties, LenProperties DEF Inbox
  <2>2. /\ j.messages = t
        /\ j.total_body_bytes = SaturatingSub(i.total_body_bytes, Head(s).size)
        /\ j.dropped = i.dropped + 1
        /\ j.next_seq = i.next_seq /\ j.ack_seq = i.ack_seq
        /\ i.dropped \in Nat
    BY <1>2 DEF drop_oldest, Inbox
  <2>3. Accounted(j)
    <3>1. j.next_seq = j.dropped + Len(t) + 1
      <4>1. i.next_seq = i.dropped + Len(s) + 1
        BY DEF Delivering, Accounted
      <4> HIDE DEF j, t, s
      <4> QED
        BY <2>1, <2>2, <4>1
    <3>2. ASSUME NEW k \in 1..Len(t) PROVE t[k].seq = j.dropped + k
      <4>1. k + 1 \in 1..Len(s) /\ t[k] = s[k + 1]
        BY <2>1
      <4>2. s[k + 1].seq = i.dropped + (k + 1)
        BY <4>1 DEF Delivering, Accounted
      <4> QED
        BY <2>2, <4>1, <4>2
    <3> QED
      BY <2>2, <3>1, <3>2 DEF Accounted
  <2>4. BytesExact(j)
    <3>1. NewestBytes(s)[Len(s)] = NewestBytes(t)[Len(t)] + Head(s).size
      BY <1>2, <2>1, NewestBytesTail
    <3>2. NewestBytes(t)[Len(t)] \in Nat /\ Head(s).size \in Nat
      <4>1. Head(s).size \in Nat
        BY <2>1 DEF Message
      <4>2. Len(t) \in 0..Len(t)
        BY <2>1
      <4> HIDE DEF t, s
      <4> QED
        BY <2>1, <4>1, <4>2, NewestBytesDef
    <3>3. i.total_body_bytes = NewestBytes(s)[Len(s)]
      BY DEF Delivering, BytesExact, QueuedBytes
    <3>4. j.total_body_bytes = NewestBytes(t)[Len(t)]
      BY <2>2, <3>1, <3>2, <3>3 DEF SaturatingSub
    <3> QED
      BY <2>2, <3>4 DEF BytesExact, QueuedBytes
  <2>5. t # <<>> => t[Len(t)].size = size
    <3>1. SUFFICES ASSUME t # <<>> PROVE t[Len(t)].size = size
      OBVIOUS
    <3>2. Len(t) \in 1..Len(t)
      BY <2>1, <3>1, EmptySeq
    <3>3. t[Len(t)] = s[Len(s)]
      BY <2>1, <3>2
    <3> QED
      BY <1>2, <3>3 DEF Delivering
  <2> HIDE DEF j, t, s
  <2>6. j.next_seq = n /\ j.ack_seq = a /\ j.dropped >= d
    BY <2>2 DEF Delivering
  <2> QED
    BY <2>2, <2>3, <2>4, <2>5, <2>6 DEF Delivering, j
<1> QED
  BY <1>1, <1>2

\* When a body is no larger than the queue may be, enforce_caps leaves a
\* sound inbox in which the message just pushed is still the newest.
LEMMA EnforceCapsSound ==
  ASSUME NEW i \in Inbox, NEW size \in Nat, size <= MaxBody,
         Delivering(i, i.next_seq, i.ack_seq, i.dropped, size),
         i.messages # <<>>, i.ack_seq < i.next_seq
  PROVE  /\ SoundInbox(enforce_caps(i))
         /\ enforce_caps(i).next_seq = i.next_seq
         /\ enforce_caps(i).ack_seq = i.ack_seq
         /\ enforce_caps(i).dropped \in i.dropped .. (i.next_seq - 2)
<1> DEFINE S == {j \in Inbox :
                   Delivering(j, i.next_seq, i.ack_seq, i.dropped, size)}
           n == Len(i.messages)
           D == Dropping(i)
<1>1. n \in Nat \ {0} /\ i.messages \in Seq(Message) /\ i.dropped \in Nat
  BY EmptySeq DEF Inbox
<1>2. \A k \in 0..n : D[k] \in S /\ Len(D[k].messages) = n - k
  <2>1. \A j \in S : drop_oldest(j) \in S
    BY <1>1, DropOldestType, DropOldestDelivering
  <2> HIDE DEF S
  <2>2. S \in SUBSET Inbox /\ i \in S
    BY DEF S
  <2> QED
    BY <2>1, <2>2, DroppingInvariant
<1>3. PICK k \in 0..n : /\ enforce_caps(i) = D[k]
                        /\ Stops(i, k)
                        /\ \A m \in 0..(k - 1) : ~Stops(i, m)
  BY EnforceCapsStops
<1>4. Stops(i, n - 1)
  <2> DEFINE j == D[n - 1]
  <2>1. j \in S /\ Len(j.messages) = 1
    <3>1. n - 1 \in 0..n /\ n - (n - 1) = 1
      BY <1>1
    <3> HIDE DEF n, S
    <3> QED
      BY <1>2, <3>1
  <2> HIDE DEF j
  <2>2. j.messages \in Seq(Message) /\ j.messages # <<>>
    <3>1. j.messages \in Seq(Message)
      BY <2>1 DEF Inbox
    <3>2. j.messages = <<>> => Len(j.messages) = 0
      OBVIOUS
    <3> QED
      BY <2>1, <3>1, <3>2
  <2>3. j.messages[1].size = size
    BY <2>1, <2>2 DEF Delivering
  <2>4. NewestBytes(j.messages)[1] = NewestBytes(j.messages)[0] + size
    <3>1. 1 \in 1..Len(j.messages) /\ 1 - 1 = 0 /\ Len(j.messages) - 1 + 1 = 1
      BY <2>1
    <3> QED
      BY <2>2, <2>3, <3>1, NewestBytesDef
  <2>5. j.total_body_bytes = size
    BY <2>1, <2>2, <2>4, NewestBytesDef DEF Delivering, BytesExact, QueuedBytes
  <2>6. ~OverCaps(j)
    BY <2>1, <2>5, CapsAssumption DEF OverCaps
  <2> QED
    BY <2>6 DEF Stops, j
<1>5. k <= n - 1
  BY <1>1, <1>3, <1>4
<1> DEFINE r == D[k]
<1>6. /\ r \in Inbox
      /\ Delivering(r, i.next_seq, i.ack_seq, i.dropped, size)
      /\ Len(r.messages) = n - k
  BY <1>2
<1> HIDE DEF D, S, r, n
<1>7. Len(r.messages) \in Nat \ {0}
  BY <1>1, <1>5, <1>6
<1>8. r.messages # <<>>
  BY <1>7, EmptySeq
<1>9. ~OverCaps(r)
  BY <1>3, <1>8 DEF Stops, r, D
<1>10. r.next_seq = r.dropped + Len(r.messages) + 1
  BY <1>6 DEF Delivering, Accounted
<1>11. newest_seq(r) = r.next_seq - 1
  <2>1. r.messages[Len(r.messages)].seq = r.dropped + Len(r.messages)
    BY <1>6, <1>7 DEF Delivering, Accounted
  <2> QED
    BY <1>6, <1>7, <1>8, <1>10, <2>1 DEF newest_seq, Inbox
<1>12. CursorBehind(r)
  BY <1>6, <1>8, <1>11 DEF CursorBehind, Delivering, Inbox
<1>13. r.dropped \in i.dropped .. (i.next_seq - 2)
  <2>1. /\ i.dropped \in Nat /\ i.next_seq \in Nat /\ r.dropped \in Nat
        /\ r.next_seq = i.next_seq /\ r.dropped >= i.dropped
    BY <1>1, <1>6 DEF Delivering, Inbox
  <2> QED
    BY <1>7, <1>10, <2>1
<1>14. enforce_caps(i) = r
  BY <1>3 DEF r
<1> QED
  BY <1>6, <1>9, <1>12, <1>13, <1>14 DEF SoundInbox, Delivering

\* deliver turns a sound inbox, or a new one, into a sound inbox; the new
\* message takes the next number and only older messages may be dropped.
LEMMA DeliverSound ==
  ASSUME NEW i \in Inbox, SoundInbox(i) \/ i = NewInbox,
         NEW size \in Nat, size <= MaxBody
  PROVE  LET r == enforce_caps(push_back(i, size)) IN
         /\ SoundInbox(r)
         /\ r.next_seq = i.next_seq + 1
         /\ r.ack_seq = i.ack_seq
         /\ r.dropped \in i.dropped .. (i.next_seq - 1)
<1> DEFINE e == [seq |-> i.next_seq, size |-> size]
           s == i.messages
           t == Append(s, e)
           j == push_back(i, size)
<1>1. /\ Accounted(i) /\ BytesExact(i)
      /\ i.ack_seq < i.next_seq
  <2>1. CASE i = NewInbox
    <3>1. Accounted(i) /\ i.ack_seq < i.next_seq
      BY <2>1 DEF NewInbox, Accounted
    <3>2. i.messages = <<>> /\ i.total_body_bytes = 0 /\ <<>> \in Seq(Message)
      BY <2>1 DEF NewInbox
    <3>3. NewestBytes(<<>>)[Len(<<>>)] = 0
      BY <3>2, NewestBytesDef
    <3> QED
      BY <3>1, <3>2, <3>3 DEF BytesExact, QueuedBytes
  <2>2. CASE SoundInbox(i)
    <3>1. s # <<>> /\ s \in Seq(Message)
      BY <2>2 DEF SoundInbox, CursorBehind, Inbox
    <3>2. Len(s) \in 1..Len(s)
      BY <3>1, EmptySeq
    <3>3. newest_seq(i) = i.dropped + Len(s)
      BY <2>2, <3>1, <3>2 DEF SoundInbox, Accounted, newest_seq
    <3>4. i.ack_seq < i.next_seq
      BY <2>2, <3>2, <3>3 DEF SoundInbox, Accounted, CursorBehind, Inbox
    <3> QED
      BY <2>2, <3>4 DEF SoundInbox
  <2> QED
    BY <2>1, <2>2
<1>2. /\ s \in Seq(Message) /\ e \in Message /\ t \in Seq(Message) /\ t # <<>>
      /\ Len(s) \in Nat /\ Len(t) = Len(s) + 1
      /\ \A k \in 1..Len(s) : t[k] = s[k]
      /\ t[Len(s) + 1] = e
  <2>1. s \in Seq(Message) /\ e \in Message
    BY DEF Inbox, Message
  <2> QED
    BY <2>1, AppendProperties, LenProperties
<1>3. j = [messages |-> t, next_seq |-> i.next_seq + 1, ack_seq |-> i.ack_seq,
           dropped |-> i.dropped, total_body_bytes |-> i.total_body_bytes + size]
  <2>1. j = [i EXCEPT !.messages = t, !.next_seq = i.next_seq + 1,
                      !.total_body_bytes = i.total_body_bytes + size]
    BY DEF push_back
  <2> HIDE DEF j, t
  <2> QED
    BY <2>1 DEF Inbox
<1>4. /\ i.next_seq \in Nat /\ i.dropped \in Nat /\ i.ack_seq \in Nat
      /\ i.total_body_bytes \in Nat
  BY DEF Inbox
<1> HIDE DEF t, j
<1>5. j \in Inbox
  BY <1>2, <1>3, <1>4 DEF Inbox
<1>6. Accounted(j)
  <2>1. j.next_seq = j.dropped + Len(t) + 1
    BY <1>1, <1>2, <1>3, <1>4 DEF Accounted
  <2>2. ASSUME NEW k \in 1..Len(t) PROVE t[k].seq = i.dropped + k
    <3>1. CASE k \in 1..Len(s)
      BY <1>1, <1>2, <3>1 DEF Accounted
    <3>2. CASE k = Len(s) + 1
      <4>1. t[k] = e /\ e.seq = i.next_seq
        BY <1>2, <3>2
      <4>2. i.next_seq = i.dropped + (Len(s) + 1)
        BY <1>1, <1>2, <1>4 DEF Accounted
      <4> QED
        BY <3>2, <4>1, <4>2
    <3> QED
      BY <1>2, <3>1, <3>2
  <2> QED
    BY <1>3, <2>1, <2>2 DEF Accounted
<1>7. BytesExact(j)
  <2>1. NewestBytes(t)[Len(t)] = NewestBytes(s)[Len(s)] + size
    BY <1>2, NewestBytesAppend DEF t
  <2> QED
    BY <1>1, <1>3, <2>1 DEF BytesExact, QueuedBytes
<1>8. Delivering(j, j.next_seq, j.ack_seq, j.dropped, size)
  BY <1>2, <1>3, <1>4, <1>6, <1>7 DEF Delivering
<1>9. /\ SoundInbox(enforce_caps(j))
      /\ enforce_caps(j).next_seq = j.next_seq
      /\ enforce_caps(j).ack_seq = j.ack_seq
      /\ enforce_caps(j).dropped \in j.dropped .. (j.next_seq - 2)
  <2>1. j.messages # <<>> /\ j.ack_seq < j.next_seq
    BY <1>1, <1>2, <1>3, <1>4
  <2> QED
    BY <1>5, <1>8, <2>1, EnforceCapsSound
<1> QED
  BY <1>3, <1>4, <1>9 DEF j

\* ack keeps an inbox sound; it moves the cursor forward or not at all, and
\* never past the newest message.
LEMMA AckSound ==
  ASSUME NEW i, SoundInbox(i), NEW n \in Nat
  PROVE  LET r == ack_inbox(i, n) IN
         /\ SoundInbox(r)
         /\ r.next_seq = i.next_seq /\ r.dropped = i.dropped
         /\ r.ack_seq \in i.ack_seq .. (i.next_seq - 1)
<1>1. /\ i \in Inbox /\ i.messages \in Seq(Message) /\ i.messages # <<>>
      /\ i.next_seq \in Nat /\ i.dropped \in Nat /\ i.ack_seq \in Nat
  BY DEF SoundInbox, CursorBehind, Inbox
<1>2. Len(i.messages) \in Nat \ {0}
  BY <1>1, EmptySeq
<1>3. newest_seq(i) = i.next_seq - 1 /\ newest_seq(i) \in Nat
  <2>1. Len(i.messages) \in 1..Len(i.messages)
    BY <1>2
  <2>2. newest_seq(i) = i.dropped + Len(i.messages)
    BY <1>1, <2>1 DEF SoundInbox, Accounted, newest_seq
  <2> QED
    BY <1>1, <1>2, <2>2 DEF SoundInbox, Accounted
<1> DEFINE c == IF n <= newest_seq(i) THEN n ELSE newest_seq(i)
<1>4. c \in Nat /\ c <= newest_seq(i)
  BY <1>3
<1>5. CASE c > i.ack_seq
  <2> DEFINE r == [messages |-> i.messages, next_seq |-> i.next_seq,
                   ack_seq |-> c, dropped |-> i.dropped,
                   total_body_bytes |-> i.total_body_bytes]
  <2>1. ack_inbox(i, n) = r
    BY <1>1, <1>5 DEF ack_inbox, Inbox
  <2>2. r \in Inbox /\ newest_seq(r) = newest_seq(i)
    BY <1>1, <1>4 DEF Inbox, newest_seq
  <2>3. SoundInbox(r)
    BY <1>4, <2>2 DEF SoundInbox, Accounted, CursorBehind, BytesExact,
       QueuedBytes, OverCaps
  <2> QED
    BY <1>1, <1>3, <1>4, <1>5, <2>1, <2>3
<1>6. CASE ~(c > i.ack_seq)
  <2>1. ack_inbox(i, n) = i
    BY <1>6 DEF ack_inbox
  <2> QED
    BY <1>1, <1>3, <2>1 DEF SoundInbox, CursorBehind
<1> QED
  BY <1>5, <1>6

-----------------------------------------------------------------------------
(* The inductive invariant, in two parts: the inboxes and the two indexes. *)

InboxesSound(f) ==
  /\ DOMAIN f \subseteq PaneIds
  /\ \A p \in DOMAIN f : SoundInbox(f[p])

IndexesSound(pg, gm) ==
  /\ DOMAIN pg \subseteq PaneIds /\ DOMAIN gm \subseteq Groups
  /\ \A p \in DOMAIN pg : pg[p] \subseteq Groups /\ pg[p] # {}
  /\ \A g \in DOMAIN gm : gm[g] \subseteq PaneIds /\ gm[g] # {}
  /\ \A p \in PaneIds, g \in Groups : g \in Get(pg, p, {}) <=> p \in Get(gm, g, {})

IInv ==
  /\ bus = [inboxes |-> bus.inboxes, pane_groups |-> bus.pane_groups,
            group_members |-> bus.group_members]
  /\ InboxesSound(bus.inboxes)
  /\ IndexesSound(bus.pane_groups, bus.group_members)

\* The invariant gives every invariant that the model checker checks.
LEMMA IInvImplies ==
  IInv => TypeOK /\ SeqAccounting /\ NothingReadAhead /\ CapsHold /\ IndexesAgree
BY DEF IInv, InboxesSound, IndexesSound, SoundInbox, TypeOK, SeqAccounting,
       NothingReadAhead, CapsHold, IndexesAgree

\* Inboxes stay sound when one is replaced, one is taken out, one is re-keyed.
LEMMA PutInbox ==
  ASSUME NEW f, InboxesSound(f), NEW p \in PaneIds, NEW i, SoundInbox(i)
  PROVE  InboxesSound(Put(f, p, i))
BY DEF InboxesSound, Put

LEMMA WithoutInbox ==
  ASSUME NEW f, InboxesSound(f), NEW p
  PROVE  InboxesSound(Without(f, p))
BY DEF InboxesSound, Without

LEMMA MoveInbox ==
  ASSUME NEW f, InboxesSound(f), NEW old, NEW new \in PaneIds
  PROVE  InboxesSound(MoveKey(f, old, new))
<1>1. CASE old \in DOMAIN f
  BY <1>1, WithoutInbox, PutInbox DEF MoveKey, InboxesSound
<1>2. CASE old \notin DOMAIN f
  BY <1>2 DEF MoveKey
<1> QED
  BY <1>1, <1>2

\* Joining adds the pair to both indexes.
LEMMA JoinIndexes ==
  ASSUME NEW pg, NEW gm, IndexesSound(pg, gm), NEW p \in PaneIds, NEW g \in Groups
  PROVE  IndexesSound(Put(pg, p, Get(pg, p, {}) \cup {g}),
                      Put(gm, g, Get(gm, g, {}) \cup {p}))
<1> DEFINE pg1 == Put(pg, p, Get(pg, p, {}) \cup {g})
           gm1 == Put(gm, g, Get(gm, g, {}) \cup {p})
<1>1. \A q \in PaneIds : Get(pg1, q, {}) = IF q = p THEN Get(pg, p, {}) \cup {g}
                                                 ELSE Get(pg, q, {})
  BY DEF Put, Get
<1>2. \A h \in Groups : Get(gm1, h, {}) = IF h = g THEN Get(gm, g, {}) \cup {p}
                                                ELSE Get(gm, h, {})
  BY DEF Put, Get
<1>3. /\ DOMAIN pg1 \subseteq PaneIds /\ DOMAIN gm1 \subseteq Groups
      /\ \A q \in DOMAIN pg1 : pg1[q] \subseteq Groups /\ pg1[q] # {}
      /\ \A h \in DOMAIN gm1 : gm1[h] \subseteq PaneIds /\ gm1[h] # {}
  BY DEF IndexesSound, Put, Get
<1> HIDE DEF pg1, gm1
<1>4. \A q \in PaneIds, h \in Groups :
        h \in Get(pg1, q, {}) <=> q \in Get(gm1, h, {})
  BY <1>1, <1>2 DEF IndexesSound
<1> QED
  BY <1>3, <1>4 DEF IndexesSound, pg1, gm1

\* What RemoveFrom leaves under each key.
LEMMA RemoveFromGet ==
  ASSUME NEW f, NEW k, NEW x, NEW l
  PROVE  Get(RemoveFrom(f, k, x), l, {}) =
           IF l = k THEN Get(f, k, {}) \ {x} ELSE Get(f, l, {})
<1>1. CASE k \notin DOMAIN f
  BY <1>1 DEF RemoveFrom, Get
<1>2. CASE k \in DOMAIN f /\ f[k] \ {x} = {}
  BY <1>2 DEF RemoveFrom, Get, Without
<1>3. CASE k \in DOMAIN f /\ f[k] \ {x} # {}
  BY <1>3 DEF RemoveFrom, Get
<1> QED
  BY <1>1, <1>2, <1>3

\* RemoveFrom adds no key and leaves no empty entry that was not there.
LEMMA RemoveFromType ==
  ASSUME NEW f, NEW k, NEW x, NEW S,
         \A l \in DOMAIN f : f[l] \subseteq S /\ f[l] # {}
  PROVE  LET r == RemoveFrom(f, k, x) IN
         /\ DOMAIN r \subseteq DOMAIN f
         /\ \A l \in DOMAIN r : r[l] \subseteq S /\ r[l] # {}
<1>1. CASE k \notin DOMAIN f
  BY <1>1 DEF RemoveFrom
<1>2. CASE k \in DOMAIN f /\ f[k] \ {x} = {}
  BY <1>2 DEF RemoveFrom, Without
<1>3. CASE k \in DOMAIN f /\ f[k] \ {x} # {}
  BY <1>3 DEF RemoveFrom
<1> QED
  BY <1>1, <1>2, <1>3

\* Leaving takes the pair out of both indexes.
LEMMA LeaveIndexes ==
  ASSUME NEW pg, NEW gm, IndexesSound(pg, gm), NEW p \in PaneIds, NEW g \in Groups
  PROVE  IndexesSound(RemoveFrom(pg, p, g), RemoveFrom(gm, g, p))
<1> DEFINE pg1 == RemoveFrom(pg, p, g)
           gm1 == RemoveFrom(gm, g, p)
<1>1. /\ DOMAIN pg1 \subseteq PaneIds
      /\ \A q \in DOMAIN pg1 : pg1[q] \subseteq Groups /\ pg1[q] # {}
  BY RemoveFromType DEF IndexesSound
<1>2. /\ DOMAIN gm1 \subseteq Groups
      /\ \A h \in DOMAIN gm1 : gm1[h] \subseteq PaneIds /\ gm1[h] # {}
  BY RemoveFromType DEF IndexesSound
<1>3. /\ \A q : Get(pg1, q, {}) = IF q = p THEN Get(pg, p, {}) \ {g}
                                           ELSE Get(pg, q, {})
      /\ \A h : Get(gm1, h, {}) = IF h = g THEN Get(gm, g, {}) \ {p}
                                           ELSE Get(gm, h, {})
  BY RemoveFromGet
<1> HIDE DEF pg1, gm1
<1>4. \A q \in PaneIds, h \in Groups :
        h \in Get(pg1, q, {}) <=> q \in Get(gm1, h, {})
  BY <1>3 DEF IndexesSound
<1> QED
  BY <1>1, <1>2, <1>4 DEF IndexesSound, pg1, gm1

\* remove_pane takes every pair of the pane out of both indexes.
LEMMA RemoveIndexes ==
  ASSUME NEW b, IndexesSound(b.pane_groups, b.group_members), NEW p \in PaneIds
  PROVE  LET r == remove_pane(b, p) IN
         /\ IndexesSound(r.pane_groups, r.group_members)
         /\ \A q \in PaneIds : Get(r.pane_groups, q, {}) =
                                 IF q = p THEN {} ELSE Get(b.pane_groups, q, {})
         /\ \A g \in Groups : Get(r.group_members, g, {}) =
                                 Get(b.group_members, g, {}) \ {p}
<1> DEFINE pg == b.pane_groups
           gm == b.group_members
           mine == Get(pg, p, {})
           left(g) == IF g \in mine THEN gm[g] \ {p} ELSE gm[g]
           kept == {h \in DOMAIN gm : h \in mine => left(h) # {}}
           pg1 == Without(pg, p)
           gm1 == [g \in kept |-> left(g)]
<1>1. remove_pane(b, p).pane_groups = pg1 /\ remove_pane(b, p).group_members = gm1
  BY DEF remove_pane
<1>2. \A g \in DOMAIN gm : left(g) = gm[g] \ {p}
  <2>1. \A g \in DOMAIN gm : g \in Groups /\ gm[g] = Get(gm, g, {})
    BY DEF IndexesSound, Get
  <2> QED
    BY <2>1 DEF IndexesSound
<1>3. \A g \in DOMAIN gm : g \in kept <=> gm[g] \ {p} # {}
  BY <1>2 DEF IndexesSound
<1>4. \A g \in Groups : Get(gm1, g, {}) = Get(gm, g, {}) \ {p}
  BY <1>2, <1>3 DEF Get
<1>5. \A q \in PaneIds : Get(pg1, q, {}) = IF q = p THEN {} ELSE Get(pg, q, {})
  BY DEF Get, Without
<1>6. /\ DOMAIN gm1 \subseteq Groups
      /\ \A g \in DOMAIN gm1 : gm1[g] \subseteq PaneIds /\ gm1[g] # {}
  BY <1>2, <1>3 DEF IndexesSound
<1>7. /\ DOMAIN pg1 \subseteq PaneIds
      /\ \A q \in DOMAIN pg1 : pg1[q] \subseteq Groups /\ pg1[q] # {}
  BY DEF IndexesSound, Without
<1> HIDE DEF pg1, gm1
<1>8. \A q \in PaneIds, g \in Groups :
        g \in Get(pg1, q, {}) <=> q \in Get(gm1, g, {})
  BY <1>4, <1>5 DEF IndexesSound
<1> QED
  BY <1>1, <1>4, <1>5, <1>6, <1>7, <1>8 DEF IndexesSound

\* A group's members after `old` becomes `new`.
Renamed(members, old, new) ==
  (members \ {old, new}) \cup (IF old \in members THEN {new} ELSE {})

\* Re-keying gives the pairs of `old` to `new`, and `new` keeps none of its own.
LEMMA RekeyIndexes ==
  ASSUME NEW b, IndexesSound(b.pane_groups, b.group_members),
         NEW old \in PaneIds, NEW new \in PaneIds, old # new
  PROVE  LET r == rekey_pane(b, old, new) IN
         /\ IndexesSound(r.pane_groups, r.group_members)
         /\ \A g \in Groups :
              Get(r.group_members, g, {}) = Renamed(Get(b.group_members, g, {}), old, new)
<1> DEFINE c == remove_pane(b, new)
           pg == c.pane_groups
           gm == c.group_members
           mine == Get(pg, old, {})
           pg1 == MoveKey(pg, old, new)
           gm1 == [g \in DOMAIN gm |-> IF g \in mine THEN (gm[g] \ {old}) \cup {new}
                                                     ELSE gm[g]]
           r == rekey_pane(b, old, new)
<1>1. r.pane_groups = pg1 /\ r.group_members = gm1
  BY DEF rekey_pane
<1>2. /\ IndexesSound(pg, gm)
      /\ Get(pg, new, {}) = {}
      /\ \A g \in Groups : Get(gm, g, {}) = Get(b.group_members, g, {}) \ {new}
  BY RemoveIndexes
<1> HIDE DEF c
<1>3. \A g \in Groups : g \in mine <=> old \in Get(gm, g, {})
  BY <1>2 DEF IndexesSound
<1>4. \A g \in Groups : Get(gm1, g, {}) =
        IF old \in Get(gm, g, {}) THEN (Get(gm, g, {}) \ {old}) \cup {new}
                                  ELSE Get(gm, g, {})
  BY <1>3 DEF Get
<1>5. \A q \in PaneIds : Get(pg1, q, {}) =
        IF q = old THEN {} ELSE IF q = new THEN mine ELSE Get(pg, q, {})
  <2>1. CASE old \in DOMAIN pg
    BY <2>1 DEF MoveKey, Put, Without, Get
  <2>2. CASE old \notin DOMAIN pg
    BY <1>2, <2>2 DEF MoveKey, Get
  <2> QED
    BY <2>1, <2>2
<1>6. /\ DOMAIN pg1 \subseteq PaneIds
      /\ \A q \in DOMAIN pg1 : pg1[q] \subseteq Groups /\ pg1[q] # {}
  BY <1>2 DEF IndexesSound, MoveKey, Put, Without
<1>7. /\ DOMAIN gm1 \subseteq Groups
      /\ \A g \in DOMAIN gm1 : gm1[g] \subseteq PaneIds /\ gm1[g] # {}
  BY <1>2 DEF IndexesSound
<1> HIDE DEF pg1, gm1
<1>8. \A q \in PaneIds, g \in Groups :
        g \in Get(pg1, q, {}) <=> q \in Get(gm1, g, {})
  BY <1>2, <1>3, <1>4, <1>5 DEF IndexesSound
<1>9. \A g \in Groups : Get(gm1, g, {}) = Renamed(Get(b.group_members, g, {}), old, new)
  BY <1>2, <1>4 DEF Renamed
<1> QED
  BY <1>1, <1>6, <1>7, <1>8, <1>9 DEF IndexesSound

-----------------------------------------------------------------------------
(* The invariant is inductive: one lemma per method.                       *)

LEMMA InitIInv == Init => IInv
BY DEF Init, NewBus, IInv, InboxesSound, IndexesSound, Get

\* The inbox a method works on is sound or new, and of the right type.
LEMMA InboxOfSound ==
  ASSUME IInv, NEW p \in PaneIds
  PROVE  /\ InboxOf(bus, p) \in Inbox
         /\ SoundInbox(InboxOf(bus, p)) \/ InboxOf(bus, p) = NewInbox
<1>1. NewInbox \in Inbox
  BY EmptySeq DEF NewInbox, Inbox
<1> QED
  BY <1>1 DEF IInv, InboxesSound, InboxOf, Get, SoundInbox

\* The effect of Deliver on the record.
LEMMA DeliverBus ==
  ASSUME IInv, NEW p \in PaneIds, NEW size \in Nat, Deliver(p, size)
  PROVE  LET r == enforce_caps(push_back(InboxOf(bus, p), size)) IN
         /\ SoundInbox(r)
         /\ r.next_seq = InboxOf(bus, p).next_seq + 1
         /\ r.ack_seq = InboxOf(bus, p).ack_seq
         /\ r.dropped \in InboxOf(bus, p).dropped .. (InboxOf(bus, p).next_seq - 1)
         /\ bus' = [inboxes |-> Put(bus.inboxes, p, r),
                    pane_groups |-> bus.pane_groups,
                    group_members |-> bus.group_members]
<1> DEFINE i == InboxOf(bus, p)
           r == enforce_caps(push_back(i, size))
<1>1. bus' = [bus EXCEPT !.inboxes = Put(bus.inboxes, p, r)]
  BY DEF Deliver, deliver
<1>2. i \in Inbox /\ (SoundInbox(i) \/ i = NewInbox) /\ size <= MaxBody
  BY InboxOfSound DEF Deliver
<1>3. /\ SoundInbox(r)
      /\ r.next_seq = i.next_seq + 1 /\ r.ack_seq = i.ack_seq
      /\ r.dropped \in i.dropped .. (i.next_seq - 1)
  <2> HIDE DEF i
  <2> QED
    BY <1>2, DeliverSound
<1> HIDE DEF r
<1>4. bus' = [inboxes |-> Put(bus.inboxes, p, r),
              pane_groups |-> bus.pane_groups,
              group_members |-> bus.group_members]
  BY <1>1 DEF IInv
<1> QED
  BY <1>3, <1>4 DEF r

LEMMA DeliverIInv ==
  ASSUME IInv, NEW p \in PaneIds, NEW size \in Nat, Deliver(p, size)
  PROVE  IInv'
BY DeliverBus, PutInbox DEF IInv

\* The effect of Ack on the record: none, or one sound inbox replaced.
LEMMA AckBus ==
  ASSUME IInv, NEW p \in PaneIds, NEW n \in Nat, Ack(p, n)
  PROVE  \/ p \notin DOMAIN bus.inboxes /\ bus' = bus
         \/ LET r == ack_inbox(bus.inboxes[p], n) IN
            /\ p \in DOMAIN bus.inboxes
            /\ SoundInbox(r)
            /\ r.next_seq = bus.inboxes[p].next_seq
            /\ r.dropped = bus.inboxes[p].dropped
            /\ r.ack_seq \in bus.inboxes[p].ack_seq .. (bus.inboxes[p].next_seq - 1)
            /\ bus' = [inboxes |-> [bus.inboxes EXCEPT ![p] = r],
                       pane_groups |-> bus.pane_groups,
                       group_members |-> bus.group_members]
<1>1. CASE p \notin DOMAIN bus.inboxes
  BY <1>1 DEF Ack, ack
<1>2. CASE p \in DOMAIN bus.inboxes
  <2> DEFINE i == bus.inboxes[p]
             r == ack_inbox(i, n)
  <2>1. SoundInbox(i)
    BY <1>2 DEF IInv, InboxesSound
  <2>2. /\ SoundInbox(r) /\ r.next_seq = i.next_seq /\ r.dropped = i.dropped
        /\ r.ack_seq \in i.ack_seq .. (i.next_seq - 1)
    <3> HIDE DEF i
    <3> QED
      BY <2>1, AckSound
  <2>3. bus' = [bus EXCEPT !.inboxes = [bus.inboxes EXCEPT ![p] = r]]
    BY <1>2 DEF Ack, ack
  <2> HIDE DEF r
  <2>4. bus' = [inboxes |-> [bus.inboxes EXCEPT ![p] = r],
                pane_groups |-> bus.pane_groups,
                group_members |-> bus.group_members]
    BY <2>3 DEF IInv
  <2> QED
    BY <1>2, <2>2, <2>4 DEF r
<1> QED
  BY <1>1, <1>2

LEMMA AckIInv ==
  ASSUME IInv, NEW p \in PaneIds, NEW n \in Nat, Ack(p, n)
  PROVE  IInv'
BY AckBus DEF IInv, InboxesSound

LEMMA GroupJoinIInv ==
  ASSUME IInv, NEW p \in PaneIds, NEW g \in Groups, GroupJoin(p, g)
  PROVE  IInv'
<1> DEFINE gm == Put(bus.group_members, g, Get(bus.group_members, g, {}) \cup {p})
           pg == Put(bus.pane_groups, p, Get(bus.pane_groups, p, {}) \cup {g})
<1>1. bus' = [bus EXCEPT !.group_members = gm, !.pane_groups = pg]
  BY DEF GroupJoin, group_join
<1>2. IndexesSound(pg, gm)
  BY JoinIndexes DEF IInv
<1> HIDE DEF gm, pg
<1>3. bus' = [inboxes |-> bus.inboxes, pane_groups |-> pg, group_members |-> gm]
  BY <1>1 DEF IInv
<1> QED
  BY <1>2, <1>3 DEF IInv

LEMMA GroupLeaveIInv ==
  ASSUME IInv, NEW p \in PaneIds, NEW g \in Groups, GroupLeave(p, g)
  PROVE  IInv'
<1> DEFINE gm == RemoveFrom(bus.group_members, g, p)
           pg == RemoveFrom(bus.pane_groups, p, g)
<1>1. bus' = [bus EXCEPT !.group_members = gm, !.pane_groups = pg]
  BY DEF GroupLeave, group_leave
<1>2. IndexesSound(pg, gm)
  BY LeaveIndexes DEF IInv
<1> HIDE DEF gm, pg
<1>3. bus' = [inboxes |-> bus.inboxes, pane_groups |-> pg, group_members |-> gm]
  BY <1>1 DEF IInv
<1> QED
  BY <1>2, <1>3 DEF IInv

LEMMA RemovePaneIInv ==
  ASSUME IInv, NEW p \in PaneIds, RemovePane(p)
  PROVE  IInv'
<1>1. /\ bus' = [inboxes |-> bus'.inboxes, pane_groups |-> bus'.pane_groups,
                 group_members |-> bus'.group_members]
      /\ bus'.inboxes = Without(bus.inboxes, p)
  BY DEF RemovePane, remove_pane
<1>2. InboxesSound(bus'.inboxes)
  BY <1>1, WithoutInbox DEF IInv
<1>3. IndexesSound(bus'.pane_groups, bus'.group_members)
  BY RemoveIndexes DEF IInv, RemovePane
<1> QED
  BY <1>1, <1>2, <1>3 DEF IInv

LEMMA RekeyPaneIInv ==
  ASSUME IInv, NEW old \in PaneIds, NEW new \in PaneIds, RekeyPane(old, new)
  PROVE  IInv'
<1>1. CASE old = new
  BY <1>1 DEF RekeyPane, rekey_pane, IInv
<1>2. CASE old # new
  <2>1. /\ bus' = [inboxes |-> bus'.inboxes, pane_groups |-> bus'.pane_groups,
                   group_members |-> bus'.group_members]
        /\ bus'.inboxes = MoveKey(Without(bus.inboxes, new), old, new)
    BY <1>2 DEF RekeyPane, rekey_pane, remove_pane
  <2>2. InboxesSound(bus'.inboxes)
    BY <2>1, WithoutInbox, MoveInbox DEF IInv
  <2>3. IndexesSound(bus'.pane_groups, bus'.group_members)
    BY <1>2, RekeyIndexes DEF IInv, RekeyPane
  <2> QED
    BY <2>1, <2>2, <2>3 DEF IInv
<1> QED
  BY <1>1, <1>2

\* Every step keeps the invariant.
LEMMA NextIInv == IInv /\ [Next]_bus => IInv'
<1> SUFFICES ASSUME IInv, [Next]_bus PROVE IInv'
  OBVIOUS
<1>1. ASSUME NEW p \in PaneIds, NEW size \in Sizes, Deliver(p, size) PROVE IInv'
  BY <1>1, DeliverIInv, SizesAssumption
<1>2. ASSUME NEW p \in PaneIds, NEW n \in 0..(MaxSeq + 1), Ack(p, n) PROVE IInv'
  BY <1>2, AckIInv, MaxSeqAssumption
<1>3. ASSUME NEW p \in PaneIds, NEW g \in Groups, GroupJoin(p, g) PROVE IInv'
  BY <1>3, GroupJoinIInv
<1>4. ASSUME NEW p \in PaneIds, NEW g \in Groups, GroupLeave(p, g) PROVE IInv'
  BY <1>4, GroupLeaveIInv
<1>5. ASSUME NEW p \in PaneIds, NEW q \in PaneIds, RekeyPane(p, q) PROVE IInv'
  BY <1>5, RekeyPaneIInv
<1>6. ASSUME NEW p \in PaneIds, RemovePane(p) PROVE IInv'
  BY <1>6, RemovePaneIInv
<1>7. CASE UNCHANGED bus
  BY <1>7 DEF IInv
<1> QED
  BY <1>1, <1>2, <1>3, <1>4, <1>5, <1>6, <1>7 DEF Next

\* The inductive invariant holds in every reachable state.
THEOREM Invariant == Spec => []IInv
<1>1. Init => IInv
  BY InitIInv
<1>2. IInv /\ [Next]_bus => IInv'
  BY NextIInv
<1> QED
  BY <1>1, <1>2, PTL DEF Spec

\* The bus keeps its type, for every set of panes and groups and all caps.
THEOREM TypeCorrect == Spec => []TypeOK
<1>1. IInv => TypeOK
  BY IInvImplies
<1> QED
  BY Invariant, <1>1, PTL

\* Every message ever delivered is retained or counted as dropped, under
\* consecutive numbers.
THEOREM SeqAccountingCorrect == Spec => []SeqAccounting
<1>1. IInv => SeqAccounting
  BY IInvImplies
<1> QED
  BY Invariant, <1>1, PTL

\* No inbox is acknowledged ahead of its newest message, which it retains.
THEOREM NothingReadAheadCorrect == Spec => []NothingReadAhead
<1>1. IInv => NothingReadAhead
  BY IInvImplies
<1> QED
  BY Invariant, <1>1, PTL

\* The byte counter is exact and both caps hold between calls.
THEOREM CapsHoldCorrect == Spec => []CapsHold
<1>1. IInv => CapsHold
  BY IInvImplies
<1> QED
  BY Invariant, <1>1, PTL

\* The two group indexes always describe the same membership.
THEOREM IndexesAgreeCorrect == Spec => []IndexesAgree
<1>1. IInv => IndexesAgree
  BY IInvImplies
<1> QED
  BY Invariant, <1>1, PTL

-----------------------------------------------------------------------------
(* The bus implements the mailboxes.                                       *)

\* Two membership relations with the same pairs are the same relation.
LEMMA SamePairs ==
  ASSUME NEW A \in SUBSET (PaneIds \X Groups), NEW B \in SUBSET (PaneIds \X Groups),
         \A q \in PaneIds, h \in Groups : <<q, h>> \in A <=> <<q, h>> \in B
  PROVE  A = B
OBVIOUS

LEMMA MemberPairs ==
  /\ mail_member \in SUBSET (PaneIds \X Groups)
  /\ \A q \in PaneIds, h \in Groups :
       <<q, h>> \in mail_member <=> q \in Get(bus.group_members, h, {})
BY DEF mail_member

LEMMA MemberPairsNext ==
  /\ mail_member' \in SUBSET (PaneIds \X Groups)
  /\ \A q \in PaneIds, h \in Groups :
       <<q, h>> \in mail_member' <=> q \in Get(bus'.group_members, h, {})
BY DEF mail_member

\* A delivery is a Send: it takes the next number and loses older mail only.
LEMMA DeliverSends ==
  ASSUME IInv, NEW p \in PaneIds, NEW size \in Nat, Deliver(p, size)
  PROVE  Mail!Send(p)
<1> DEFINE i == InboxOf(bus, p)
           r == enforce_caps(push_back(i, size))
<1>1. /\ r.next_seq = i.next_seq + 1 /\ r.ack_seq = i.ack_seq
      /\ r.dropped \in i.dropped .. (i.next_seq - 1)
      /\ bus' = [inboxes |-> Put(bus.inboxes, p, r),
                 pane_groups |-> bus.pane_groups,
                 group_members |-> bus.group_members]
  BY DeliverBus
<1>2. i \in Inbox
  BY InboxOfSound
<1> HIDE DEF r, i
<1>3. InboxOf(bus', p) = r /\ \A q \in PaneIds \ {p} : InboxOf(bus', q) = InboxOf(bus, q)
  BY <1>1 DEF InboxOf, Get, Put
<1>4. BoxOf(r) = [sent |-> BoxOf(i).sent + 1, lost |-> r.dropped,
                  read |-> BoxOf(i).read]
  BY <1>1, <1>2 DEF BoxOf, Inbox
<1>5. mail_box[p] = BoxOf(i) /\ r.dropped \in BoxOf(i).lost .. BoxOf(i).sent
  BY <1>1, <1>2 DEF mail_box, BoxOf, Inbox, i
<1>6. mail_box' = [mail_box EXCEPT ![p] = [sent |-> mail_box[p].sent + 1,
                                           lost |-> r.dropped,
                                           read |-> mail_box[p].read]]
  BY <1>3, <1>4, <1>5 DEF mail_box
<1>7. mail_member' = mail_member
  BY <1>1 DEF mail_member
<1> QED
  BY <1>5, <1>6, <1>7 DEF Mail!Send

\* An ack is a Read, or nothing when the pane has no inbox yet.
LEMMA AckReads ==
  ASSUME IInv, NEW p \in PaneIds, NEW n \in Nat, Ack(p, n)
  PROVE  Mail!Read(p) \/ UNCHANGED Mail!mailVars
<1>1. CASE bus' = bus
  BY <1>1 DEF Mail!mailVars, mail_box, mail_member
<1>2. CASE bus' # bus
  <2> DEFINE i == bus.inboxes[p]
             r == ack_inbox(i, n)
  <2>1. /\ p \in DOMAIN bus.inboxes
        /\ r.next_seq = i.next_seq /\ r.dropped = i.dropped
        /\ r.ack_seq \in i.ack_seq .. (i.next_seq - 1)
        /\ bus' = [inboxes |-> [bus.inboxes EXCEPT ![p] = r],
                   pane_groups |-> bus.pane_groups,
                   group_members |-> bus.group_members]
    BY <1>2, AckBus
  <2>2. InboxOf(bus, p) = i
    BY <2>1 DEF InboxOf, Get
  <2> HIDE DEF r, i
  <2>3. InboxOf(bus', p) = r /\ \A q \in PaneIds \ {p} : InboxOf(bus', q) = InboxOf(bus, q)
    BY <2>1 DEF InboxOf, Get
  <2>4. /\ mail_box[p] = BoxOf(i)
        /\ BoxOf(r) = [BoxOf(i) EXCEPT !.read = r.ack_seq]
        /\ r.ack_seq \in BoxOf(i).read .. BoxOf(i).sent
    BY <2>1, <2>2 DEF mail_box, BoxOf
  <2>5. mail_box' = [mail_box EXCEPT ![p].read = r.ack_seq]
    BY <2>3, <2>4 DEF mail_box
  <2>6. mail_member' = mail_member
    BY <2>1 DEF mail_member
  <2> QED
    BY <2>4, <2>5, <2>6 DEF Mail!Read
<1> QED
  BY <1>1, <1>2

LEMMA JoinJoins ==
  ASSUME IInv, NEW p \in PaneIds, NEW g \in Groups, GroupJoin(p, g)
  PROVE  Mail!Join(p, g)
<1>1. /\ bus'.inboxes = bus.inboxes
      /\ bus'.group_members =
           Put(bus.group_members, g, Get(bus.group_members, g, {}) \cup {p})
  BY DEF GroupJoin, group_join, IInv
<1>2. mail_box' = mail_box
  BY <1>1 DEF mail_box, InboxOf
<1>3. \A h \in Groups : Get(bus'.group_members, h, {}) =
        IF h = g THEN Get(bus.group_members, g, {}) \cup {p}
                 ELSE Get(bus.group_members, h, {})
  BY <1>1 DEF Get, Put
<1>4. mail_member' = mail_member \cup {<<p, g>>}
  BY <1>3, MemberPairs, MemberPairsNext, SamePairs
<1> QED
  BY <1>2, <1>4 DEF Mail!Join

LEMMA LeaveLeaves ==
  ASSUME IInv, NEW p \in PaneIds, NEW g \in Groups, GroupLeave(p, g)
  PROVE  Mail!Leave(p, g)
<1>1. /\ bus'.inboxes = bus.inboxes
      /\ bus'.group_members = RemoveFrom(bus.group_members, g, p)
  BY DEF GroupLeave, group_leave, IInv
<1>2. mail_box' = mail_box
  BY <1>1 DEF mail_box, InboxOf
<1>3. \A h \in Groups : Get(bus'.group_members, h, {}) =
        IF h = g THEN Get(bus.group_members, g, {}) \ {p}
                 ELSE Get(bus.group_members, h, {})
  BY <1>1, RemoveFromGet
<1>4. mail_member' = mail_member \ {<<p, g>>}
  BY <1>3, MemberPairs, MemberPairsNext, SamePairs
<1> QED
  BY <1>2, <1>4 DEF Mail!Leave

LEMMA RemoveCloses ==
  ASSUME IInv, NEW p \in PaneIds, RemovePane(p)
  PROVE  Mail!Close(p)
<1>1. bus'.inboxes = Without(bus.inboxes, p)
  BY DEF RemovePane, remove_pane
<1>2. \A h \in Groups : Get(bus'.group_members, h, {}) =
                          Get(bus.group_members, h, {}) \ {p}
  BY RemoveIndexes DEF IInv, RemovePane
<1>3. /\ InboxOf(bus', p) = NewInbox
      /\ \A q \in PaneIds \ {p} : InboxOf(bus', q) = InboxOf(bus, q)
  BY <1>1 DEF InboxOf, Get, Without
<1>4. BoxOf(NewInbox) = Mail!Fresh
  BY DEF BoxOf, NewInbox, Mail!Fresh
<1>5. mail_box' = [mail_box EXCEPT ![p] = Mail!Fresh]
  BY <1>3, <1>4 DEF mail_box
<1>6. mail_member' = mail_member \ ({p} \X Groups)
  BY <1>2, MemberPairs, MemberPairsNext, SamePairs
<1> QED
  BY <1>5, <1>6 DEF Mail!Close

LEMMA RekeyRenames ==
  ASSUME IInv, NEW old \in PaneIds, NEW new \in PaneIds, old # new,
         RekeyPane(old, new)
  PROVE  Mail!Rename(old, new)
<1>1. bus'.inboxes = MoveKey(Without(bus.inboxes, new), old, new)
  BY DEF RekeyPane, rekey_pane, remove_pane
<1>2. \A h \in Groups :
        Get(bus'.group_members, h, {}) = Renamed(Get(bus.group_members, h, {}), old, new)
  <2>1. \A h \in Groups : Get(rekey_pane(bus, old, new).group_members, h, {}) =
                            Renamed(Get(bus.group_members, h, {}), old, new)
    BY RekeyIndexes DEF IInv
  <2>2. bus' = rekey_pane(bus, old, new)
    BY DEF RekeyPane
  <2> QED
    BY <2>1, <2>2
<1>3. /\ InboxOf(bus', old) = NewInbox
      /\ InboxOf(bus', new) = InboxOf(bus, old)
      /\ \A q \in PaneIds \ {old, new} : InboxOf(bus', q) = InboxOf(bus, q)
  BY <1>1 DEF InboxOf, Get, Without, MoveKey, Put
<1>4. BoxOf(NewInbox) = Mail!Fresh
  BY DEF BoxOf, NewInbox, Mail!Fresh
<1>5. mail_box' = [mail_box EXCEPT ![new] = mail_box[old], ![old] = Mail!Fresh]
  BY <1>3, <1>4 DEF mail_box
<1> DEFINE M == (mail_member \ ({old, new} \X Groups))
                  \cup {<<new, g>> : g \in {h \in Groups : <<old, h>> \in mail_member}}
<1>6. mail_member' = M
  <2>1. M \in SUBSET (PaneIds \X Groups)
    <3>1. ASSUME NEW m \in M PROVE m \in PaneIds \X Groups
      <4>1. CASE m \in mail_member
        BY <4>1, MemberPairs
      <4>2. CASE m \notin mail_member
        <5>1. PICK g \in Groups : m = <<new, g>>
          BY <4>2
        <5> QED
          BY <5>1
      <4> QED
        BY <4>1, <4>2
    <3> QED
      BY <3>1
  <2>2. ASSUME NEW q \in PaneIds, NEW h \in Groups
        PROVE  <<q, h>> \in mail_member' <=> <<q, h>> \in M
    <3>1. CASE q = new
      BY <1>2, <3>1, MemberPairs, MemberPairsNext DEF Renamed
    <3>2. CASE q # new
      BY <1>2, <3>2, MemberPairs, MemberPairsNext DEF Renamed
    <3> QED
      BY <3>1, <3>2
  <2> HIDE DEF M
  <2> QED
    BY <2>1, <2>2, MemberPairsNext, SamePairs
<1> QED
  BY <1>5, <1>6 DEF Mail!Rename

\* The bus implements the mailboxes: a send never loses itself and never
\* marks anything read, a read never runs ahead, a re-keyed pane keeps what
\* it had and a closed one leaves nothing, for all caps.
THEOREM Refinement == Spec => ImplementsMailboxes
<1>1. Init => Mail!MailInit
  <2>1. SUFFICES ASSUME Init PROVE Mail!MailInit
    OBVIOUS
  <2>2. \A p \in PaneIds : BoxOf(InboxOf(bus, p)) = Mail!Fresh
    BY <2>1 DEF Init, NewBus, InboxOf, Get, BoxOf, NewInbox, Mail!Fresh
  <2>3. mail_member = {}
    BY <2>1 DEF mail_member, Init, NewBus, Get
  <2> QED
    BY <2>2, <2>3 DEF Mail!MailInit, mail_box
<1>2. IInv /\ [Next]_bus => [Mail!MailNext]_(Mail!mailVars)
  <2> SUFFICES ASSUME IInv, [Next]_bus
               PROVE  Mail!MailNext \/ UNCHANGED Mail!mailVars
    OBVIOUS
  <2>1. CASE UNCHANGED bus
    BY <2>1 DEF Mail!mailVars, mail_box, mail_member
  <2>2. ASSUME NEW p \in PaneIds, NEW size \in Sizes, Deliver(p, size)
        PROVE  Mail!MailNext
    BY <2>2, DeliverSends, SizesAssumption DEF Mail!MailNext
  <2>3. ASSUME NEW p \in PaneIds, NEW n \in 0..(MaxSeq + 1), Ack(p, n)
        PROVE  Mail!MailNext \/ UNCHANGED Mail!mailVars
    BY <2>3, AckReads, MaxSeqAssumption DEF Mail!MailNext
  <2>4. ASSUME NEW p \in PaneIds, NEW g \in Groups, GroupJoin(p, g)
        PROVE  Mail!MailNext
    BY <2>4, JoinJoins DEF Mail!MailNext
  <2>5. ASSUME NEW p \in PaneIds, NEW g \in Groups, GroupLeave(p, g)
        PROVE  Mail!MailNext
    BY <2>5, LeaveLeaves DEF Mail!MailNext
  <2>6. ASSUME NEW p \in PaneIds, NEW q \in PaneIds, RekeyPane(p, q)
        PROVE  Mail!MailNext \/ UNCHANGED Mail!mailVars
    <3>1. CASE p = q
      BY <2>6, <3>1 DEF RekeyPane, rekey_pane, Mail!mailVars, mail_box, mail_member
    <3>2. CASE p # q
      BY <2>6, <3>2, RekeyRenames DEF Mail!MailNext
    <3> QED
      BY <3>1, <3>2
  <2>7. ASSUME NEW p \in PaneIds, RemovePane(p) PROVE Mail!MailNext
    BY <2>7, RemoveCloses DEF Mail!MailNext
  <2> QED
    BY <2>1, <2>2, <2>3, <2>4, <2>5, <2>6, <2>7 DEF Next
<1> QED
  BY Invariant, <1>1, <1>2, PTL DEF Spec, ImplementsMailboxes, Mail!MailSpec

=============================================================================
