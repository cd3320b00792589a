---------------------------- MODULE PtyActorProofs ----------------------------
(***************************************************************************)
(* Proofs about PtyActor, for any tasks, any capacity of the channel and   *)
(* any number of inputs, answers and calls.                                *)
(***************************************************************************)
EXTENDS PtyActor, ProofLemmas

-----------------------------------------------------------------------------
(* The inductive invariant.                                                *)

Queued == [cmd : Commands, waited : BOOLEAN]
Actors == [pc : {"loop", "draining", "exited"}, waited : BOOLEAN,
           state : {"running", "quiesced", "released"}, pending : Seq(Chunks)]
Mains == [call : Commands \cup {"none"}, answer : {"none", "ok", "failed", "late"},
          calls : 0..MaxCalls, paused : BOOLEAN, handle : {"held", "released", "dropped"}]

\* TypeOK, and the places in the channel: those taken and those reserved.
Types ==
  /\ accepting \in BOOLEAN /\ resized \in BOOLEAN
  /\ data \in Seq(Inputs)
  /\ control \in Seq(Queued)
  /\ actor \in Actors
  /\ task \in [Tasks -> {"idle", "reserving", "reserved"}]
  /\ main \in Mains
  /\ tty \in Seq(Inputs) /\ accepted \in Seq(Inputs)
  /\ mishap \subseteq {"pty", "late"}

Places == IsFiniteSet(Reserved) /\ Len(data) + Cardinality(Reserved) <= DataCap

\* The actor is quiesced and there is nothing for it to write.
Calm == /\ actor.pc = "loop" /\ actor.state = "quiesced"
        /\ actor.pending = <<>> /\ data = <<>> /\ ~resized

\* The main thread waits for at most one command, the last one it sent; the
\* actor has it, or it is the last one in the channel.
OneIsWaitedFor ==
  /\ \A i \in 1..Len(control) :
       control[i].waited => /\ i = Len(control) /\ ~actor.waited
                            /\ main.call = control[i].cmd /\ main.answer = "none"
  /\ actor.waited => /\ actor.pc = "draining" /\ control = <<>> /\ ~resized
                     /\ main.call = "begin" /\ main.answer = "none"

\* Nothing follows a shutdown, only a shutdown follows a release, and what
\* is before a release does not disturb a quiesced actor.
LastCommands ==
  /\ \A i \in 1..Len(control) :
       /\ control[i].cmd = "shutdown" => i = Len(control) /\ main.handle = "dropped"
       /\ control[i].cmd = "release" /\ ~Closed =>
            /\ Calm /\ ~accepting /\ main.handle # "held"
            /\ \A j \in 1..(i - 1) : control[j].cmd = "duplicate"
  /\ main.handle = "released" /\ ~Closed =>
       control # <<>> /\ control[Len(control)].cmd = "release"
  /\ main.handle = "dropped" /\ ~Closed =>
       control # <<>> /\ control[Len(control)].cmd = "shutdown"

\* What a call and its answer say of the actor.
Calls ==
  /\ main.call = "none" => main.answer = "none"
  /\ main.call \in {"begin", "duplicate", "rollback"} => main.handle = "held"
  /\ main.call = "release" => main.handle = "released"
  /\ main.call # "shutdown"
  /\ main.call = "duplicate" => main.paused
  /\ main.paused => main.handle = "held" /\ main.call \in {"none", "duplicate"}
  /\ main.call = "begin" /\ ~Closed => ~accepting
  /\ main.call = "begin" /\ main.answer = "ok" /\ ~Closed => Calm /\ control = <<>>
  /\ main.call = "rollback" =>
       /\ main.answer # "failed"
       /\ main.answer = "late" => "late" \in mishap
       /\ main.answer = "ok" /\ ~Closed => control = <<>> /\ Running

\* While the main thread holds the PTY paused, only duplicates are queued.
Paused ==
  main.paused /\ ~Closed =>
    /\ Calm /\ ~accepting
    /\ \A i \in 1..Len(control) : control[i].cmd = "duplicate"

\* The gate is open only for an actor that takes input and has no command
\* before it, and it opens again.
Gate ==
  /\ accepting /\ ~Closed => control = <<>> /\ Running
  /\ main.handle = "held" /\ main.call = "none" /\ ~main.paused /\ ~Closed =>
       accepting \/ "late" \in mishap

\* What the actor would throw away is not there.
Taken ==
  /\ actor.pc = "draining" \/ actor.state = "quiesced" => data = <<>> \/ Closed
  /\ actor.state = "released" => Closed

IInv == /\ Types /\ Places /\ OneIsWaitedFor /\ LastCommands /\ Calls /\ Paused /\ Gate
        /\ Taken /\ AcceptedIsDelivered
-----------------------------------------------------------------------------
(* The user input among some chunks.                                       *)

\* The definition by recursion does define a function, of sequences of inputs.
LEMMA InputIs ==
  ASSUME NEW chunks \in Seq(Chunks)
  PROVE  \E among \in [0..Len(chunks) -> Seq(Inputs)] :
           /\ among[0] = <<>>
           /\ \A n \in 1..Len(chunks) :
                among[n] = IF chunks[n] = Answer THEN among[n - 1]
                           ELSE Append(among[n - 1], chunks[n])
           /\ Input(chunks) = among[Len(chunks)]
<1> DEFINE among == CHOOSE g : g = [n \in 0..Len(chunks) |->
                      IF n = 0 THEN <<>>
                      ELSE IF chunks[n] = Answer THEN g[n - 1]
                      ELSE Append(g[n - 1], chunks[n])]
           F == [k \in 1..Len(chunks) |-> [s \in Seq(Inputs) |->
                   IF chunks[k] = Answer THEN s ELSE Append(s, chunks[k])]]
<1>1. Len(chunks) \in Nat /\ \A n \in 1..Len(chunks) : chunks[n] \in Chunks
  OBVIOUS
<1>2. F \in [1..Len(chunks) -> [Seq(Inputs) -> Seq(Inputs)]]
  <2>1. ASSUME NEW k \in 1..Len(chunks), NEW s \in Seq(Inputs), chunks[k] # Answer
        PROVE  Append(s, chunks[k]) \in Seq(Inputs)
    BY <1>1, <2>1, AppendProperties DEF Chunks
  <2> QED
    BY <2>1
<1>3. PICK f \in [0..Len(chunks) -> Seq(Inputs)] :
        f[0] = <<>> /\ \A k \in 1..Len(chunks) : f[k] = F[k][f[k - 1]]
  <2> DEFINE V == Seq(Inputs)
             none == <<>>
             len == Len(chunks)
  <2>1. none \in V /\ len \in Nat /\ F \in [1..len -> [V -> V]]
    BY <1>1, <1>2
  <2> HIDE DEF F, V, none, len, among
  <2>2. \E f \in [0..len -> V] : f[0] = none /\ \A k \in 1..len : f[k] = F[k][f[k - 1]]
    BY <2>1, FunctionByRecursion
  <2> QED
    BY <2>2 DEF V, none, len
<1>4. \A k \in 1..Len(chunks) :
        f[k] = IF chunks[k] = Answer THEN f[k - 1] ELSE Append(f[k - 1], chunks[k])
  <2>1. \A k \in 1..Len(chunks) : k - 1 \in 0..Len(chunks)
    BY <1>1
  <2>2. \A k \in 1..Len(chunks) : f[k - 1] \in Seq(Inputs)
    BY <1>3, <2>1
  <2> QED
    BY <1>3, <2>2
<1>5. f = [n \in 0..Len(chunks) |->
             IF n = 0 THEN <<>>
             ELSE IF chunks[n] = Answer THEN f[n - 1] ELSE Append(f[n - 1], chunks[n])]
  <2> DEFINE g == [n \in 0..Len(chunks) |->
                     IF n = 0 THEN <<>>
                     ELSE IF chunks[n] = Answer THEN f[n - 1] ELSE Append(f[n - 1], chunks[n])]
  <2>1. ASSUME NEW n \in 0..Len(chunks) PROVE f[n] = g[n]
    <3>1. CASE n = 0
      BY <1>3, <3>1
    <3>2. CASE n # 0
      <4>1. n \in 1..Len(chunks)
        BY <1>1, <3>2
      <4> QED
        BY <1>4, <3>2, <4>1
    <3> QED
      BY <3>1, <3>2
  <2>2. f = [n \in 0..Len(chunks) |-> f[n]]
    BY <1>3
  <2>3. g = [n \in 0..Len(chunks) |-> g[n]]
    OBVIOUS
  <2> HIDE DEF g
  <2>4. f = g
    BY <2>1, <2>2, <2>3
  <2> QED
    BY <2>4 DEF g
<1>6. among = [n \in 0..Len(chunks) |->
             IF n = 0 THEN <<>>
             ELSE IF chunks[n] = Answer THEN among[n - 1] ELSE Append(among[n - 1], chunks[n])]
  BY <1>5
<1>7. Input(chunks) = among[Len(chunks)]
  BY DEF Input
<1> HIDE DEF among
<1>8. among[0] = <<>> /\ \A n \in 1..Len(chunks) :
                among[n] = IF chunks[n] = Answer THEN among[n - 1]
                           ELSE Append(among[n - 1], chunks[n])
  <2>1. 0 \in 0..Len(chunks) /\ \A n \in 1..Len(chunks) : n \in 0..Len(chunks) /\ n # 0
    BY <1>1
  <2> QED
    BY <1>6, <2>1
<1>9. among = f
  <2> DEFINE S == {n \in Nat : n <= Len(chunks) => among[n] = f[n]}
  <2>1. 0 \in S
    BY <1>3, <1>8
  <2>2. ASSUME NEW n \in Nat, n \in S PROVE n + 1 \in S
    <3>1. SUFFICES ASSUME n + 1 <= Len(chunks) PROVE among[n + 1] = f[n + 1]
      OBVIOUS
    <3>2. n + 1 \in 1..Len(chunks) /\ (n + 1) - 1 = n /\ among[n] = f[n]
      BY <1>1, <2>2, <3>1
    <3> QED
      BY <1>4, <1>8, <3>2
  <2>3. \A n \in 0..Len(chunks) : among[n] = f[n]
    <3> HIDE DEF S
    <3>1. Nat \subseteq S
      BY <2>1, <2>2, SetInduction
    <3> QED
      BY <1>1, <3>1 DEF S
  <2>4. among = [n \in 0..Len(chunks) |-> among[n]] /\ f = [n \in 0..Len(chunks) |-> f[n]]
    BY <1>3, <1>6
  <2> QED
    BY <2>3, <2>4
<1> QED
  BY <1>3, <1>4, <1>7, <1>9

\* An empty sequence has none; input is all input; an answer is none.
LEMMA InputOfOne ==
  /\ Input(<<>>) = <<>>
  /\ Input(<<Answer>>) = <<>>
  /\ \A c \in Inputs : Input(<<c>>) = <<c>>
<1>1. Input(<<>>) = <<>>
  BY InputIs, <<>> \in Seq(Chunks)
<1>2. ASSUME NEW c \in Chunks PROVE Input(<<c>>) = IF c = Answer THEN <<>> ELSE <<c>>
  <2>1. <<c>> \in Seq(Chunks) /\ Len(<<c>>) = 1 /\ <<c>>[1] = c
    OBVIOUS
  <2>2. PICK among \in [0..1 -> Seq(Inputs)] :
           /\ among[0] = <<>>
           /\ \A n \in 1..1 : among[n] = IF <<c>>[n] = Answer THEN among[n - 1]
                                         ELSE Append(among[n - 1], <<c>>[n])
           /\ Input(<<c>>) = among[1]
    BY <2>1, InputIs
  <2>3. Append(<<>>, c) = <<c>>
    BY Appending
  <2>4. 1 \in 1..1 /\ 1 - 1 = 0
    OBVIOUS
  <2> QED
    BY <2>1, <2>2, <2>3, <2>4
<1>3. Answer \in Chunks /\ \A c \in Inputs : c \in Chunks /\ c # Answer
  BY ActorAssumption DEF Chunks, Answer, Inputs
<1> QED
  BY <1>1, <1>2, <1>3

\* The input among joined chunks is the input among each, joined.
LEMMA InputJoins ==
  ASSUME NEW s \in Seq(Chunks), NEW t \in Seq(Chunks)
  PROVE  /\ Input(s) \in Seq(Inputs)
         /\ Input(s \o t) = Input(s) \o Input(t)
<1> DEFINE st == s \o t
<1>1. /\ Len(s) \in Nat /\ Len(t) \in Nat /\ Len(s) \in 0..Len(s)
      /\ st \in Seq(Chunks) /\ Len(st) = Len(s) + Len(t)
      /\ \A i \in 1..Len(s) : st[i] = s[i]
      /\ \A i \in 1..Len(t) : st[Len(s) + i] = t[i]
  BY ConcatProperties
<1> HIDE DEF st
<1>2. PICK u \in [0..Len(s) -> Seq(Inputs)] :
           /\ u[0] = <<>>
           /\ \A n \in 1..Len(s) : u[n] = IF s[n] = Answer THEN u[n - 1]
                                          ELSE Append(u[n - 1], s[n])
           /\ Input(s) = u[Len(s)]
  BY InputIs
<1>3. PICK v \in [0..Len(t) -> Seq(Inputs)] :
           /\ v[0] = <<>>
           /\ \A n \in 1..Len(t) : v[n] = IF t[n] = Answer THEN v[n - 1]
                                          ELSE Append(v[n - 1], t[n])
           /\ Input(t) = v[Len(t)]
  BY InputIs
<1>4. PICK w \in [0..Len(st) -> Seq(Inputs)] :
           /\ w[0] = <<>>
           /\ \A n \in 1..Len(st) : w[n] = IF st[n] = Answer THEN w[n - 1]
                                           ELSE Append(w[n - 1], st[n])
           /\ Input(st) = w[Len(st)]
  BY <1>1, InputIs
<1> DEFINE S == {n \in Nat : n <= Len(s) => w[n] = u[n]}
           T == {n \in Nat : n <= Len(t) => w[Len(s) + n] = u[Len(s)] \o v[n]}
<1>5. w[Len(s)] = u[Len(s)]
  <2>1. 0 \in S
    BY <1>2, <1>4
  <2>2. ASSUME NEW n \in Nat, n \in S PROVE n + 1 \in S
    <3>1. SUFFICES ASSUME n + 1 <= Len(s) PROVE w[n + 1] = u[n + 1]
      OBVIOUS
    <3>2. /\ n + 1 \in 1..Len(s) /\ n + 1 \in 1..Len(st) /\ (n + 1) - 1 = n
          /\ w[n] = u[n] /\ st[n + 1] = s[n + 1]
      BY <1>1, <2>2, <3>1
    <3> QED
      BY <1>2, <1>4, <3>2
  <2> HIDE DEF S
  <2>3. Nat \subseteq S
    BY <2>1, <2>2, SetInduction
  <2>4. Len(s) \in S
    BY <1>1, <2>3
  <2> QED
    BY <1>1, <2>4 DEF S
<1>6. w[Len(s) + Len(t)] = u[Len(s)] \o v[Len(t)]
  <2>0. u[Len(s)] \in Seq(Inputs) /\ \A n \in 0..Len(t) : v[n] \in Seq(Inputs)
    BY <1>1, <1>2, <1>3
  <2>1. 0 \in T
    <3>1. Len(s) + 0 = Len(s) /\ 0 \in Nat
      BY <1>1
    <3>2. u[Len(s)] \o v[0] = u[Len(s)]
      BY <1>3, <2>0, ConcatEmptySeq
    <3> QED
      BY <1>5, <3>1, <3>2
  <2>2. ASSUME NEW n \in Nat, n \in T PROVE n + 1 \in T
    <3>0. n + 1 \in Nat
      OBVIOUS
    <3>1. SUFFICES ASSUME n + 1 <= Len(t)
                   PROVE  w[Len(s) + (n + 1)] = u[Len(s)] \o v[n + 1]
      BY <3>0
    <3>2. /\ n + 1 \in 1..Len(t) /\ Len(s) + (n + 1) \in 1..Len(st) /\ (n + 1) - 1 = n
          /\ (Len(s) + (n + 1)) - 1 = Len(s) + n /\ n \in 0..Len(t)
          /\ w[Len(s) + n] = u[Len(s)] \o v[n] /\ st[Len(s) + (n + 1)] = t[n + 1]
      BY <1>1, <2>2, <3>1
    <3>3. CASE t[n + 1] = Answer
      BY <1>3, <1>4, <3>2, <3>3
    <3>4. CASE t[n + 1] # Answer
      <4>1. t[n + 1] \in Inputs
        BY <3>2, <3>4 DEF Chunks
      <4>2. w[Len(s) + (n + 1)] = Append(u[Len(s)] \o v[n], t[n + 1])
        BY <1>4, <3>2, <3>4
      <4>3. v[n + 1] = Append(v[n], t[n + 1])
        BY <1>3, <3>2, <3>4
      <4>4. u[Len(s)] \o Append(v[n], t[n + 1]) = Append(u[Len(s)] \o v[n], t[n + 1])
        <5> DEFINE a == u[Len(s)]
                   b == v[n]
                   c == t[n + 1]
        <5>1. a \in Seq(Inputs) /\ b \in Seq(Inputs) /\ c \in Inputs
          BY <2>0, <3>2, <4>1
        <5> HIDE DEF a, b, c
        <5>2. a \o Append(b, c) = Append(a \o b, c)
          BY <5>1, JoinAppend
        <5> QED
          BY <5>2 DEF a, b, c
      <4> QED
        BY <4>2, <4>3, <4>4
    <3> QED
      BY <3>3, <3>4
  <2> HIDE DEF T
  <2>3. Nat \subseteq T
    BY <2>1, <2>2, SetInduction
  <2>4. Len(t) \in T
    BY <1>1, <2>3
  <2> QED
    BY <1>1, <2>4 DEF T
<1> USE DEF st
<1> QED
  <2>1. Input(st) = w[Len(s) + Len(t)]
    BY <1>1, <1>4
  <2>2. u[Len(s)] \in Seq(Inputs)
    BY <1>1, <1>2
  <2> QED
    BY <1>2, <1>3, <1>6, <2>1, <2>2

\* What is put at the end of the pending chunks, or taken from their head.
LEMMA InputPutAndTaken ==
  ASSUME NEW s \in Seq(Chunks)
  PROVE  /\ Input(s) \in Seq(Inputs)
         /\ Input(Append(s, Answer)) = Input(s)
         /\ \A c \in Inputs : Input(Append(s, c)) = Append(Input(s), c)
         /\ s # <<>> => Input(<<Head(s)>>) \o Input(Tail(s)) = Input(s)
<1>1. Input(s) \in Seq(Inputs)
  BY InputJoins
<1>2. ASSUME NEW c \in Chunks PROVE Input(Append(s, c)) = Input(s) \o Input(<<c>>)
  <2>1. <<c>> \in Seq(Chunks) /\ Append(s, c) = s \o <<c>>
    BY AppendIsConcat
  <2> QED
    BY <2>1, InputJoins
<1>3. Answer \in Chunks /\ Inputs \subseteq Chunks
  BY DEF Chunks
<1>4. Input(Append(s, Answer)) = Input(s)
  BY <1>1, <1>2, <1>3, InputOfOne, ConcatEmptySeq
<1>5. ASSUME NEW c \in Inputs PROVE Input(Append(s, c)) = Append(Input(s), c)
  BY <1>1, <1>2, <1>3, InputOfOne, AppendIsConcat
<1>6. ASSUME s # <<>> PROVE Input(<<Head(s)>>) \o Input(Tail(s)) = Input(s)
  <2>1. Head(s) \in Chunks /\ Tail(s) \in Seq(Chunks) /\ <<Head(s)>> \in Seq(Chunks)
    BY <1>6, HeadTailProperties
  <2>2. s = <<Head(s)>> \o Tail(s)
    BY <1>6, HeadAndTail
  <2> QED
    BY <2>1, <2>2, InputJoins
<1> QED
  BY <1>1, <1>4, <1>5, <1>6

\* Input alone is all input.
LEMMA InputOfInputs ==
  ASSUME NEW s \in Seq(Inputs)
  PROVE  Input(s) = s
<1>1. s \in Seq(Chunks) /\ Len(s) \in Nat
  BY DEF Chunks
<1>2. PICK u \in [0..Len(s) -> Seq(Inputs)] :
           /\ u[0] = <<>>
           /\ \A n \in 1..Len(s) : u[n] = IF s[n] = Answer THEN u[n - 1]
                                          ELSE Append(u[n - 1], s[n])
           /\ Input(s) = u[Len(s)]
  BY <1>1, InputIs
<1> DEFINE S == {n \in Nat : n <= Len(s) => Len(u[n]) = n /\ \A i \in 1..n : u[n][i] = s[i]}
<1>3. 0 \in S
  BY <1>2
<1>4. ASSUME NEW n \in Nat, n \in S PROVE n + 1 \in S
  <2>1. SUFFICES ASSUME n + 1 <= Len(s)
                 PROVE  Len(u[n + 1]) = n + 1 /\ \A i \in 1..(n + 1) : u[n + 1][i] = s[i]
    OBVIOUS
  <2>2. n + 1 \in 1..Len(s) /\ n \in 0..Len(s) /\ s[n + 1] \in Inputs /\ (n + 1) - 1 = n
    BY <1>1, <2>1
  <2>3. s[n + 1] # Answer
    BY <2>2, ActorAssumption DEF Inputs, Answer
  <2>4. u[n + 1] = Append(u[n], s[n + 1]) /\ u[n] \in Seq(Inputs)
    BY <1>2, <2>2, <2>3
  <2>5. Len(u[n]) = n /\ \A i \in 1..n : u[n][i] = s[i]
    BY <1>4, <2>1
  <2> QED
    BY <2>2, <2>4, <2>5, AppendProperties
<1>5. Len(u[Len(s)]) = Len(s) /\ \A i \in 1..Len(s) : u[Len(s)][i] = s[i]
  <2> HIDE DEF S
  <2>1. Nat \subseteq S
    BY <1>3, <1>4, SetInduction
  <2> QED
    BY <1>1, <2>1 DEF S
<1>6. u[Len(s)] \in Seq(Inputs)
  BY <1>1, <1>2
<1> QED
  BY <1>2, <1>5, <1>6, SeqEqual

-----------------------------------------------------------------------------
(* The channels and the reservations.                                      *)

\* A command is put behind the others.
LEMMA Sending ==
  ASSUME IInv, NEW c \in Queued, control' = Append(control, c)
  PROVE  /\ control' \in Seq(Queued) /\ control' # <<>>
         /\ Len(control) \in Nat /\ Len(control') = Len(control) + 1
         /\ control'[Len(control')] = c
         /\ \A i \in 1..Len(control') : i # Len(control') =>
              i \in 1..Len(control) /\ control'[i] = control[i]
<1>1. control \in Seq(Queued)
  BY DEF IInv, Types
<1> QED
  BY <1>1, AppendProperties

\* The first one is taken.
LEMMA Receiving ==
  ASSUME IInv, control # <<>>, control' = Tail(control)
  PROVE  /\ control' \in Seq(Queued) /\ Head(control) = control[1] /\ control[1] \in Queued
         /\ Len(control) \in Nat /\ 1 \in 1..Len(control) /\ Len(control') = Len(control) - 1
         /\ \A i \in 1..Len(control') : i + 1 \in 1..Len(control) /\ control'[i] = control[i + 1]
         /\ Len(control) = 1 => control' = <<>>
         /\ Len(control) # 1 => control' # <<>>
<1>1. control \in Seq(Queued)
  BY DEF IInv, Types
<1>2. /\ control' \in Seq(Queued) /\ Head(control) = control[1] /\ control[1] \in Queued
      /\ Len(control) \in Nat /\ 1 \in 1..Len(control) /\ Len(control') = Len(control) - 1
      /\ \A i \in 1..Len(control') : control'[i] = control[i + 1]
  BY <1>1, HeadTailProperties
<1>3. \A i \in 1..Len(control') : i + 1 \in 1..Len(control)
  BY <1>2
<1>4. control' = <<>> <=> Len(control') = 0
  BY <1>2, EmptySeq
<1> QED
  BY <1>2, <1>3, <1>4

\* Nobody waits for what is queued any more: the commands stay.
LEMMA Abandoning ==
  ASSUME IInv, control' = Unwaited(control)
  PROVE  /\ control' \in Seq(Queued) /\ Len(control') = Len(control) /\ Len(control) \in Nat
         /\ \A i \in 1..Len(control) :
              control'[i].cmd = control[i].cmd /\ control'[i].waited = FALSE
         /\ control = <<>> => control' = <<>>
         /\ control # <<>> => control' # <<>>
<1>1. /\ control \in Seq(Queued) /\ Len(control) \in Nat
      /\ DOMAIN control = 1..Len(control) /\ \A i \in 1..Len(control) : control[i] \in Queued
  BY DEF IInv, Types
<1>2. \A i \in 1..Len(control) : /\ [control[i] EXCEPT !.waited = FALSE] \in Queued
                                 /\ [control[i] EXCEPT !.waited = FALSE].cmd = control[i].cmd
                                 /\ [control[i] EXCEPT !.waited = FALSE].waited = FALSE
  BY <1>1 DEF Queued
<1>3. control' \in [1..Len(control) -> Queued]
  BY <1>1, <1>2 DEF Unwaited
<1>4. control' \in Seq(Queued) /\ Len(control') = Len(control)
  BY <1>1, <1>3, IsASeq, LenProperties
<1>5. \A i \in 1..Len(control) : control'[i] = [control[i] EXCEPT !.waited = FALSE]
  BY <1>1 DEF Unwaited
<1> QED
  BY <1>1, <1>2, <1>4, <1>5, EmptySeq

\* No place in the channel of input is lost or given out twice as long as no
\* task moves and the channel does not grow.
LEMMA PlacesStay ==
  ASSUME IInv, UNCHANGED task, data' \in Seq(Inputs), Len(data') <= Len(data)
  PROVE  Places'
<1>1. Reserved' = Reserved
  BY DEF Reserved
<1>2. IsFiniteSet(Reserved) /\ Cardinality(Reserved) \in Nat
  BY FS_CardinalityType DEF IInv, Places
<1>3. Len(data) \in Nat /\ Len(data') \in Nat
  BY DEF IInv, Types
<1> QED
  BY <1>1, <1>2, <1>3, ActorAssumption DEF IInv, Places

\* What is delivered is counted in the same way when nothing of it moves.
LEMMA DeliveredStays ==
  ASSUME IInv, UNCHANGED <<tty, data, accepted>>, actor'.pending = actor.pending,
         mishap \subseteq mishap', actor'.pc = actor.pc, actor'.state = "released" <=>
                                                      actor.state = "released"
  PROVE  AcceptedIsDelivered'
BY DEF IInv, AcceptedIsDelivered, Closed

-----------------------------------------------------------------------------
(* The invariant holds initially and in every step.                        *)

\* A terminal starts running, or quiesced when it was handed over.
LEMMA InitInv == Init => IInv
<1> SUFFICES ASSUME Init PROVE IInv
  OBVIOUS
<1> PICK quiesced \in BOOLEAN :
    /\ accepting = ~quiesced /\ data = <<>> /\ control = <<>>
    /\ actor = [pc |-> "loop", state |-> IF quiesced THEN "quiesced" ELSE "running",
                pending |-> <<>>, waited |-> FALSE]
    /\ task = [t \in Tasks |-> "idle"]
    /\ main = [call |-> "none", answer |-> "none", calls |-> 0, paused |-> quiesced,
               handle |-> "held"]
    /\ resized = FALSE /\ tty = <<>> /\ accepted = <<>> /\ mishap = {}
  BY DEF Init
<1>1. Types
  <2>1. actor \in Actors
    BY DEF Actors
  <2>2. main \in Mains
    BY ActorAssumption DEF Mains
  <2>3. accepting \in BOOLEAN /\ resized \in BOOLEAN /\ mishap \subseteq {"pty", "late"}
    OBVIOUS
  <2>4. data \in Seq(Inputs) /\ tty \in Seq(Inputs) /\ accepted \in Seq(Inputs)
        /\ control \in Seq(Queued)
    OBVIOUS
  <2>5. task \in [Tasks -> {"idle", "reserving", "reserved"}]
    OBVIOUS
  <2> QED
    BY <2>1, <2>2, <2>3, <2>4, <2>5 DEF Types
<1>2. Places
  <2>1. Reserved = {}
    BY DEF Reserved
  <2> QED
    BY <2>1, FS_EmptySet, ActorAssumption DEF Places
<1>3. OneIsWaitedFor /\ LastCommands /\ Calls /\ Paused /\ Gate /\ Taken
  <2>1. Len(control) = 0
    OBVIOUS
  <2>2. OneIsWaitedFor /\ LastCommands
    BY <2>1 DEF OneIsWaitedFor, LastCommands
  <2>3. Calls /\ Taken
    BY DEF Calls, Taken
  <2>4. Paused
    <3>1. CASE quiesced
      <4>1. accepting = FALSE
        BY <3>1
      <4>2. actor.pc = "loop" /\ actor.state = "quiesced" /\ actor.pending = <<>>
        BY <3>1
      <4> QED
        BY <2>1, <4>1, <4>2 DEF Paused, Calm
    <3>2. CASE ~quiesced
      <4>1. main.paused = FALSE
        BY <3>2
      <4> QED
        BY <4>1 DEF Paused
    <3> QED
      BY <3>1, <3>2
  <2>5. Gate
    BY DEF Gate, Running
  <2> QED
    BY <2>2, <2>3, <2>4, <2>5
<1>4. AcceptedIsDelivered
  <2>1. tty \o Input(actor.pending) \o data = accepted
    BY InputOfOne, Joining
  <2> QED
    BY <2>1 DEF AcceptedIsDelivered
<1> QED
  BY <1>1, <1>2, <1>3, <1>4 DEF IInv

\* A task looks at the gate and asks for a place.
LEMMA StartWriteKeeps ==
  ASSUME NEW t \in Tasks, IInv, StartWrite(t)
  PROVE  IInv'
<1> USE DEF StartWrite, IInv
<1>1. Types' /\ Reserved' = Reserved
  BY DEF Types, Reserved
<1>2. Places'
  BY <1>1 DEF Places
<1>3. OneIsWaitedFor' /\ LastCommands' /\ Calls' /\ Paused' /\ Gate' /\ Taken'
  BY DEF OneIsWaitedFor, LastCommands, Calls, Paused, Gate, Taken, Calm, Closed, Running
<1>4. AcceptedIsDelivered'
  BY DeliveredStays
<1> QED
  BY <1>1, <1>2, <1>3, <1>4

\* It gets one when there is room, or gives up as the actor is gone.
LEMMA ReserveKeeps ==
  ASSUME NEW t \in Tasks, IInv, Reserve(t)
  PROVE  IInv'
<1> USE DEF Reserve, IInv
<1>1. Types'
  BY DEF Types
<1>2. Places'
  <2>1. IsFiniteSet(Reserved) /\ Cardinality(Reserved) \in Nat /\ t \notin Reserved
        /\ Len(data) \in Nat
    BY FS_CardinalityType DEF Places, Reserved, Types
  <2>2. CASE task' = [task EXCEPT ![t] = "idle"]
    <3>1. Reserved' = Reserved
      BY <2>2 DEF Reserved, Types
    <3> QED
      BY <3>1 DEF Places
  <2>3. CASE HasRoom /\ task' = [task EXCEPT ![t] = "reserved"]
    <3>1. Reserved' = Reserved \cup {t}
      BY <2>3 DEF Reserved, Types
    <3>2. IsFiniteSet(Reserved') /\ Cardinality(Reserved') = Cardinality(Reserved) + 1
      BY <2>1, <3>1, FS_AddElement
    <3> QED
      BY <2>1, <2>3, <3>2, ActorAssumption DEF Places, HasRoom
  <2> QED
    BY <2>2, <2>3
<1>3. OneIsWaitedFor' /\ LastCommands' /\ Calls' /\ Paused' /\ Gate' /\ Taken'
  BY DEF OneIsWaitedFor, LastCommands, Calls, Paused, Gate, Taken, Calm, Closed, Running
<1>4. AcceptedIsDelivered'
  BY DeliveredStays
<1> QED
  BY <1>1, <1>2, <1>3, <1>4

\* The gate is open and the actor lives: the chunk goes into the channel.
LEMMA AcceptKeeps ==
  ASSUME IInv, accepting, ~Closed, Len(accepted) < MaxInputs, Accept,
         UNCHANGED <<accepting, control, actor, main, resized, tty, mishap>>
  PROVE  /\ data' \in Seq(Inputs) /\ accepted' \in Seq(Inputs)
         /\ Len(data) \in Nat /\ Len(data') = Len(data) + 1
         /\ OneIsWaitedFor' /\ LastCommands' /\ Calls' /\ Paused' /\ Gate' /\ Taken'
         /\ AcceptedIsDelivered'
<1> USE DEF IInv
<1> DEFINE n == Len(accepted) + 1
           before == tty \o Input(actor.pending)
<1>1. data \in Seq(Inputs) /\ accepted \in Seq(Inputs) /\ n \in Inputs
      /\ tty \in Seq(Inputs) /\ actor.pending \in Seq(Chunks)
  BY ActorAssumption DEF Types, Inputs, Actors
<1>2. data' = Append(data, n) /\ accepted' = Append(accepted, n)
  BY DEF Accept
<1>3. before \in Seq(Inputs)
  BY <1>1, InputJoins, ConcatProperties
<1> HIDE DEF n, before
<1>4. data' \in Seq(Inputs) /\ accepted' \in Seq(Inputs)
      /\ Len(data) \in Nat /\ Len(data') = Len(data) + 1
  BY <1>1, <1>2, AppendProperties, LenProperties
<1>5. OneIsWaitedFor' /\ Calls' /\ Gate'
  BY DEF OneIsWaitedFor, Calls, Gate, Closed, Running, Calm, Paused
<1>6. Paused' /\ Taken' /\ LastCommands'
  BY DEF Gate, Closed, Paused, Taken, Running, LastCommands
<1>7. AcceptedIsDelivered'
  <2>1. before \o data' = Append(before \o data, n)
    BY <1>1, <1>2, <1>3, JoinAppend
  <2>2. before' = before
    BY DEF before
  <2>3. AcceptedIsDelivered <=> ("pty" \notin mishap /\ (Closed => actor.state = "released") =>
                                   before \o data = accepted)
    BY DEF AcceptedIsDelivered, before
  <2>4. AcceptedIsDelivered' <=>
          ("pty" \notin mishap' /\ (Closed' => actor'.state = "released") =>
             before' \o data' = accepted')
    BY DEF AcceptedIsDelivered, before
  <2> QED
    BY <1>2, <2>1, <2>2, <2>3, <2>4 DEF Closed
<1> QED
  BY <1>4, <1>5, <1>6, <1>7

\* A task uses its place, or gives it back as the gate was closed meanwhile.
LEMMA SendReservedKeeps ==
  ASSUME NEW t \in Tasks, IInv, SendReserved(t)
  PROVE  IInv'
<1> USE DEF SendReserved, IInv
<1>1. task' \in [Tasks -> {"idle", "reserving", "reserved"}] /\ Reserved' = Reserved \ {t}
      /\ t \in Reserved
  BY DEF Types, Reserved
<1>2. /\ IsFiniteSet(Reserved') /\ Cardinality(Reserved') \in Nat
      /\ Cardinality(Reserved') + 1 = Cardinality(Reserved)
  <2>1. /\ IsFiniteSet(Reserved \ {t}) /\ Cardinality(Reserved) \in Nat
        /\ Cardinality(Reserved \ {t}) = Cardinality(Reserved) - 1
    BY <1>1, FS_RemoveElement, FS_CardinalityType DEF Places
  <2>2. Cardinality(Reserved \ {t}) \in Nat
    BY <2>1, FS_CardinalityType
  <2> QED
    BY <1>1, <2>1, <2>2
<1>3. CASE accepting /\ ~Closed /\ Len(accepted) < MaxInputs /\ Accept
  <2>1. Types'
    BY <1>1, <1>3, AcceptKeeps DEF Types
  <2>2. Places'
    BY <1>2, <1>3, AcceptKeeps, ActorAssumption DEF Places
  <2> QED
    BY <1>3, <2>1, <2>2, AcceptKeeps
<1>4. CASE UNCHANGED <<data, accepted>>
  <2>1. Types'
    BY <1>1, <1>4 DEF Types
  <2>2. Places'
    <3>1. Len(data) \in Nat
      BY DEF Types
    <3> QED
      BY <1>2, <1>4, <3>1, ActorAssumption DEF Places
  <2>3. OneIsWaitedFor' /\ LastCommands' /\ Calls' /\ Paused' /\ Gate' /\ Taken'
    BY <1>4 DEF OneIsWaitedFor, LastCommands, Calls, Paused, Gate, Taken, Calm, Closed, Running
  <2>4. AcceptedIsDelivered'
    BY <1>4, DeliveredStays
  <2> QED
    BY <2>1, <2>2, <2>3, <2>4
<1> QED
  BY <1>3, <1>4

\* A call that does not wait for a place.
LEMMA TryWriteKeeps ==
  ASSUME IInv, TryWrite
  PROVE  IInv'
<1> USE DEF TryWrite, IInv
<1>1. Types'
  BY AcceptKeeps DEF Types
<1>2. Places'
  <2>1. Reserved' = Reserved /\ Cardinality(Reserved) \in Nat
    BY FS_CardinalityType DEF Reserved, Places
  <2> QED
    BY <2>1, AcceptKeeps, ActorAssumption DEF Places, HasRoom
<1> QED
  BY <1>1, <1>2, AcceptKeeps

\* A call to an actor that is gone sends nothing.
LEMMA CallingTheDeadKeeps ==
  ASSUME IInv, Closed, UNCHANGED <<control, data, actor, task, resized, tty, accepted, mishap>>,
         accepting' \in BOOLEAN, main' \in Mains, main.call = "none", main'.call = "none",
         main'.answer = "none",
         main'.handle # main.handle => ~main'.paused /\ main.handle # "dropped",
         main'.paused => main.paused
  PROVE  IInv'
<1> USE DEF IInv
<1>1. Types'
  BY DEF Types
<1>2. Places'
  BY PlacesStay DEF Types
<1>3. Closed'
  BY DEF Closed
<1>4. OneIsWaitedFor'
  BY DEF OneIsWaitedFor, Calls
<1>5. LastCommands'
  <2>1. control' = control /\ (main.handle = "dropped" => main'.handle = "dropped")
    OBVIOUS
  <2> QED
    BY <1>3, <2>1 DEF LastCommands
<1>6. Calls'
  BY <1>3 DEF Calls
<1>7. Paused' /\ Gate' /\ Taken'
  BY <1>3 DEF Paused, Gate, Taken
<1>8. AcceptedIsDelivered'
  BY DeliveredStays
<1> QED
  BY <1>1, <1>2, <1>4, <1>5, <1>6, <1>7, <1>8

\* A command is sent when no other is waited for; a release only when the
\* actor is paused, and nothing but the shutdown after it.
LEMMA SendingKeeps ==
  ASSUME IInv, ~Closed, UNCHANGED <<data, actor, task, resized, tty, accepted, mishap>>,
         main.answer # "none" \/ main.call = "none", main.handle # "dropped",
         NEW cmd \in Commands, NEW waited \in BOOLEAN,
         control' = Append(control, [cmd |-> cmd, waited |-> waited]),
         waited => main'.call = cmd /\ main'.answer = "none",
         accepting' \in BOOLEAN, accepting' => accepting,
         main' \in Mains, cmd = "shutdown" <=> main'.handle = "dropped",
         cmd = "release" <=> main'.handle = "released", cmd = "release" => main.paused,
         main.handle = "released" => cmd = "shutdown"
  PROVE  Types' /\ Places' /\ OneIsWaitedFor' /\ LastCommands' /\ Taken' /\ AcceptedIsDelivered'
<1> USE DEF IInv
<1> DEFINE c == [cmd |-> cmd, waited |-> waited]
<1>1. c \in Queued /\ c.cmd = cmd /\ c.waited = waited
  BY DEF Queued
<1> HIDE DEF c
<1>2. /\ control' \in Seq(Queued) /\ control' # <<>>
      /\ Len(control) \in Nat /\ Len(control') = Len(control) + 1
      /\ control'[Len(control')] = c
      /\ \A i \in 1..Len(control') : i # Len(control') =>
           i \in 1..Len(control) /\ control'[i] = control[i]
  BY <1>1, Sending DEF c
<1>3. Types'
  BY <1>2 DEF Types
<1>4. Places'
  BY PlacesStay DEF Types
<1>5. ~Closed' /\ Calm' = Calm
  BY DEF Closed, Calm
<1>6. (\A i \in 1..Len(control) : ~control[i].waited) /\ ~actor.waited
  <2>1. \A i \in 1..Len(control) : control[i].cmd # "none"
    <3>1. \A i \in 1..Len(control) : control[i] \in Queued
      BY DEF Types
    <3> QED
      BY <3>1 DEF Queued, Commands
  <2> QED
    BY <2>1 DEF OneIsWaitedFor
<1>7. OneIsWaitedFor'
  <2>1. ASSUME NEW i \in 1..Len(control'), control'[i].waited
        PROVE  /\ i = Len(control') /\ ~actor'.waited
               /\ main'.call = control'[i].cmd /\ main'.answer = "none"
    BY <1>1, <1>2, <1>6, <2>1
  <2> QED
    BY <1>6, <2>1 DEF OneIsWaitedFor
<1>8. LastCommands'
  <2>1. ASSUME NEW i \in 1..Len(control'), control'[i].cmd = "shutdown"
        PROVE  i = Len(control') /\ main'.handle = "dropped"
    <3>1. CASE i = Len(control')
      BY <1>1, <1>2, <2>1, <3>1
    <3>2. CASE i # Len(control')
      BY <1>2, <2>1, <3>2 DEF LastCommands
    <3> QED
      BY <3>1, <3>2
  <2>2. ASSUME NEW i \in 1..Len(control'), control'[i].cmd = "release"
        PROVE  /\ Calm' /\ ~accepting' /\ main'.handle # "held"
               /\ \A j \in 1..(i - 1) : control'[j].cmd = "duplicate"
    <3>1. CASE i = Len(control')
      <4>1. Calm /\ ~accepting /\ \A j \in 1..Len(control) : control[j].cmd = "duplicate"
        BY <1>1, <1>2, <2>2, <3>1 DEF Paused
      <4>2. main'.handle = "released"
        BY <1>1, <1>2, <2>2, <3>1
      <4>3. \A j \in 1..(i - 1) : j \in 1..Len(control') /\ j # Len(control')
        BY <1>2, <3>1
      <4> QED
        BY <1>2, <1>5, <4>1, <4>2, <4>3
    <3>2. CASE i # Len(control')
      <4>1. i \in 1..Len(control) /\ control[i].cmd = "release"
        BY <1>2, <2>2, <3>2
      <4>2. /\ Calm /\ ~accepting /\ main.handle # "held"
            /\ \A j \in 1..(i - 1) : control[j].cmd = "duplicate"
        BY <4>1 DEF LastCommands
      <4>3. \A j \in 1..(i - 1) : j \in 1..Len(control') /\ j # Len(control')
        BY <1>2, <4>1
      <4>4. main.handle = "released"
        BY <4>2 DEF Types, Mains
      <4>5. main'.handle # "held"
        BY <4>4
      <4> QED
        BY <1>2, <1>5, <4>2, <4>3, <4>5
    <3> QED
      BY <3>1, <3>2
  <2> QED
    BY <1>1, <1>2, <2>1, <2>2 DEF LastCommands
<1>9. Taken' /\ AcceptedIsDelivered'
  BY DeliveredStays DEF Taken, Closed
<1> QED
  BY <1>3, <1>4, <1>7, <1>8, <1>9

\* The gate closes before the begin is sent.
LEMMA BeginHandoffKeeps ==
  ASSUME IInv, BeginHandoff
  PROVE  IInv'
<1> USE DEF BeginHandoff, Idle, Call
<1>1. main \in Mains /\ main.calls + 1 \in 0..MaxCalls
  BY ActorAssumption DEF IInv, Types, Mains
<1>2. CASE Closed
  <2>1. main' = [main EXCEPT !.calls = @ + 1]
    BY <1>2
  <2>2. /\ main' \in Mains /\ main'.call = "none" /\ main'.answer = "none"
        /\ main'.handle = main.handle /\ main'.paused = main.paused
    BY <1>1, <2>1 DEF Mains, IInv, Calls
  <2> QED
    BY <1>2, <2>2, CallingTheDeadKeeps
<1>3. CASE ~Closed
  <2>1. main' = [main EXCEPT !.call = "begin", !.answer = "none", !.calls = @ + 1]
    BY <1>3
  <2>2. /\ main' \in Mains /\ main'.call = "begin" /\ main'.answer = "none"
        /\ main'.handle = "held" /\ ~main'.paused
    BY <1>1, <1>3, <2>1 DEF Mains, Commands
  <2>3. ~accepting' /\ accepting' \in BOOLEAN
    BY <1>3 DEF Closed
  <2>4. Types' /\ Places' /\ OneIsWaitedFor' /\ LastCommands' /\ Taken' /\ AcceptedIsDelivered'
    BY <1>3, <2>2, <2>3, SendingKeeps DEF Commands
  <2>5. Calls' /\ Paused' /\ Gate'
    BY <2>2, <2>3 DEF Calls, Paused, Gate
  <2> QED
    BY <2>4, <2>5 DEF IInv
<1> QED
  BY <1>2, <1>3

\* The descriptor of a paused terminal is asked for.
LEMMA DuplicateKeeps ==
  ASSUME IInv, Duplicate
  PROVE  IInv'
<1> USE DEF Duplicate, Idle, Call
<1>1. main \in Mains /\ main.calls + 1 \in 0..MaxCalls
  BY ActorAssumption DEF IInv, Types, Mains
<1>2. CASE Closed
  <2>1. main' = [main EXCEPT !.calls = @ + 1]
    BY <1>2
  <2>2. /\ main' \in Mains /\ main'.call = "none" /\ main'.answer = "none"
        /\ main'.handle = main.handle /\ main'.paused = main.paused
    BY <1>1, <2>1 DEF Mains, IInv, Calls
  <2> QED
    BY <1>2, <2>2, CallingTheDeadKeeps DEF IInv, Types
<1>3. CASE ~Closed
  <2>1. main' = [main EXCEPT !.call = "duplicate", !.answer = "none", !.calls = @ + 1]
    BY <1>3
  <2>2. /\ main' \in Mains /\ main'.call = "duplicate" /\ main'.answer = "none"
        /\ main'.handle = "held" /\ main'.paused
    BY <1>1, <1>3, <2>1 DEF Mains, Commands
  <2>3. Types' /\ Places' /\ OneIsWaitedFor' /\ LastCommands' /\ Taken' /\ AcceptedIsDelivered'
    BY <1>3, <2>2, SendingKeeps DEF Commands, IInv, Types
  <2>4. Calls' /\ Gate'
    BY <1>3, <2>2 DEF Calls, Gate, IInv, Paused
  <2>5. Paused'
    <3> DEFINE c == [cmd |-> "duplicate", waited |-> TRUE]
    <3>1. c \in Queued /\ c.cmd = "duplicate" /\ control' = Append(control, c)
      BY <1>3 DEF Queued, Commands
    <3>2. \A i \in 1..Len(control') : control'[i].cmd = "duplicate"
      <4> HIDE DEF c
      <4> QED
        BY <1>3, <3>1, Sending DEF IInv, Paused
    <3> QED
      BY <1>3, <3>2 DEF IInv, Paused, Calm, Closed
  <2> QED
    BY <2>3, <2>4, <2>5 DEF IInv
<1> QED
  BY <1>2, <1>3

\* The pause is given up.
LEMMA RollbackKeeps ==
  ASSUME IInv, Rollback
  PROVE  IInv'
<1> USE DEF Rollback, Idle
<1>1. main \in Mains /\ main.calls + 1 \in 0..MaxCalls
  BY ActorAssumption DEF IInv, Types, Mains
<1>2. CASE Closed
  <2>1. main' = [main EXCEPT !.calls = @ + 1, !.paused = FALSE]
    BY <1>2
  <2>2. /\ main' \in Mains /\ main'.call = "none" /\ main'.answer = "none"
        /\ main'.handle = main.handle /\ ~main'.paused
    BY <1>1, <2>1 DEF Mains, IInv, Calls
  <2> QED
    BY <1>2, <2>2, CallingTheDeadKeeps DEF IInv, Types
<1>3. CASE ~Closed
  <2>1. main' = [main EXCEPT !.call = "rollback", !.answer = "none", !.calls = @ + 1,
                             !.paused = FALSE]
    BY <1>3
  <2>2. /\ main' \in Mains /\ main'.call = "rollback" /\ main'.answer = "none"
        /\ main'.handle = "held" /\ ~main'.paused
    BY <1>1, <1>3, <2>1 DEF Mains, Commands
  <2>3. Types' /\ Places' /\ OneIsWaitedFor' /\ LastCommands' /\ Taken' /\ AcceptedIsDelivered'
    BY <1>3, <2>2, SendingKeeps DEF Commands, IInv, Types
  <2>4. Calls' /\ Paused' /\ Gate'
    BY <1>3, <2>2 DEF Calls, Paused, Gate, IInv
  <2> QED
    BY <2>3, <2>4 DEF IInv
<1> QED
  BY <1>2, <1>3

\* The handoff is committed: the PTY is let go.
LEMMA ReleaseAfterCommitKeeps ==
  ASSUME IInv, ReleaseAfterCommit
  PROVE  IInv'
<1> USE DEF ReleaseAfterCommit, Idle
<1>1. main \in Mains
  BY DEF IInv, Types
<1>2. CASE Closed
  <2>1. main' = [main EXCEPT !.handle = "released", !.paused = FALSE]
    BY <1>2
  <2>2. /\ main' \in Mains /\ main'.call = "none" /\ main'.answer = "none" /\ ~main'.paused
    BY <1>1, <2>1 DEF Mains, IInv, Calls
  <2> QED
    BY <1>2, <2>2, CallingTheDeadKeeps
<1>3. CASE ~Closed
  <2>1. main' = [[main EXCEPT !.handle = "released", !.paused = FALSE] EXCEPT !.call = "release"]
    BY <1>3
  <2>2. /\ main' \in Mains /\ main'.call = "release" /\ main'.answer = "none"
        /\ main'.handle = "released" /\ ~main'.paused
    BY <1>1, <1>3, <2>1 DEF Mains, Commands, IInv, Calls
  <2>3. Types' /\ Places' /\ OneIsWaitedFor' /\ LastCommands' /\ Taken' /\ AcceptedIsDelivered'
    BY <1>3, <2>2, SendingKeeps DEF Commands
  <2>4. Calls' /\ Paused' /\ Gate'
    BY <1>3, <2>2 DEF Calls, Paused, Gate, IInv
  <2> QED
    BY <2>3, <2>4 DEF IInv
<1> QED
  BY <1>2, <1>3

\* The runtime is dropped.
LEMMA ShutdownKeeps ==
  ASSUME IInv, Shutdown
  PROVE  IInv'
<1> USE DEF Shutdown
<1>1. main \in Mains
  BY DEF IInv, Types
<1>2. /\ main' \in Mains /\ main'.call = "none" /\ main'.answer = "none" /\ ~main'.paused
      /\ main'.handle = "dropped"
  BY <1>1 DEF Mains, IInv, Calls
<1>3. CASE Closed
  BY <1>2, <1>3, CallingTheDeadKeeps
<1>4. CASE ~Closed
  <2>1. Types' /\ Places' /\ OneIsWaitedFor' /\ LastCommands' /\ Taken' /\ AcceptedIsDelivered'
    BY <1>2, <1>4, SendingKeeps DEF Commands
  <2>2. Calls' /\ Paused' /\ Gate'
    BY <1>2, <1>4 DEF Calls, Paused, Gate
  <2> QED
    BY <2>1, <2>2 DEF IInv
<1> QED
  BY <1>3, <1>4

\* The terminal is resized outside a handoff.
LEMMA ResizeKeeps ==
  ASSUME IInv, Resize
  PROVE  IInv'
<1> USE DEF Resize, IInv
<1>1. Types'
  BY DEF Types
<1>2. Places'
  BY PlacesStay DEF Types
<1>3. ~actor.waited /\ main.handle = "held" /\ ~main.paused /\ Closed' = Closed
  BY DEF OneIsWaitedFor, Closed
<1>4. OneIsWaitedFor'
  BY <1>3 DEF OneIsWaitedFor
<1>5. LastCommands'
  BY <1>3 DEF LastCommands
<1>6. Calls' /\ Paused'
  BY <1>3 DEF Calls, Paused, Running
<1>7. Gate' /\ Taken'
  BY <1>3 DEF Gate, Taken, Running
<1>8. AcceptedIsDelivered'
  BY DeliveredStays
<1> QED
  BY <1>1, <1>2, <1>4, <1>5, <1>6, <1>7, <1>8

\* The main thread stops waiting: what it sent stays in the channel.
LEMMA GiveUpKeeps ==
  ASSUME IInv, GiveUp
  PROVE  IInv'
<1> USE DEF GiveUp, IInv
<1>1. main \in Mains /\ actor \in Actors
  BY DEF Types
<1>2. /\ main' \in Mains /\ main'.call = main.call /\ main'.answer = "late"
      /\ main'.handle = main.handle /\ main'.paused = main.paused
  BY <1>1 DEF Mains
<1>3. /\ actor' \in Actors /\ ~actor'.waited /\ actor'.pc = actor.pc
      /\ actor'.state = actor.state /\ actor'.pending = actor.pending
  BY <1>1 DEF Actors
<1>4. /\ control' \in Seq(Queued) /\ Len(control') = Len(control) /\ Len(control) \in Nat
      /\ \A i \in 1..Len(control) :
           control'[i].cmd = control[i].cmd /\ control'[i].waited = FALSE
      /\ control = <<>> => control' = <<>>
      /\ control # <<>> => control' # <<>>
  BY Abandoning
<1>5. /\ mishap \subseteq mishap' /\ mishap' \subseteq {"pty", "late"}
      /\ main.call = "rollback" => "late" \in mishap'
  BY DEF Types
<1>6. Types'
  BY <1>2, <1>3, <1>4, <1>5 DEF Types
<1>7. Places'
  BY PlacesStay DEF Types
<1>8. Closed' = Closed /\ Calm' = Calm /\ Running' = Running
  BY <1>3 DEF Closed, Calm, Running
<1>9. OneIsWaitedFor'
  BY <1>3, <1>4 DEF OneIsWaitedFor
<1>10. LastCommands'
  <2>1. \A i \in 1..Len(control) : \A j \in 1..(i - 1) : j \in 1..Len(control)
    BY <1>4
  <2>2. control # <<>> => Len(control) \in 1..Len(control)
    BY <1>4, EmptySeq DEF Types
  <2>3. \A i \in 1..Len(control) : i \in 1..Len(control') /\ control'[i].cmd = control[i].cmd
    BY <1>4
  <2>4. main'.handle = main.handle /\ accepting' = accepting
    BY <1>2
  <2>5. control' # <<>> <=> control # <<>>
    BY <1>4
  <2>6. LastCommands
    OBVIOUS
  <2> QED
    BY ONLY <1>4, <1>8, <2>1, <2>2, <2>3, <2>4, <2>5, <2>6 DEF LastCommands
<1>11. Calls'
  BY <1>2, <1>4, <1>5, <1>8 DEF Calls
<1>12. Paused' /\ Gate' /\ Taken'
  BY <1>2, <1>3, <1>4, <1>5, <1>8 DEF Paused, Gate, Taken
<1>13. AcceptedIsDelivered'
  BY <1>3, <1>5, DeliveredStays
<1> QED
  BY <1>6, <1>7, <1>9, <1>10, <1>11, <1>12, <1>13

\* A call returns; a begin that failed becomes a rollback.
LEMMA ReturnKeeps ==
  ASSUME IInv, Return
  PROVE  IInv'
<1> USE DEF Return
<1>1. main \in Mains /\ accepting \in BOOLEAN /\ main.call # "none"
  BY DEF IInv, Types, Calls
<1>2. CASE main.call = "begin" /\ main.answer # "ok" /\ ~Closed
  <2>1. main' = [main EXCEPT !.call = "rollback", !.answer = "none"]
        /\ control' = Append(control, [cmd |-> "rollback", waited |-> TRUE])
    BY <1>2
  <2>2. /\ main' \in Mains /\ main'.call = "rollback" /\ main'.answer = "none"
        /\ main'.handle = main.handle /\ main'.paused = main.paused
    BY <1>1, <2>1 DEF Mains, Commands
  <2>3. accepting' = accepting /\ main.handle = "held" /\ ~main.paused /\ ~accepting
    BY <1>1, <1>2 DEF IInv, Calls
  <2>4. Types' /\ Places' /\ OneIsWaitedFor' /\ LastCommands' /\ Taken' /\ AcceptedIsDelivered'
    BY <1>1, <1>2, <2>1, <2>2, <2>3, SendingKeeps DEF Commands
  <2>5. Calls' /\ Paused' /\ Gate'
    BY <2>2, <2>3 DEF Calls, Paused, Gate
  <2> QED
    BY <2>4, <2>5 DEF IInv
<1>3. CASE ~(main.call = "begin" /\ main.answer # "ok" /\ ~Closed)
  <2> USE DEF IInv
  <2>1. /\ main' = [main EXCEPT !.call = "none", !.answer = "none",
                       !.paused = IF main.call = "begin" THEN main.answer = "ok" ELSE @]
        /\ control' = control
    BY <1>3
  <2>2. /\ main' \in Mains /\ main'.call = "none" /\ main'.answer = "none"
        /\ main'.handle = main.handle
        /\ main.call # "begin" => main'.paused = main.paused
        /\ main.call = "begin" => (main'.paused <=> main.answer = "ok")
    BY <1>1, <2>1 DEF Mains
  <2>3. /\ accepting' \in BOOLEAN
        /\ accepting' <=> accepting \/ (main.call = "rollback" /\ main.answer = "ok")
    BY <1>1
  <2>4. Types'
    BY <2>1, <2>2, <2>3 DEF Types
  <2>5. Places'
    BY PlacesStay DEF Types
  <2>6. Closed' = Closed /\ Calm' = Calm /\ Running' = Running
    BY DEF Closed, Calm, Running
  <2>7. OneIsWaitedFor'
    BY <2>1, <2>2 DEF OneIsWaitedFor
  <2>8. LastCommands'
    <3>1. ASSUME NEW i \in 1..Len(control), control[i].cmd = "release", ~Closed
          PROVE  ~accepting'
      <4>1. main.handle # "held" /\ ~accepting
        BY <3>1 DEF LastCommands
      <4> QED
        BY <2>3, <4>1 DEF Calls
    <3> QED
      BY <2>1, <2>2, <2>6, <3>1 DEF LastCommands
  <2>9. Calls'
    <3>1. main'.paused => main'.handle = "held"
      BY <2>2 DEF Calls
    <3> QED
      BY <2>2, <3>1 DEF Calls
  <2>10. Paused'
    <3>1. CASE main.call = "begin"
      <4>1. Len(control) = 0 \/ control # <<>>
        BY EmptySeq DEF Types
      <4> QED
        BY <2>1, <2>2, <2>3, <2>6, <3>1, <4>1 DEF Paused, Calls
    <3>2. CASE main.call # "begin"
      BY <2>1, <2>2, <2>3, <2>6, <3>2 DEF Paused, Calls
    <3> QED
      BY <3>1, <3>2
  <2>11. Gate'
    <3>1. accepting' /\ ~Closed => control = <<>> /\ Running
      BY <2>3 DEF Gate, Calls
    <3>2. main.handle = "held" /\ ~main'.paused /\ ~Closed => accepting' \/ "late" \in mishap
      <4>1. SUFFICES ASSUME main.handle = "held", ~main'.paused, ~Closed, "late" \notin mishap
                     PROVE  accepting'
        OBVIOUS
      <4>2. main.call \in {"begin", "duplicate", "rollback"}
        BY <1>1, <4>1 DEF Mains, Commands, Calls
      <4>3. main.call # "begin" /\ main.call # "duplicate"
        BY <1>3, <2>2, <4>1 DEF Calls
      <4>4. main.answer = "ok"
        BY <1>1, <4>1, <4>2, <4>3 DEF Mains, Calls
      <4> QED
        BY <2>3, <4>2, <4>3, <4>4
    <3> QED
      BY <2>1, <2>2, <2>6, <3>1, <3>2 DEF Gate
  <2>12. Taken' /\ AcceptedIsDelivered'
    BY DeliveredStays DEF Taken, Closed
  <2> QED
    BY <2>4, <2>5, <2>7, <2>8, <2>9, <2>10, <2>11, <2>12
<1> QED
  BY <1>2, <1>3

\* The actor takes a command.  Before it does, the gate is closed; what it
\* answers to is the only command that somebody waits for.
LEMMA TakenCommand ==
  ASSUME IInv, actor.pc = "loop", control # <<>>, control' = Tail(control)
  PROVE  /\ control' \in Seq(Queued) /\ Head(control) = control[1] /\ control[1] \in Queued
         /\ Len(control) \in Nat /\ 1 \in 1..Len(control) /\ Len(control') = Len(control) - 1
         /\ \A i \in 1..Len(control') : i + 1 \in 1..Len(control) /\ control'[i] = control[i + 1]
         /\ Len(control) # 1 => control' # <<>> /\ control'[Len(control')] = control[Len(control)]
         /\ ~Closed /\ ~accepting /\ ~actor.waited
         /\ control[1].waited => /\ control' = <<>> /\ main.call = control[1].cmd
                                 /\ main.answer = "none"
         /\ \A i \in 1..Len(control') : control'[i].waited => control[1].waited = FALSE
<1>1. /\ control' \in Seq(Queued) /\ Head(control) = control[1] /\ control[1] \in Queued
      /\ Len(control) \in Nat /\ 1 \in 1..Len(control) /\ Len(control') = Len(control) - 1
      /\ \A i \in 1..Len(control') : i + 1 \in 1..Len(control) /\ control'[i] = control[i + 1]
      /\ Len(control) = 1 => control' = <<>>
      /\ Len(control) # 1 => control' # <<>>
  BY Receiving
<1>2. Len(control) # 1 => control'[Len(control')] = control[Len(control)]
  <2>1. Len(control) # 1 => Len(control') \in 1..Len(control')
                            /\ Len(control') + 1 = Len(control)
    BY <1>1
  <2> QED
    BY <1>1, <2>1
<1>3. ~Closed /\ ~accepting /\ ~actor.waited
  BY DEF IInv, Gate, Closed, OneIsWaitedFor
<1>4. control[1].waited => /\ Len(control) = 1 /\ main.call = control[1].cmd
                           /\ main.answer = "none"
  BY <1>1 DEF IInv, OneIsWaitedFor
<1>5. \A i \in 1..Len(control') : control[1].waited = FALSE
  <2>1. \A i \in 1..Len(control') : Len(control) # 1
    BY <1>1
  <2>2. control[1].waited \in BOOLEAN
    BY <1>1 DEF Queued
  <2> QED
    BY <1>4, <2>1, <2>2
<1> QED
  BY <1>1, <1>2, <1>3, <1>4, <1>5

\* What is left in the channel is in the order it was: only the first is gone.
LEMMA CommandsLeft ==
  ASSUME IInv, actor.pc = "loop", control # <<>>, control' = Tail(control),
         UNCHANGED <<accepting, task>>, main'.handle = main.handle,
         main' = main \/ control[1].waited,
         ~Closed' => (control[1].cmd # "duplicate" \/ UNCHANGED <<actor, data, resized>>),
         control[1].cmd \in {"release", "shutdown"} => Closed'
  PROVE  /\ LastCommands'
         /\ \A i \in 1..Len(control') :
              control'[i].waited => /\ i = Len(control') /\ main'.call = control'[i].cmd
                                    /\ main'.answer = "none"
<1> USE DEF IInv
<1>1. /\ control' \in Seq(Queued) /\ Head(control) = control[1] /\ control[1] \in Queued
      /\ Len(control) \in Nat /\ 1 \in 1..Len(control) /\ Len(control') = Len(control) - 1
      /\ \A i \in 1..Len(control') : i + 1 \in 1..Len(control) /\ control'[i] = control[i + 1]
      /\ Len(control) # 1 => control' # <<>> /\ control'[Len(control')] = control[Len(control)]
      /\ ~Closed
      /\ \A i \in 1..Len(control') : control'[i].waited => control[1].waited = FALSE
  BY TakenCommand
<1>0. \A i \in 1..Len(control') : i + 1 = Len(control) => i = Len(control')
  <2> DEFINE left == Len(control')
             all == Len(control)
  <2>1. left = all - 1 /\ all \in Nat
    BY <1>1
  <2> HIDE DEF left, all
  <2>2. \A i \in 1..left : i + 1 = all => i = left
    BY <2>1
  <2> QED
    BY <2>2 DEF left, all
<1>2. ASSUME NEW i \in 1..Len(control'), control'[i].waited
      PROVE  i = Len(control') /\ main'.call = control'[i].cmd /\ main'.answer = "none"
  <2>1. main' = main
    BY <1>1, <1>2
  <2>2. i + 1 = Len(control) /\ main.call = control[i + 1].cmd /\ main.answer = "none"
    BY <1>1, <1>2 DEF OneIsWaitedFor
  <2> QED
    <3>1. control'[i] = control[i + 1]
      BY <1>1
    <3> QED
      BY <1>0, <2>1, <2>2, <3>1
<1>3. ASSUME NEW i \in 1..Len(control'), control'[i].cmd = "shutdown"
      PROVE  i = Len(control') /\ main'.handle = "dropped"
  <2>1. i + 1 = Len(control) /\ main.handle = "dropped"
    <3>1. i + 1 \in 1..Len(control) /\ control[i + 1].cmd = "shutdown"
      BY <1>1, <1>3
    <3>2. LastCommands
      BY DEF IInv
    <3> QED
      BY <3>1, <3>2 DEF LastCommands
  <2> QED
    BY <1>0, <2>1
<1>4. ASSUME NEW i \in 1..Len(control'), control'[i].cmd = "release", ~Closed'
      PROVE  /\ Calm' /\ ~accepting' /\ main'.handle # "held"
             /\ \A j \in 1..(i - 1) : control'[j].cmd = "duplicate"
  <2>1. i + 1 \in 1..Len(control) /\ control[i + 1].cmd = "release"
    BY <1>1, <1>4
  <2>2. /\ Calm /\ ~accepting /\ main.handle # "held"
        /\ \A j \in 1..((i + 1) - 1) : control[j].cmd = "duplicate"
    BY <1>1, <2>1 DEF LastCommands
  <2>3. \A j \in 1..(i - 1) : j \in 1..Len(control') /\ j + 1 \in 1..((i + 1) - 1)
    BY <1>1
  <2>4. \A j \in 1..(i - 1) : control'[j].cmd = "duplicate"
    BY <1>1, <2>2, <2>3
  <2>5. control[1].cmd = "duplicate"
    BY <1>1, <2>2
  <2>6. Calm'
    BY <1>4, <2>2, <2>5 DEF Calm
  <2> QED
    BY <2>2, <2>4, <2>6
<1>5. ASSUME NEW cmd \in {"release", "shutdown"}, ~Closed', control[Len(control)].cmd = cmd
      PROVE  control' # <<>> /\ control'[Len(control')].cmd = cmd
  BY <1>1, <1>5
<1>6. main'.handle = "released" /\ ~Closed' =>
        control' # <<>> /\ control'[Len(control')].cmd = "release"
  BY <1>1, <1>5 DEF LastCommands
<1>7. main'.handle = "dropped" /\ ~Closed' =>
        control' # <<>> /\ control'[Len(control')].cmd = "shutdown"
  BY <1>1, <1>5 DEF LastCommands
<1> QED
  BY <1>2, <1>3, <1>4, <1>6, <1>7 DEF LastCommands

\* A duplicate is answered; a rollback lets the actor run on; a release and
\* a shutdown end it.
LEMMA TakeCommandKeeps ==
  ASSUME IInv, TakeCommand
  PROVE  IInv'
<1> USE DEF TakeCommand
<1> DEFINE c == control[1]
<1>1. /\ control' \in Seq(Queued) /\ Head(control) = c /\ c \in Queued
      /\ ~Closed /\ ~accepting /\ ~actor.waited
      /\ c.waited => control' = <<>> /\ main.call = c.cmd /\ main.answer = "none"
  BY TakenCommand
<1>2. main \in Mains /\ actor \in Actors /\ <<>> \in Seq(Chunks)
  BY DEF IInv, Types
<1>3. actor.state # "released" /\ 1 \in 1..Len(control)
  BY <1>1, TakenCommand DEF IInv, Taken
<1>4. \A answer \in {"ok", "failed"} : AnswerCall(c.waited, answer) =>
        /\ main' \in Mains /\ main'.call = main.call /\ main'.handle = main.handle
        /\ main'.paused = main.paused
        /\ main'.answer = IF c.waited THEN answer ELSE main.answer
        /\ main' = main \/ c.waited
  BY <1>1, <1>2 DEF AnswerCall, Mains, Queued
<1>5. \/ c.cmd = "duplicate" /\ actor' = actor
         /\ \E answer \in {"ok", "failed"} : AnswerCall(c.waited, answer)
      \/ c.cmd = "rollback" /\ AnswerCall(c.waited, "ok")
         /\ actor' = [actor EXCEPT !.state = "running"]
      \/ c.cmd = "release" /\ AnswerCall(c.waited, "ok")
         /\ actor' = [actor EXCEPT !.state = "released", !.pending = <<>>, !.pc = "exited"]
      \/ c.cmd = "shutdown" /\ main' = main /\ actor' = [actor EXCEPT !.pc = "exited"]
  BY <1>1
<1>6. UNCHANGED <<accepting, data, task, resized, tty, accepted, mishap>>
      /\ control' = Tail(control) /\ control # <<>> /\ actor.pc = "loop"
  OBVIOUS
<1> HIDE DEF c, TakeCommand
<1>7. CASE c.cmd = "duplicate" /\ actor' = actor
           /\ \E answer \in {"ok", "failed"} : AnswerCall(c.waited, answer)
  <2> USE DEF IInv
  <2>1. /\ main' \in Mains /\ main'.call = main.call /\ main'.handle = main.handle
        /\ main'.paused = main.paused /\ (main' = main \/ c.waited)
        /\ main'.answer # main.answer => c.waited
    BY <1>4, <1>7
  <2>2. Types'
    BY <1>1, <1>6, <1>7, <2>1 DEF Types
  <2>3. Places'
    BY <1>6, PlacesStay DEF Types
  <2>4. LastCommands' /\ OneIsWaitedFor'
    BY <1>1, <1>6, <1>7, <2>1, CommandsLeft DEF OneIsWaitedFor, c
  <2>5. Calls'
    BY <1>1, <1>6, <1>7, <2>1 DEF Calls, Closed
  <2>6. Paused'
    BY <1>6, <1>7, <2>1, TakenCommand DEF Paused, Calm, Closed
  <2>7. Gate' /\ Taken'
    BY <1>1, <1>6, <1>7, <2>1 DEF Gate, Taken, Closed
  <2>8. AcceptedIsDelivered'
    BY <1>6, <1>7, DeliveredStays
  <2> QED
    BY <2>2, <2>3, <2>4, <2>5, <2>6, <2>7, <2>8
<1>8. CASE c.cmd = "rollback" /\ AnswerCall(c.waited, "ok")
           /\ actor' = [actor EXCEPT !.state = "running"]
  <2> USE DEF IInv
  <2>1. /\ main' \in Mains /\ main'.call = main.call /\ main'.handle = main.handle
        /\ main'.paused = main.paused /\ (main' = main \/ c.waited)
        /\ main'.answer = IF c.waited THEN "ok" ELSE main.answer
    BY <1>4, <1>8
  <2>2. /\ actor' \in Actors /\ actor'.pc = "loop" /\ actor'.state = "running"
        /\ actor'.pending = actor.pending /\ ~actor'.waited
    BY <1>1, <1>2, <1>6, <1>8 DEF Actors
  <2>3. Types'
    BY <1>1, <1>6, <2>1, <2>2 DEF Types
  <2>4. Places'
    BY <1>6, PlacesStay DEF Types
  <2>5. LastCommands' /\ OneIsWaitedFor'
    BY <1>1, <1>6, <1>8, <2>1, <2>2, CommandsLeft DEF OneIsWaitedFor, c
  <2>6. ~Closed' /\ Running'
    BY <2>2 DEF Closed, Running
  <2>7. ~main.paused
    BY <1>1, <1>3, <1>8 DEF Paused, c
  <2>8. Calls'
    <3>1. CASE c.waited
      BY <1>1, <1>8, <2>1, <2>6, <2>7, <3>1 DEF Calls
    <3>2. CASE ~c.waited
      BY <1>1, <1>6, <2>1, <2>7, <3>2 DEF Calls
    <3> QED
      BY <3>1, <3>2
  <2>9. Paused' /\ Gate' /\ Taken'
    BY <1>1, <1>6, <2>1, <2>2, <2>6, <2>7 DEF Paused, Gate, Taken
  <2>10. AcceptedIsDelivered'
    BY <1>3, <1>6, <2>2, DeliveredStays
  <2> QED
    BY <2>3, <2>4, <2>5, <2>8, <2>9, <2>10
<1>9. CASE c.cmd = "release" /\ AnswerCall(c.waited, "ok")
           /\ actor' = [actor EXCEPT !.state = "released", !.pending = <<>>, !.pc = "exited"]
  <2> USE DEF IInv
  <2>1. /\ main' \in Mains /\ main'.call = main.call /\ main'.handle = main.handle
        /\ main'.paused = main.paused /\ (main' = main \/ c.waited)
        /\ main'.answer = IF c.waited THEN "ok" ELSE main.answer
    BY <1>4, <1>9
  <2>2. /\ actor' \in Actors /\ actor'.pc = "exited" /\ actor'.state = "released"
        /\ actor'.pending = <<>> /\ ~actor'.waited
    BY <1>1, <1>2, <1>9 DEF Actors
  <2>3. Types'
    BY <1>1, <1>6, <2>1, <2>2 DEF Types
  <2>4. Places'
    BY <1>6, PlacesStay DEF Types
  <2>5. Closed'
    BY <2>2 DEF Closed
  <2>6. LastCommands' /\ OneIsWaitedFor'
    BY <1>1, <1>6, <1>9, <2>1, <2>2, <2>5, CommandsLeft DEF OneIsWaitedFor, c
  <2>7. Calls'
    <3>1. CASE c.waited
      BY <1>1, <1>9, <2>1, <2>5, <3>1 DEF Calls
    <3>2. CASE ~c.waited
      BY <1>6, <2>1, <2>5, <3>2 DEF Calls
    <3> QED
      BY <3>1, <3>2
  <2>8. Paused' /\ Gate' /\ Taken'
    BY <2>5 DEF Paused, Gate, Taken
  <2>9. AcceptedIsDelivered'
    <3>1. actor.pending = <<>>
      BY <1>1, <1>3, <1>9 DEF LastCommands, Calm, c
    <3> QED
      BY <1>1, <1>6, <2>2, <3>1 DEF AcceptedIsDelivered
  <2> QED
    BY <2>3, <2>4, <2>6, <2>7, <2>8, <2>9
<1>10. CASE c.cmd = "shutdown" /\ main' = main /\ actor' = [actor EXCEPT !.pc = "exited"]
  <2> USE DEF IInv
  <2>1. /\ actor' \in Actors /\ actor'.pc = "exited" /\ actor'.state # "released"
        /\ ~actor'.waited
    BY <1>1, <1>2, <1>3, <1>10 DEF Actors
  <2>2. Types'
    BY <1>1, <1>2, <1>6, <1>10, <2>1 DEF Types
  <2>3. Places'
    BY <1>6, PlacesStay DEF Types
  <2>4. Closed'
    BY <2>1 DEF Closed
  <2>5. LastCommands' /\ OneIsWaitedFor'
    BY <1>1, <1>6, <1>10, <2>1, <2>4, CommandsLeft DEF OneIsWaitedFor, c
  <2>6. Calls' /\ Paused' /\ Gate' /\ Taken' /\ AcceptedIsDelivered'
    BY <1>6, <1>10, <2>1, <2>4 DEF Calls, Paused, Gate, Taken, AcceptedIsDelivered
  <2> QED
    BY <2>2, <2>3, <2>5, <2>6
<1> QED
  BY <1>5, <1>7, <1>8, <1>9, <1>10

\* The actor starts to drain: what it holds and what was accepted is to be
\* written, and nothing more is accepted.
LEMMA TakeBeginKeeps ==
  ASSUME IInv, TakeBegin
  PROVE  IInv'
<1> USE DEF TakeBegin, IInv
<1> DEFINE c == control[1]
           after == WithResize(actor.pending \o data)
<1>1. /\ control' \in Seq(Queued) /\ Head(control) = c /\ c \in Queued
      /\ ~Closed /\ ~accepting /\ ~actor.waited
      /\ c.waited => control' = <<>> /\ main.call = c.cmd /\ main.answer = "none"
  BY TakenCommand
<1>2. /\ actor \in Actors /\ data \in Seq(Inputs) /\ data \in Seq(Chunks)
      /\ tty \in Seq(Inputs) /\ actor.pending \in Seq(Chunks) /\ Answer \in Chunks
  BY DEF Types, Actors, Chunks
<1>3. /\ c.cmd = "begin" /\ 1 \in 1..Len(control)
      /\ UNCHANGED <<accepting, task, main, tty, accepted, mishap>>
      /\ control' = Tail(control) /\ control # <<>> /\ actor.pc = "loop"
      /\ data' = <<>> /\ resized' = FALSE
  BY <1>1, TakenCommand
<1>4. actor.pending \o data \in Seq(Chunks) /\ after \in Seq(Chunks)
  BY <1>2, ConcatProperties, AppendProperties DEF WithResize
<1>5. Input(after) = Input(actor.pending) \o data
  <2>1. Input(actor.pending \o data) = Input(actor.pending) \o data
    <3>1. Input(data) = data
      BY <1>2, InputOfInputs
    <3>2. Input(actor.pending \o data) = Input(actor.pending) \o Input(data)
      BY ONLY <1>2, InputJoins
    <3> QED
      BY ONLY <3>1, <3>2
  <2>2. Input(after) = Input(actor.pending \o data)
    BY <1>4, InputPutAndTaken DEF WithResize
  <2> QED
    BY <2>1, <2>2
<1> HIDE DEF after, c
<1>6. /\ actor' \in Actors /\ actor'.pc = "draining" /\ actor'.waited = c.waited
      /\ actor'.pending = after /\ actor'.state = actor.state
  <2>1. actor' = [actor EXCEPT !.pc = "draining", !.waited = c.waited, !.pending = after]
    BY <1>1 DEF after
  <2> QED
    BY <1>1, <1>2, <1>4, <2>1 DEF Actors, Queued
<1> HIDE DEF TakeBegin
<1>7. Types'
  <2>0. <<>> \in Seq(Inputs)
    OBVIOUS
  <2>1. data' \in Seq(Inputs) /\ resized' \in BOOLEAN
    BY <1>3, <2>0
  <2> QED
    BY <1>1, <1>3, <1>6, <2>1 DEF Types
<1>8. Places'
  <2>1. Len(data') = 0 /\ data' \in Seq(Inputs) /\ Len(data) \in Nat
    BY <1>2, <1>3
  <2> QED
    BY <1>3, <2>1, PlacesStay
<1>9. ~main.paused
  BY <1>1, <1>3 DEF Paused, c
<1>10. ~Closed'
  BY <1>6 DEF Closed
<1>11. LastCommands' /\ OneIsWaitedFor'
  BY <1>1, <1>3, <1>6, CommandsLeft DEF OneIsWaitedFor, c
<1>12. Calls'
  BY <1>1, <1>3, <1>9 DEF Calls
<1>13. Paused' /\ Gate' /\ Taken'
  BY <1>1, <1>3, <1>6, <1>9 DEF Paused, Gate, Taken, Closed
<1>14. AcceptedIsDelivered'
  <2>1. Input(actor.pending) \in Seq(Inputs)
    BY <1>2, InputJoins
  <2>2. tty \o (Input(actor.pending) \o data) = (tty \o Input(actor.pending)) \o data
    <3>1. \A a, b, d \in Seq(Inputs) : a \o (b \o d) = (a \o b) \o d
      BY ONLY ConcatAssociative
    <3> QED
      BY ONLY <1>2, <2>1, <3>1
  <2>3. (tty \o Input(actor.pending)) \o data \in Seq(Inputs)
    BY <1>2, <2>1, ConcatProperties
  <2>4. ((tty \o Input(actor.pending)) \o data) \o <<>> = (tty \o Input(actor.pending)) \o data
    BY <2>3, ConcatEmptySeq
  <2>5. (tty' \o Input(actor'.pending)) \o data' = (tty \o Input(actor.pending)) \o data
    BY <1>3, <1>5, <1>6, <2>2, <2>4
  <2> QED
    BY <1>1, <1>3, <2>5 DEF AcceptedIsDelivered
<1> QED
  BY <1>7, <1>8, <1>11, <1>12, <1>13, <1>14

\* Everything is written, or the time for it is over.
LEMMA DrainingEndsKeep ==
  ASSUME IInv, Quiesce \/ DrainTimeout
  PROVE  IInv'
<1> USE DEF IInv
<1>1. actor \in Actors /\ main \in Mains
  BY DEF Types
<1>2. PICK answer \in {"ok", "failed"} :
        /\ AnswerCall(actor.waited, answer) /\ actor.pc = "draining"
        /\ answer = "ok" => actor.pending = <<>>
                            /\ actor' = [actor EXCEPT !.pc = "loop", !.state = "quiesced",
                                                      !.waited = FALSE]
        /\ answer = "failed" => actor' = [actor EXCEPT !.pc = "loop", !.waited = FALSE]
        /\ UNCHANGED <<accepting, data, control, task, resized, tty, accepted, mishap>>
  <2>1. CASE Quiesce
    BY <2>1 DEF Quiesce
  <2>2. CASE DrainTimeout
    BY <2>2 DEF DrainTimeout
  <2> QED
    BY <2>1, <2>2
<1>3. /\ actor' \in Actors /\ actor'.pc = "loop" /\ ~actor'.waited
      /\ actor'.pending = actor.pending /\ actor'.state # "released"
      /\ answer = "ok" => actor'.state = "quiesced" /\ actor'.pending = <<>>
      /\ answer = "failed" => actor'.state = actor.state
  BY <1>1, <1>2 DEF Actors, Taken, Closed
<1>4. /\ main' \in Mains /\ main'.call = main.call /\ main'.handle = main.handle
      /\ main'.paused = main.paused
      /\ actor.waited => main'.answer = answer
      /\ ~actor.waited => main' = main
  BY <1>1, <1>2 DEF AnswerCall, Mains
<1>5. /\ ~Closed /\ ~Closed' /\ ~accepting /\ ~main.paused /\ data = <<>>
      /\ \A i \in 1..Len(control) : control[i].cmd # "release"
  BY <1>2, <1>3 DEF Closed, Gate, Running, Paused, Taken, Calm, LastCommands
<1>6. actor.waited => control = <<>> /\ ~resized /\ main.call = "begin"
  BY DEF OneIsWaitedFor
<1>7. Types'
  BY <1>2, <1>3, <1>4 DEF Types
<1>8. Places'
  BY <1>2, PlacesStay DEF Types
<1>9. OneIsWaitedFor'
  <2>1. CASE actor.waited
    <3>1. Len(control) = 0
      BY <1>6, <2>1
    <3> QED
      BY <1>2, <1>3, <3>1 DEF OneIsWaitedFor
  <2>2. CASE ~actor.waited
    BY <1>2, <1>3, <1>4, <2>2 DEF OneIsWaitedFor
  <2> QED
    BY <2>1, <2>2
<1>10. LastCommands'
  BY <1>2, <1>4, <1>5 DEF LastCommands
<1>11. Calls'
  <2>1. CASE actor.waited
    BY <1>2, <1>3, <1>4, <1>5, <1>6, <2>1 DEF Calls, Calm
  <2>2. CASE ~actor.waited
    BY <1>2, <1>3, <1>4, <1>5, <2>2 DEF Calls, Calm, Running
  <2> QED
    BY <2>1, <2>2
<1>12. Paused' /\ Gate' /\ Taken'
  BY <1>2, <1>3, <1>4, <1>5 DEF Paused, Gate, Taken
<1>13. AcceptedIsDelivered'
  BY <1>2, <1>3, <1>5 DEF AcceptedIsDelivered
<1> QED
  BY <1>7, <1>8, <1>9, <1>10, <1>11, <1>12, <1>13

\* The steps in which the actor moves chunks: nothing it may not touch when
\* it is quiesced, and what is delivered is the same.
LEMMA MovingKeeps ==
  ASSUME IInv, UNCHANGED <<accepting, control, task, main, accepted>>, ~Closed,
         NEW pending \in Seq(Chunks), actor' = [actor EXCEPT !.pending = pending],
         data' \in Seq(Inputs), Len(data') <= Len(data), data = <<>> => data' = <<>>,
         actor.pending = <<>> /\ actor.state = "quiesced" /\ ~resized => pending = <<>>,
         resized' \in BOOLEAN, resized' => resized, tty' \in Seq(Inputs),
         mishap \subseteq mishap', mishap' \subseteq {"pty", "late"},
         "pty" \notin mishap' =>
           tty' \o Input(pending) \o data' = tty \o Input(actor.pending) \o data
  PROVE  IInv'
<1> USE DEF IInv
<1>1. /\ actor' \in Actors /\ actor'.pc = actor.pc /\ actor'.state = actor.state
      /\ actor'.waited = actor.waited /\ actor'.pending = pending
  BY DEF Types, Actors
<1>2. Types'
  BY <1>1 DEF Types
<1>3. Places'
  BY PlacesStay
<1>4. ~Closed' /\ (Calm => Calm') /\ (Running => Running')
  BY <1>1 DEF Closed, Calm, Running
<1>5. OneIsWaitedFor'
  BY <1>1 DEF OneIsWaitedFor
<1>6. LastCommands'
  BY <1>4 DEF LastCommands
<1>7. Calls'
  BY <1>4 DEF Calls
<1>8. Paused' /\ Gate' /\ Taken'
  BY <1>1, <1>4 DEF Paused, Gate, Taken
<1>9. AcceptedIsDelivered'
  BY <1>1, <1>4 DEF AcceptedIsDelivered
<1> QED
  BY <1>2, <1>3, <1>5, <1>6, <1>7, <1>8, <1>9

\* The actor takes input: what it would throw away is not there.
LEMMA TakeDataKeeps ==
  ASSUME IInv, TakeData
  PROVE  IInv'
<1> USE DEF TakeData
<1>1. /\ actor \in Actors /\ data \in Seq(Inputs) /\ data # <<>> /\ tty \in Seq(Inputs)
      /\ actor.pending \in Seq(Chunks) /\ actor.pc = "loop" /\ ~Closed
  BY DEF IInv, Types, Actors, Closed
<1>2. Running
  BY <1>1 DEF IInv, Taken, Actors, Running
<1>3. /\ Head(data) \in Inputs /\ Tail(data) \in Seq(Inputs)
      /\ Len(Tail(data)) <= Len(data)
  BY <1>1, HeadTailProperties, LenProperties
<1>4. Append(actor.pending, Head(data)) \in Seq(Chunks)
  BY <1>1, <1>3, AppendProperties DEF Chunks
<1> DEFINE sent == Input(actor.pending)
           h == Head(data)
           rest == Tail(data)
<1>5. Input(Append(actor.pending, h)) = Append(sent, h) /\ sent \in Seq(Inputs)
  BY <1>1, <1>3, InputPutAndTaken
<1>6. data = <<h>> \o rest /\ <<h>> \in Seq(Inputs) /\ Append(sent, h) = sent \o <<h>>
  BY <1>1, <1>3, <1>5, HeadAndTail, AppendIsConcat
<1>7. rest \in Seq(Inputs) /\ tty \in Seq(Inputs)
  BY <1>1, <1>3
<1> HIDE DEF sent, h, rest
<1>8. (tty \o Append(sent, h)) \o rest = (tty \o sent) \o data
  <2>1. tty \o (sent \o <<h>>) = (tty \o sent) \o <<h>>
    BY <1>5, <1>6, <1>7, ConcatAssociative
  <2>0. tty \o sent \in Seq(Inputs)
    BY <1>5, <1>7, ConcatProperties
  <2>2. ((tty \o sent) \o <<h>>) \o rest = (tty \o sent) \o (<<h>> \o rest)
    BY <1>6, <1>7, <2>0, ConcatAssociative
  <2> QED
    BY <1>6, <2>1, <2>2
<1>9. tty' \o Input(Append(actor.pending, h)) \o data' = tty \o Input(actor.pending) \o data
  BY <1>5, <1>8 DEF sent, rest
<1> QED
  BY <1>1, <1>2, <1>3, <1>4, <1>9, MovingKeeps DEF Running, h, IInv, Types

\* The terminal's answers to a resize and to output are pending writes too.
LEMMA AnswersKeep ==
  ASSUME IInv, ApplyControls \/ ReadOnce
  PROVE  IInv'
<1>1. /\ actor \in Actors /\ data \in Seq(Inputs) /\ Len(data) \in Nat /\ tty \in Seq(Inputs)
      /\ actor.pending \in Seq(Chunks) /\ resized \in BOOLEAN /\ mishap \subseteq {"pty", "late"}
  BY DEF IInv, Types, Actors
<1> DEFINE p == Append(actor.pending, Answer)
<1>2. p \in Seq(Chunks) /\ Input(p) = Input(actor.pending)
  BY <1>1, InputPutAndTaken, AppendProperties DEF Chunks
<1>3. /\ actor' = [actor EXCEPT !.pending = p] /\ resized' \in BOOLEAN /\ (resized' => resized)
      /\ ~Closed /\ (actor.state = "quiesced" => resized)
      /\ UNCHANGED <<accepting, data, control, task, main, tty, accepted, mishap>>
  <2>1. CASE ApplyControls
    BY <2>1 DEF ApplyControls, WithResize, Closed
  <2>2. CASE ReadOnce
    BY <1>1, <2>2 DEF ReadOnce, Running, Closed
  <2> QED
    BY <2>1, <2>2
<1> HIDE DEF p
<1>4. tty' \o Input(p) \o data' = tty \o Input(actor.pending) \o data
  BY <1>2, <1>3
<1>5. Len(data') <= Len(data) /\ (data = <<>> => data' = <<>>) /\ data' \in Seq(Inputs)
      /\ tty' \in Seq(Inputs) /\ mishap \subseteq mishap' /\ mishap' \subseteq {"pty", "late"}
  BY <1>1, <1>3
<1> QED
  BY <1>2, <1>3, <1>4, <1>5, MovingKeeps

\* A chunk reaches the child.
LEMMA FlushKeeps ==
  ASSUME IInv, Flush
  PROVE  IInv'
<1> USE DEF Flush
<1>1. /\ actor \in Actors /\ data \in Seq(Inputs) /\ Len(data) \in Nat /\ tty \in Seq(Inputs)
      /\ actor.pending \in Seq(Chunks) /\ actor.pending # <<>> /\ ~Closed
      /\ resized \in BOOLEAN /\ mishap \subseteq {"pty", "late"}
  BY DEF IInv, Types, Actors, Closed
<1> DEFINE first == <<Head(actor.pending)>>
           rest == Tail(actor.pending)
<1>2. first \in Seq(Chunks) /\ rest \in Seq(Chunks)
  BY <1>1, HeadTailProperties
<1>3. Input(first) \o Input(rest) = Input(actor.pending)
  BY <1>1, InputPutAndTaken
<1> HIDE DEF first, rest
<1>4. Input(first) \in Seq(Inputs) /\ Input(rest) \in Seq(Inputs)
  BY <1>2, InputJoins
<1>5. tty \o Input(first) \in Seq(Inputs)
      /\ (tty \o Input(first)) \o Input(rest) = tty \o Input(actor.pending)
  <2> DEFINE i == Input(first)
             j == Input(rest)
  <2>1. i \in Seq(Inputs) /\ j \in Seq(Inputs) /\ i \o j = Input(actor.pending)
    BY <1>3, <1>4
  <2> HIDE DEF i, j
  <2>2. tty \o i \in Seq(Inputs)
    BY <1>1, <2>1, ConcatProperties
  <2>3. (tty \o i) \o j = tty \o (i \o j)
    <3>1. tty \in Seq(Inputs) /\ i \in Seq(Inputs) /\ j \in Seq(Inputs)
      BY <1>1, <2>1
    <3> QED
      BY ONLY <3>1, ConcatAssociative
  <2> QED
    BY <2>1, <2>2, <2>3 DEF i, j
<1>6. tty' \o Input(rest) \o data' = tty \o Input(actor.pending) \o data
  BY <1>5 DEF first
<1>7. tty' \in Seq(Inputs) /\ actor' = [actor EXCEPT !.pending = rest]
  BY <1>5 DEF first, rest
<1>8. /\ Len(data') <= Len(data) /\ (data = <<>> => data' = <<>>) /\ data' \in Seq(Inputs)
      /\ UNCHANGED <<accepting, control, task, main, accepted>>
      /\ resized' \in BOOLEAN /\ resized' = resized
      /\ mishap \subseteq mishap' /\ mishap' \subseteq {"pty", "late"}
  BY <1>1
<1> HIDE DEF Flush
<1> QED
  BY <1>1, <1>2, <1>6, <1>7, <1>8, MovingKeeps

\* The PTY fails.
LEMMA FailuresKeep ==
  ASSUME IInv, WriteFails \/ ReaderExits
  PROVE  IInv'
<1>1. /\ actor \in Actors /\ data \in Seq(Inputs) /\ Len(data) \in Nat /\ tty \in Seq(Inputs)
      /\ <<>> \in Seq(Chunks) /\ resized \in BOOLEAN /\ mishap \subseteq {"pty", "late"}
  BY DEF IInv, Types
<1>2. CASE WriteFails
  <2>1. /\ actor' = [actor EXCEPT !.pending = <<>>] /\ ~Closed /\ "pty" \in mishap'
        /\ UNCHANGED <<accepting, control, task, main, accepted, data, resized, tty>>
        /\ mishap \subseteq mishap' /\ mishap' \subseteq {"pty", "late"}
    BY <1>1, <1>2 DEF WriteFails, Closed
  <2> DEFINE nothing == <<>>
  <2>2. nothing \in Seq(Chunks) /\ actor' = [actor EXCEPT !.pending = nothing]
        /\ (actor.pending = <<>> => nothing = <<>>)
    BY <1>1, <2>1
  <2> HIDE DEF nothing
  <2>3. data' \in Seq(Inputs) /\ Len(data') <= Len(data) /\ (data = <<>> => data' = <<>>)
        /\ resized' \in BOOLEAN /\ (resized' => resized) /\ tty' \in Seq(Inputs)
    BY <1>1, <2>1
  <2>4. actor.pending = <<>> => nothing = <<>>
    BY <2>2
  <2> QED
    BY <2>1, <2>2, <2>3, <2>4, MovingKeeps
<1>3. CASE ReaderExits
  <2> USE DEF ReaderExits, IInv
  <2>1. /\ actor' \in Actors /\ actor'.pc = "exited" /\ actor'.waited = actor.waited
        /\ ~actor.waited
    BY <1>1, <1>3 DEF Actors, OneIsWaitedFor
  <2>2. Closed' /\ "pty" \in mishap' /\ mishap' \subseteq {"pty", "late"}
        /\ mishap \subseteq mishap'
    BY <1>1, <1>3, <2>1 DEF Closed
  <2>3. Types'
    BY <1>3, <2>1, <2>2 DEF Types
  <2>4. Places'
    BY <1>3, PlacesStay DEF Types
  <2>5. OneIsWaitedFor'
    BY <1>3, <2>1 DEF OneIsWaitedFor
  <2>6. LastCommands'
    BY <1>3, <2>2 DEF LastCommands
  <2>7. Calls'
    BY <1>3, <2>2 DEF Calls
  <2>8. Paused' /\ Gate' /\ Taken' /\ AcceptedIsDelivered'
    BY <2>2 DEF Paused, Gate, Taken, AcceptedIsDelivered
  <2> QED
    BY <2>3, <2>4, <2>5, <2>6, <2>7, <2>8
<1> QED
  BY <1>2, <1>3

\* The invariant holds in every reachable state: every step keeps it.
THEOREM Invariant == Spec => []IInv
<1>1. IInv /\ [Next]_vars => IInv'
  <2> SUFFICES ASSUME IInv, [Next]_vars PROVE IInv'
    OBVIOUS
  <2>1. CASE UNCHANGED vars
    <3>1. Types' /\ Places' /\ OneIsWaitedFor' /\ LastCommands'
      BY <2>1 DEF vars, IInv, Types, Places, Reserved, OneIsWaitedFor, LastCommands, Calm, Closed
    <3>2. Calls' /\ Paused' /\ Gate' /\ Taken' /\ AcceptedIsDelivered'
      BY <2>1 DEF vars, IInv, Calls, Paused, Gate, Taken, AcceptedIsDelivered, Calm, Closed,
                  Running
    <3> QED
      BY <3>1, <3>2 DEF IInv
  <2>2. CASE \E t \in Tasks : Write(t)
    BY <2>2, StartWriteKeeps, ReserveKeeps, SendReservedKeeps DEF Write
  <2>3. CASE TryWrite
    BY <2>3, TryWriteKeeps
  <2>4. CASE Main
    BY <2>4, BeginHandoffKeeps, DuplicateKeeps, RollbackKeeps, ReleaseAfterCommitKeeps,
       ShutdownKeeps, ResizeKeeps, GiveUpKeeps, ReturnKeeps
       DEF Main
  <2>5. CASE Thread
    BY <2>5, TakeCommandKeeps, TakeBeginKeeps, DrainingEndsKeep, TakeDataKeeps, AnswersKeep,
       FlushKeeps
       DEF Thread
  <2>6. CASE Pty
    BY <2>6, AnswersKeep, FailuresKeep DEF Pty
  <2> QED
    BY <2>1, <2>2, <2>3, <2>4, <2>5, <2>6 DEF Next
<1> QED
  BY InitInv, <1>1, PTL DEF Spec

\* Every variable has its type; the channel of user input never holds more
\* than its capacity, places that are reserved and not yet used included.
THEOREM TypeCorrect == Spec => []TypeOK
<1>1. IInv => TypeOK
  <2> SUFFICES ASSUME IInv PROVE TypeOK
    OBVIOUS
  <2>1. Len(data) <= DataCap
    <3>1. Cardinality(Reserved) \in Nat /\ Len(data) \in Nat
      BY FS_CardinalityType DEF IInv, Places, Types
    <3> QED
      BY <3>1, ActorAssumption DEF IInv, Places
  <2> QED
    BY <2>1 DEF IInv, Types, Queued, Actors, Mains, TypeOK
<1> QED
  BY Invariant, <1>1, PTL

\* All input the handle took has reached the child, or is on its way, in
\* order, through any number of failed and abandoned attempts to pause.
THEOREM InputIsDelivered == Spec => []AcceptedIsDelivered
<1>1. IInv => AcceptedIsDelivered
  BY DEF IInv
<1> QED
  BY Invariant, <1>1, PTL

\* A paused actor does nothing with the PTY, and a pause that fails gives
\* input back.
THEOREM PauseIsRight == Spec => []PauseHoldsAndEnds
<1>1. IInv => PauseHoldsAndEnds
  <2> SUFFICES ASSUME IInv PROVE PauseHoldsAndEnds
    OBVIOUS
  <2>1. ASSUME main.paused, ~Closed
        PROVE  /\ actor.pc = "loop" /\ actor.state = "quiesced"
               /\ actor.pending = <<>> /\ data = <<>> /\ ~resized
               /\ \A i \in 1..Len(control) : control[i].cmd \in {"duplicate", "shutdown"}
    BY <2>1 DEF IInv, Paused, Calm
  <2>2. ASSUME main.call = "none", control = <<>>, ~Closed, "late" \notin mishap
        PROVE  accepting <=> actor.state = "running"
    <3>1. accepting => actor.state = "running"
      BY <2>2 DEF IInv, Gate, Running
    <3>2. ASSUME actor.state = "running" PROVE accepting
      <4>1. ~main.paused
        BY <2>2, <3>2 DEF IInv, Paused, Calm
      <4>2. main.handle = "held"
        BY <2>2 DEF IInv, LastCommands, Types, Mains
      <4> QED
        BY <2>2, <4>1, <4>2 DEF IInv, Gate
    <3> QED
      BY <3>1, <3>2
  <2> QED
    BY <2>1, <2>2 DEF PauseHoldsAndEnds
<1> QED
  BY Invariant, <1>1, PTL
=============================================================================
