--------------------------- MODULE HandoffProofs ---------------------------
(***************************************************************************)
(* Proofs about Handoff, for every set of terminals and any number of      *)
(* attempts: its invariants, and that it implements Transfer.              *)
(***************************************************************************)
EXTENDS Handoff, ProofLemmas

-----------------------------------------------------------------------------
(* The inductive invariant.                                                *)

Before == {"serving", "pausing", "duplicating", "accepting", "validating",
           "restoring", "readying", "undoing", "republishing", "rolling_back"}
After == {"releasing", "acking", "stopping", "stopped"}
ToOld == {"token", "validated", "restored", "ready", "owned"}
ToNew == {"manifest", "fds", "committed"}

\* The types, without the lengths of the stream.
Types ==
  /\ old \in Before \cup After \cup {"crashed"}
  /\ new \in {"none", "connecting", "manifest", "fds", "binding", "committing", "quitting",
              "serving", "exited"}
  /\ paused \subseteq Terminals /\ withdrawn \in BOOLEAN /\ reaps \in BOOLEAN
  /\ manifest \in [Terminals -> 0..MaxOutput] /\ attempts \in 0..MaxAttempts
  /\ sockets \in {"old", "new", "none"}
  /\ reader \in [Servers -> [Terminals -> {"running", "quiesced", "none"}]]
  /\ printed \in [Terminals -> 0..MaxOutput] /\ taken \in [Terminals -> 0..MaxOutput]
  /\ seen \in [Servers -> [Terminals -> 0..MaxOutput]]
  /\ lost \subseteq Terminals /\ mishap \subseteq {"old", "new", "unreachable"}

\* What may be on its way to the old server, and what it says of both.
OnTheWayToOld ==
  \/ to_old = <<>>
  \/ /\ to_old = <<"token">>
     /\ old \in Before \ {"pausing", "validating", "restoring", "readying"}
     /\ NewAlive => new = "manifest" /\ to_new = <<>>
  \/ /\ to_old = <<"validated">>
     /\ old \in Before \ {"pausing", "duplicating", "accepting", "restoring", "readying"}
     /\ NewAlive => new = "fds" /\ to_new = <<>>
  \/ /\ to_old = <<"restored">> /\ ~withdrawn
     /\ old \in Before \ {"pausing", "duplicating", "accepting", "validating", "readying"}
     /\ NewAlive => new \in {"binding", "quitting"} /\ to_new = <<>>
  \/ /\ to_old = <<"restored", "ready">> /\ "unreachable" \in mishap
     /\ old \in Before \ {"pausing", "duplicating", "accepting", "validating", "readying"}
     /\ NewAlive => new \in {"committing", "quitting"} /\ to_new = <<>>
  \/ /\ to_old = <<"ready">>
     /\ old \in Before \ {"pausing", "duplicating", "accepting", "validating", "restoring"}
     /\ NewAlive => new \in {"committing", "quitting"} /\ to_new = <<>>
  \/ /\ to_old = <<"owned">>
     /\ old \in {"releasing", "acking"} /\ new = "serving" /\ to_new = <<>>

\* What may be on its way to the new server, and where both are then.
OnTheWayToNew ==
  \/ to_new = <<>>
  \/ /\ to_new = <<"manifest">> /\ to_old = <<>>
     /\ new = "manifest" /\ old \in {"validating", "undoing", "crashed"}
  \/ /\ to_new = <<"fds">> /\ to_old = <<>> /\ lost = {}
     /\ new = "fds" /\ old \in {"restoring", "undoing", "crashed"}
  \/ /\ to_new = <<"committed">> /\ to_old = <<>>
     /\ new \in {"committing", "quitting"} /\ old \in After \cup {"crashed"}

\* How far the new server is, seen from the old one.
Together ==
  /\ old \in {"serving", "pausing", "republishing", "rolling_back"} =>
       new \in {"none", "exited"}
  /\ old = "duplicating" => new \notin {"none", "fds", "binding", "committing", "serving"}
  /\ new = "serving" => old \in After \cup {"crashed"}
  /\ new = "connecting" =>
       /\ old \in {"duplicating", "accepting", "undoing", "crashed"}
       /\ to_old = <<>> /\ to_new = <<>>
  /\ new = "binding" =>
       /\ old \in {"restoring", "readying", "undoing", "crashed"}
       /\ old = "restoring" => to_old = <<"restored">>
       /\ old = "readying" => to_old = <<>>
  /\ old = "pausing" => to_old = <<>>

\* Whose actor has a terminal, and what it has seen of it.
Actors ==
  /\ old \in Before \cup {"releasing"} =>
       \A t \in Terminals : reader.old[t] = IF t \in paused THEN "quiesced" ELSE "running"
  /\ old \in (After \ {"releasing"}) \cup {"crashed"} => reader.old = All("none")
  /\ old = "serving" => paused = {}
  /\ old \in Before \cup After =>
       old \in {"serving", "pausing", "rolling_back"} \/ paused = Terminals
  /\ new \in {"none", "connecting", "manifest", "fds", "exited"} => reader.new = All("none")
  /\ new \in {"binding", "committing"} => reader.new = All("quiesced")
  /\ new = "quitting" => reader.new \in {All("none"), All("quiesced")}
  /\ new = "serving" => reader.new = All("running")
  /\ reaps => new = "serving"
  /\ new # "serving" => seen.old = taken
  /\ new \in {"connecting", "manifest", "fds"} => manifest = taken
  /\ new \in {"binding", "committing", "serving"} => seen.new = taken

\* Whose public sockets there are.
Sockets ==
  /\ old \in {"serving", "pausing", "duplicating", "accepting", "validating", "restoring",
              "rolling_back"} => ~withdrawn
  /\ old = "readying" => withdrawn
  /\ new \in {"connecting", "manifest", "fds"} => ~withdrawn
  /\ old \in Before /\ ~withdrawn /\ "unreachable" \notin mishap => sockets = "old"
  /\ sockets = "new" => new \in {"committing", "quitting", "serving"}
  /\ new \in {"committing", "serving"} => sockets = "new"

\* Which terminals are lost, and whose fault that is.
Fate ==
  /\ \A t \in lost : reader.old[t] = "none" /\ reader.new[t] = "none"
  /\ "old" \in mishap \/ "new" \in mishap \/ lost = {}
  /\ old \in After \cup {"crashed"} =>
       \/ "old" \in mishap \/ "new" \in mishap
       \/ new = "committing" /\ to_new = <<"committed">>
       \/ new = "serving"

IInv == Types /\ OnTheWayToOld /\ OnTheWayToNew /\ Together /\ Actors /\ Sockets /\ Fate

\* Sets of states are taken as what they are throughout.
USE DEF Before, After, Servers, NewAlive

-----------------------------------------------------------------------------
(* The invariant holds initially and in every step.                        *)

\* At the start the old server has everything.
LEMMA InitInv == Init => IInv
<1> SUFFICES ASSUME Init PROVE IInv
  OBVIOUS
<1> USE HandoffAssumption DEF Init, All, Servers
<1>1. Types
  <2>1. 0 \in 0..MaxOutput /\ attempts \in 0..MaxAttempts
    OBVIOUS
  <2>2. reader \in [Servers -> [Terminals -> {"running", "quiesced", "none"}]]
    OBVIOUS
  <2>3. seen \in [Servers -> [Terminals -> 0..MaxOutput]]
    BY <2>1
  <2> QED
    BY <2>1, <2>2, <2>3 DEF Types
<1>2. OnTheWayToOld /\ OnTheWayToNew /\ Together /\ Sockets /\ Fate
  BY DEF OnTheWayToOld, OnTheWayToNew, Together, Sockets, Fate
<1>3. Actors
  BY DEF Actors
<1> QED
  BY <1>1, <1>2, <1>3 DEF IInv

\* A server that reads a terminal has seen all that was read from its PTY,
\* and the old one reads only what it has not paused and while the new one
\* does not serve.
LEMMA UpToDate ==
  ASSUME NEW s \in Servers, NEW t \in Terminals, IInv, reader[s][t] = "running"
  PROVE  /\ seen[s][t] = taken[t]
         /\ s = "old" => /\ new # "serving" /\ t \notin paused
                         /\ old \in Before \cup {"releasing"}
         /\ s = "new" => new = "serving"
<1> USE DEF IInv, Types, Together, Actors, Servers, All, Before, After
<1>1. s = "old" => new # "serving" /\ t \notin paused /\ old \in Before \cup {"releasing"}
  OBVIOUS
<1>2. s = "new" => new = "serving"
  OBVIOUS
<1> QED
  BY <1>1, <1>2

\* Until the old server has released the terminals none of them is lost.
LEMMA NothingLostYet ==
  ASSUME IInv, old \in Before \cup {"releasing"}
  PROVE  lost = {} /\ \A t \in Terminals : reader.old[t] # "none"
BY DEF IInv, Types, Actors, Fate

\* A program prints.
LEMMA OutputKeeps ==
  ASSUME NEW t \in Terminals, IInv, Output(t)
  PROVE  IInv'
<1> USE HandoffAssumption DEF Output, panes, stream
<1>1. /\ Types' /\ OnTheWayToOld' /\ OnTheWayToNew' /\ Together' /\ Actors'
      /\ Sockets' /\ Fate'
  BY DEF IInv, Types, OnTheWayToOld, OnTheWayToNew, Together, Actors, Sockets, Fate
<1> QED
  BY <1>1 DEF IInv

\* A server's actor reads a PTY: only one of them does, and it has seen all that
\* was read before.
LEMMA ReadKeeps ==
  ASSUME NEW s \in Servers, NEW t \in Terminals, IInv, Read(s, t)
  PROVE  IInv'
<1> USE HandoffAssumption DEF Read, IInv, Types, panes, output, stream
<1>1. seen[s][t] = taken[t]
  BY UpToDate
<1>2. taken[t] + 1 \in 0..MaxOutput
  <2>1. taken[t] \in 0..MaxOutput /\ printed[t] \in 0..MaxOutput /\ taken[t] < printed[t]
    BY Zenon
  <2> QED
    BY <2>1
<1>3. Types'
  <2>1. seen' \in [Servers -> [Terminals -> 0..MaxOutput]]
    BY <1>1, <1>2
  <2> QED
    BY <1>2, <2>1
<1>4. Actors'
  <2>1. CASE s = "old"
    <3>1. new \notin {"connecting", "manifest", "fds", "binding", "committing", "serving"}
      BY <2>1, UpToDate DEF Actors, Together, OnTheWayToOld, OnTheWayToNew
    <3>2. new # "serving" => seen'.old = taken'
      BY <1>1, <2>1 DEF Actors
    <3> QED
      BY <3>1, <3>2 DEF Actors
  <2>2. CASE s = "new"
    <3>1. new = "serving"
      BY <2>2, UpToDate
    <3>2. seen'.new = taken'
      BY <1>1, <3>1, <2>2 DEF Actors
    <3> QED
      BY <3>1, <3>2 DEF Actors
  <2> QED
    BY <2>1, <2>2
<1>5. OnTheWayToOld' /\ OnTheWayToNew' /\ Together' /\ Sockets' /\ Fate'
  BY DEF OnTheWayToOld, OnTheWayToNew, Together, Sockets, Fate
<1> QED
  BY <1>3, <1>4, <1>5

\* The old server starts an attempt: perform_live_handoff.
LEMMA StartHandoffKeeps ==
  ASSUME IInv, StartHandoff
  PROVE  IInv'
<1> USE HandoffAssumption DEF StartHandoff, panes, output
<1>1. Types' /\ OnTheWayToOld' /\ OnTheWayToNew' /\ Together' /\ Fate'
  BY DEF IInv, Types, OnTheWayToOld, OnTheWayToNew, Together, Fate
<1>2. Actors'
  BY DEF IInv, Together, Actors
<1>3. Sockets'
  BY DEF IInv, Together, Sockets
<1> QED
  BY <1>1, <1>2, <1>3 DEF IInv

\* One more terminal is paused, all its output so far having been read.
LEMMA PauseKeeps ==
  ASSUME NEW t \in Terminals, IInv, Pause(t)
  PROVE  IInv'
<1> USE DEF Pause, output, stream
<1>1. Types' /\ OnTheWayToOld' /\ OnTheWayToNew' /\ Together' /\ Sockets'
  BY DEF IInv, Types, OnTheWayToOld, OnTheWayToNew, Together, Sockets
<1>2. Actors'
  BY DEF IInv, Types, Actors
<1>3. Fate'
  BY DEF IInv, Types, OnTheWayToOld, OnTheWayToNew, Together, Actors, Sockets, Fate
<1> QED
  BY <1>1, <1>2, <1>3 DEF IInv

\* A pause fails: what was paused so far is to be given back.
LEMMA PauseFailsKeeps ==
  ASSUME IInv, PauseFails
  PROVE  IInv'
<1> USE DEF PauseFails, panes, output, stream
<1>1. /\ Types' /\ OnTheWayToOld' /\ OnTheWayToNew' /\ Together' /\ Actors'
      /\ Sockets' /\ Fate'
  BY DEF IInv, Types, OnTheWayToOld, OnTheWayToNew, Together, Actors, Sockets, Fate
<1> QED
  BY <1>1 DEF IInv

\* The manifest is taken with everything at rest, so it is all there was to read.
LEMMA CaptureAndSpawnKeeps ==
  ASSUME IInv, CaptureAndSpawn
  PROVE  IInv'
<1> USE DEF CaptureAndSpawn, panes, output, stream
<1>1. Types' /\ OnTheWayToOld' /\ OnTheWayToNew' /\ Fate'
  BY DEF IInv, Types, OnTheWayToOld, OnTheWayToNew, Fate
<1>2. Together'
  BY DEF IInv, OnTheWayToOld, OnTheWayToNew, Together
<1>3. Actors'
  BY DEF IInv, Together, Actors
<1>4. Sockets'
  BY DEF IInv, Together, Sockets
<1> QED
  BY <1>1, <1>2, <1>3, <1>4 DEF IInv

\* The file descriptors are duplicated, or not.
LEMMA DuplicateFdsKeeps ==
  ASSUME IInv, DuplicateFds
  PROVE  IInv'
<1> USE DEF DuplicateFds, panes, output, stream
<1>1. /\ Types' /\ OnTheWayToOld' /\ OnTheWayToNew' /\ Together' /\ Actors'
      /\ Sockets' /\ Fate'
  BY DEF IInv, Types, OnTheWayToOld, OnTheWayToNew, Together, Actors, Sockets, Fate
<1> QED
  BY <1>1 DEF IInv

\* The token was right: the manifest is the only thing on the stream then.
LEMMA SendManifestKeeps ==
  ASSUME IInv, SendManifest
  PROVE  IInv'
<1> USE Appending, Taking DEF SendManifest, Takes, Writes, panes, output
<1>1. Types' /\ Together' /\ Actors' /\ Sockets' /\ Fate'
  BY DEF IInv, Types, Together, Actors, Sockets, Fate
<1>2. OnTheWayToOld'
  BY DEF IInv, OnTheWayToOld, Together
<1>3. OnTheWayToNew'
  <2>1. to_old' = <<>> /\ to_old = <<"token">>
    BY DEF IInv, OnTheWayToOld
  <2>2. CASE NewAlive
    <3>1. to_new = <<>> /\ new = "manifest"
      BY <2>1, <2>2 DEF IInv, OnTheWayToOld
    <3>2. to_new' = <<"manifest">> /\ old' = "validating"
      BY <2>2, <3>1
    <3> QED
      BY <2>1, <3>1, <3>2 DEF OnTheWayToNew
  <2>3. CASE ~NewAlive
    BY <2>1, <2>3 DEF IInv, OnTheWayToNew
  <2> QED
    BY <2>2, <2>3
<1> QED
  BY <1>1, <1>2, <1>3 DEF IInv

\* The descriptors go out while nothing is lost.
LEMMA SendFdsKeeps ==
  ASSUME IInv, SendFds
  PROVE  IInv'
<1> USE Appending, Taking DEF SendFds, Takes, Writes, panes, output
<1>1. Types' /\ Together' /\ Actors' /\ Sockets' /\ Fate'
  BY DEF IInv, Types, Together, Actors, Sockets, Fate
<1>2. OnTheWayToOld'
  BY DEF IInv, OnTheWayToOld
<1>3. OnTheWayToNew'
  <2>1. to_old' = <<>> /\ to_old = <<"validated">>
    BY DEF IInv, OnTheWayToOld
  <2>2. CASE NewAlive
    <3>1. to_new = <<>> /\ new = "fds"
      BY <2>1, <2>2 DEF IInv, OnTheWayToOld
    <3>2. to_new' = <<"fds">> /\ old' = "restoring" /\ lost' = {}
      BY <2>2, <3>1, NothingLostYet
    <3> QED
      BY <2>1, <3>1, <3>2 DEF OnTheWayToNew
  <2>3. CASE ~NewAlive
    BY <2>1, <2>3 DEF IInv, OnTheWayToNew
  <2> QED
    BY <2>2, <2>3
<1> QED
  BY <1>1, <1>2, <1>3 DEF IInv

\* The old sockets go while the new server binds its own.
LEMMA WithdrawKeeps ==
  ASSUME IInv, Withdraw
  PROVE  IInv'
<1> USE Appending, Taking DEF Withdraw, Takes, panes, output
<1>1. Types' /\ OnTheWayToNew' /\ Actors' /\ Fate'
  BY DEF IInv, Types, OnTheWayToNew, Actors, Fate
<1>2. OnTheWayToOld'
  <2>1. to_old \in {<<"restored">>, <<"restored", "ready">>}
    BY DEF IInv, OnTheWayToOld
  <2>2. CASE to_old = <<"restored">>
    <3>1. to_old' = <<>>
      BY <2>2
    <3> QED
      BY <3>1 DEF OnTheWayToOld
  <2>3. CASE to_old = <<"restored", "ready">>
    <3>1. to_old' = <<"ready">>
      BY <2>3
    <3> QED
      BY <2>3, <3>1 DEF IInv, OnTheWayToOld
  <2> QED
    BY <2>1, <2>2, <2>3
<1>3. Together'
  <2>1. to_old \in {<<"restored">>, <<"restored", "ready">>}
    BY DEF IInv, OnTheWayToOld
  <2>2. CASE to_old = <<"restored">>
    <3>1. to_old' = <<>>
      BY <2>2
    <3> QED
      BY <2>2, <3>1 DEF IInv, Together
  <2>3. CASE to_old = <<"restored", "ready">>
    <3>1. NewAlive => new \in {"committing", "quitting"}
      BY <2>3 DEF IInv, OnTheWayToOld
    <3> QED
      BY <3>1 DEF IInv, Together
  <2> QED
    BY <2>1, <2>2, <2>3
<1>4. Sockets'
  BY DEF IInv, OnTheWayToOld, OnTheWayToNew, Sockets
<1> QED
  BY <1>1, <1>2, <1>3, <1>4 DEF IInv

\* The commit: nothing is undone after it, and nothing else is on the stream.
LEMMA CommitKeeps ==
  ASSUME IInv, Commit
  PROVE  IInv'
<1> USE Appending, Taking DEF Commit, Takes, Writes, panes, output
<1>1. Types' /\ Together' /\ Actors' /\ Sockets'
  BY DEF IInv, Types, Together, Actors, Sockets
<1>2. OnTheWayToOld'
  BY DEF IInv, OnTheWayToOld, Together
<1>3. OnTheWayToNew'
  <2>1. to_old' = <<>> /\ to_old = <<"ready">>
    BY DEF IInv, OnTheWayToOld
  <2>2. CASE NewAlive
    <3>1. to_new = <<>> /\ new \in {"committing", "quitting"}
      BY <2>1, <2>2 DEF IInv, OnTheWayToOld
    <3>2. to_new' = <<"committed">> /\ old' = "releasing"
      BY <2>2, <3>1
    <3> QED
      BY <2>1, <3>1, <3>2 DEF OnTheWayToNew
  <2>3. CASE ~NewAlive
    BY <2>1, <2>3 DEF IInv, OnTheWayToNew
  <2> QED
    BY <2>2, <2>3
<1>4. Fate'
  BY DEF IInv, OnTheWayToOld, OnTheWayToNew, Fate
<1> QED
  BY <1>1, <1>2, <1>3, <1>4 DEF IInv

\* A wait of the old server is over.
LEMMA WaitFailsKeeps ==
  ASSUME IInv, WaitFails
  PROVE  IInv'
<1> USE DEF WaitFails, panes, output, stream
<1>1. /\ Types' /\ OnTheWayToOld' /\ OnTheWayToNew' /\ Together' /\ Actors'
      /\ Sockets' /\ Fate'
  BY DEF IInv, Types, OnTheWayToOld, OnTheWayToNew, Together, Actors, Sockets, Fate
<1> QED
  BY <1>1 DEF IInv

\* The child is killed while the old server's actors still hold every PTY.
LEMMA KillChildKeeps ==
  ASSUME IInv, KillChild
  PROVE  IInv'
<1> USE DEF KillChild, NewEnds, HungUp, output, All
<1>1. OnTheWayToOld' /\ OnTheWayToNew' /\ Sockets'
  BY DEF IInv, OnTheWayToOld, OnTheWayToNew, Sockets
<1>2. Types'
  <2>1. reader' \in [Servers -> [Terminals -> {"running", "quiesced", "none"}]]
    <3>1. \/ UNCHANGED reader
          \/ reader' = [reader EXCEPT !.new = All("none")]
      OBVIOUS
    <3>2. All("none") \in [Terminals -> {"running", "quiesced", "none"}]
      OBVIOUS
    <3> HIDE DEF KillChild
    <3> QED
      BY <3>1, <3>2 DEF IInv, Types
  <2>2. lost' \subseteq Terminals
    BY Zenon DEF IInv, Types
  <2> QED
    BY <2>1, <2>2 DEF IInv, Types
<1>3. Together'
  BY DEF IInv, Types, Together
<1>4. Actors'
  <2>1. reader'.new = All("none") /\ reader'.old = reader.old
    BY DEF IInv, Types, Actors, Together
  <2>2. old' \in {"republishing", "rolling_back"} /\ new' \in {"none", "exited"}
    BY DEF IInv, Types
  <2>3. paused' = Terminals /\ ~reaps' /\ seen'.old = taken'
    BY DEF IInv, Types, Actors, Together
  <2>4. \A t \in Terminals : reader'.old[t] = IF t \in paused' THEN "quiesced" ELSE "running"
    BY <2>1, Zenon DEF IInv, Actors
  <2> QED
    BY <2>1, <2>2, <2>3, <2>4 DEF Actors
<1>5. Fate'
  <2>1. lost' = {}
    <3>1. lost = {} /\ \A t \in Terminals : reader.old[t] # "none"
      BY NothingLostYet
    <3>2. reader'.old = reader.old
      BY DEF IInv, Types
    <3> QED
      BY <3>1, <3>2
  <2> QED
    BY <2>1 DEF IInv, Types, Fate
<1> QED
  BY <1>1, <1>2, <1>3, <1>4, <1>5 DEF IInv

\* The public sockets come back, unless they cannot.
LEMMA RepublishKeeps ==
  ASSUME IInv, Republish
  PROVE  IInv'
<1> USE DEF Republish, panes, output, stream
<1>1. OnTheWayToOld' /\ OnTheWayToNew' /\ Together' /\ Actors' /\ Sockets' /\ Fate'
  BY DEF IInv, OnTheWayToOld, OnTheWayToNew, Together, Actors, Sockets, Fate
<1>2. Types'
  BY DEF IInv, Types
<1> QED
  BY <1>1, <1>2 DEF IInv

\* What was paused is served again.
LEMMA RollBackKeeps ==
  ASSUME IInv, RollBack
  PROVE  IInv'
<1> USE DEF RollBack, output, stream
<1>1. Types' /\ OnTheWayToOld' /\ OnTheWayToNew' /\ Together' /\ Actors' /\ Sockets'
  BY DEF IInv, Types, OnTheWayToOld, OnTheWayToNew, Together, Actors, Sockets
<1>2. Fate'
  BY DEF IInv, Types, OnTheWayToOld, OnTheWayToNew, Together, Actors, Sockets, Fate
<1> QED
  BY <1>1, <1>2 DEF IInv

\* The old server's actors let go when the new one has every PTY.
LEMMA ReleaseKeeps ==
  ASSUME IInv, Release
  PROVE  IInv'
<1> USE DEF Release, HungUp, output, stream, All
<1>1. Types' /\ OnTheWayToOld' /\ OnTheWayToNew' /\ Together' /\ Actors' /\ Sockets'
  BY DEF IInv, Types, OnTheWayToOld, OnTheWayToNew, Together, Actors, Sockets
<1>2. Fate'
  BY DEF IInv, Types, OnTheWayToOld, OnTheWayToNew, Together, Actors, Sockets, Fate
<1> QED
  BY <1>1, <1>2 DEF IInv

\* The old server has waited long enough for the new one's answer.
LEMMA StopWaitingKeeps ==
  ASSUME IInv, StopWaiting
  PROVE  IInv'
<1> USE DEF StopWaiting, panes, output
<1>1. /\ Types' /\ OnTheWayToOld' /\ OnTheWayToNew' /\ Together' /\ Actors'
      /\ Sockets' /\ Fate'
  BY DEF IInv, Types, OnTheWayToOld, OnTheWayToNew, Together, Actors, Sockets, Fate
<1> QED
  BY <1>1 DEF IInv

\* The old server removes the sockets that are its own.
LEMMA StopKeeps ==
  ASSUME IInv, Stop
  PROVE  IInv'
<1> USE DEF Stop, panes, output, stream
<1>1. /\ Types' /\ OnTheWayToOld' /\ OnTheWayToNew' /\ Together' /\ Actors'
      /\ Sockets' /\ Fate'
  BY DEF IInv, Types, OnTheWayToOld, OnTheWayToNew, Together, Actors, Sockets, Fate
<1> QED
  BY <1>1 DEF IInv

\* The new server connects and sends its token.
LEMMA ConnectKeeps ==
  ASSUME IInv, Connect
  PROVE  IInv'
<1> USE Appending, Taking DEF Connect, Answers, OldOpen, panes, output
<1>1. Types' /\ OnTheWayToNew' /\ Together' /\ Actors' /\ Sockets' /\ Fate'
  BY DEF IInv, Types, OnTheWayToNew, Together, Actors, Sockets, Fate
<1>2. OnTheWayToOld'
  BY DEF IInv, OnTheWayToOld, Together
<1> QED
  BY <1>1, <1>2 DEF IInv

\* The new server takes the manifest.
LEMMA ValidateKeeps ==
  ASSUME IInv, Validate
  PROVE  IInv'
<1> USE Appending, Taking DEF Validate, Answers, Gets, OldOpen, panes, output
<1>1. Types' /\ Actors' /\ Sockets' /\ Fate'
  BY DEF IInv, Types, Actors, Sockets, Fate
<1>2. OnTheWayToOld'
  BY DEF IInv, OnTheWayToOld, OnTheWayToNew
<1>3. OnTheWayToNew'
  <2>1. to_new' = <<>>
    BY DEF IInv, OnTheWayToNew
  <2> QED
    BY <2>1 DEF OnTheWayToNew
<1>4. Together'
  BY DEF IInv, OnTheWayToOld, OnTheWayToNew, Together
<1> QED
  BY <1>1, <1>2, <1>3, <1>4 DEF IInv

\* The new server's actors take every PTY, paused, and the captured state.
LEMMA ImportKeeps ==
  ASSUME IInv, Import
  PROVE  IInv'
<1> USE Appending, Taking DEF Import, Answers, Gets, OldOpen, output, All
<1>1. Actors' /\ Sockets'
  BY DEF IInv, Actors, Sockets
<1>2. Types'
  <2>1. reader' \in [Servers -> [Terminals -> {"running", "quiesced", "none"}]]
    BY DEF IInv, Types
  <2>2. seen' \in [Servers -> [Terminals -> 0..MaxOutput]]
    BY DEF IInv, Types
  <2> QED
    BY <2>1, <2>2 DEF IInv, Types
<1>3. OnTheWayToOld'
  BY DEF IInv, Types, OnTheWayToOld, OnTheWayToNew, Together, Actors, Sockets, Fate
<1>4. OnTheWayToNew'
  <2>1. to_new' = <<>>
    BY DEF IInv, OnTheWayToNew
  <2> QED
    BY <2>1 DEF OnTheWayToNew
<1>5. Together'
  <2>1. to_old = <<>> /\ old \in {"restoring", "undoing", "crashed"}
    BY DEF IInv, OnTheWayToNew
  <2>2. \/ new' = "quitting"
        \/ new' = "binding" /\ to_old' = <<"restored">>
    BY <2>1
  <2> QED
    BY <2>1, <2>2 DEF Together
<1>6. Fate'
  BY DEF IInv, OnTheWayToOld, OnTheWayToNew, Fate
<1> QED
  BY <1>1, <1>2, <1>3, <1>4, <1>5, <1>6 DEF IInv

\* The new server binds the public sockets; only an old one that could not get
\* its own back still waits for an earlier message.
LEMMA BindKeeps ==
  ASSUME IInv, Bind
  PROVE  IInv'
<1> USE Appending, Taking DEF Bind, Answers, OldOpen, panes, output
<1>1. Types' /\ OnTheWayToNew' /\ Together' /\ Actors' /\ Sockets' /\ Fate'
  BY DEF IInv, Types, OnTheWayToNew, Together, Actors, Sockets, Fate
<1>2. OnTheWayToOld'
  <2>1. to_new = <<>> /\ to_old \in {<<>>, <<"restored">>}
    BY DEF IInv, OnTheWayToOld, OnTheWayToNew
  <2>2. CASE new' = "quitting"
    BY <2>1, <2>2 DEF IInv, OnTheWayToOld
  <2>3. CASE to_old = <<>> /\ to_old' = <<"ready">> /\ new' = "committing"
    BY <2>1, <2>3 DEF IInv, OnTheWayToOld, Together
  <2>4. CASE to_old = <<"restored">> /\ to_old' = <<"restored", "ready">> /\ new' = "committing"
    <3>1. "unreachable" \in mishap
      BY <2>4 DEF IInv, OnTheWayToOld, Sockets
    <3> QED
      BY <2>1, <2>4, <3>1 DEF IInv, OnTheWayToOld, Together
  <2>5. CASE new' = "committing" /\ to_old' = Append(to_old, "ready")
    <3>1. Append(<<>>, "ready") = <<"ready">>
      OBVIOUS
    <3>2. Append(<<"restored">>, "ready") = <<"restored", "ready">>
      OBVIOUS
    <3> QED
      BY <2>1, <2>3, <2>4, <2>5, <3>1, <3>2
  <2> QED
    BY <2>2, <2>5
<1> QED
  BY <1>1, <1>2 DEF IInv

\* The new server owns the terminals now and reads them all.
LEMMA OwnKeeps ==
  ASSUME IInv, Own
  PROVE  IInv'
<1> USE Appending, Taking DEF Own, Gets, OldOpen, output, All
<1>1. Types'
  <2>1. reader' \in [Servers -> [Terminals -> {"running", "quiesced", "none"}]]
    BY DEF IInv, Types
  <2> QED
    BY <2>1 DEF IInv, Types
<1>2. OnTheWayToOld'
  <2>1. to_new = <<"committed">> /\ to_new' = <<>> /\ to_old = <<>>
    BY DEF IInv, OnTheWayToNew
  <2>2. old \in After \cup {"crashed"}
    BY <2>1 DEF IInv, OnTheWayToNew
  <2>3. CASE old \in {"releasing", "acking"}
    BY <2>1, <2>3 DEF OnTheWayToOld
  <2>4. CASE old \notin {"releasing", "acking"}
    BY <2>1, <2>2, <2>4 DEF OnTheWayToOld
  <2> QED
    BY <2>3, <2>4
<1>3. OnTheWayToNew'
  BY DEF IInv, OnTheWayToNew
<1>4. Together'
  BY DEF IInv, OnTheWayToOld, OnTheWayToNew, Together
<1>5. Actors'
  BY DEF IInv, Actors
<1>6. Sockets'
  BY DEF IInv, Sockets
<1>7. Fate'
  BY DEF IInv, Types, OnTheWayToOld, OnTheWayToNew, Together, Actors, Sockets, Fate
<1> QED
  BY <1>1, <1>2, <1>3, <1>4, <1>5, <1>6, <1>7 DEF IInv

\* The new server gives up waiting.
LEMMA GiveUpKeeps ==
  ASSUME IInv, GiveUp
  PROVE  IInv'
<1> USE DEF GiveUp, OldOpen, panes, output, stream
<1>1. Types' /\ OnTheWayToNew' /\ Together' /\ Actors' /\ Sockets' /\ Fate'
  BY DEF IInv, Types, OnTheWayToNew, Together, Actors, Sockets, Fate
<1>2. OnTheWayToOld'
  BY DEF IInv, OnTheWayToOld, Together
<1> QED
  BY <1>1, <1>2 DEF IInv

\* The new server drops what it imported without killing it.
LEMMA QuitKeeps ==
  ASSUME IInv, Quit
  PROVE  IInv'
<1> USE DEF Quit, NewEnds, HungUp, output, All
<1>1. OnTheWayToOld' /\ OnTheWayToNew' /\ Together' /\ Actors' /\ Sockets'
  BY DEF IInv, OnTheWayToOld, OnTheWayToNew, Together, Actors, Sockets
<1>2. Types'
  <2>1. reader' \in [Servers -> [Terminals -> {"running", "quiesced", "none"}]]
    BY DEF IInv, Types
  <2>2. lost' \subseteq Terminals
    BY Zenon DEF IInv, Types
  <2> QED
    BY <2>1, <2>2 DEF IInv, Types
<1>3. Fate'
  BY DEF IInv, Types, OnTheWayToOld, OnTheWayToNew, Together, Actors, Sockets, Fate
<1> QED
  BY <1>1, <1>2, <1>3 DEF IInv

\* The new server crashes before it serves.
LEMMA NewCrashesKeeps ==
  ASSUME IInv, NewCrashes
  PROVE  IInv'
<1> USE DEF NewCrashes, Committed, NewEnds, HungUp, output, All
<1>0. Types'
  <2>1. reader' \in [Servers -> [Terminals -> {"running", "quiesced", "none"}]]
    BY DEF IInv, Types
  <2>2. lost' \subseteq Terminals
    BY Zenon DEF IInv, Types
  <2> QED
    BY <2>1, <2>2 DEF IInv, Types
<1>1. Types' /\ OnTheWayToOld' /\ OnTheWayToNew' /\ Together' /\ Actors' /\ Sockets'
  BY <1>0 DEF IInv, OnTheWayToOld, OnTheWayToNew, Together, Actors, Sockets
<1>2. Fate'
  BY DEF IInv, Types, OnTheWayToOld, OnTheWayToNew, Together, Actors, Sockets, Fate
<1> QED
  BY <1>1, <1>2 DEF IInv

\* The old server crashes: what it alone had is lost, and that is its own doing or,
\* after the commit, nobody's.
LEMMA OldCrashesKeeps ==
  ASSUME IInv, OldCrashes
  PROVE  IInv'
<1> USE Taking DEF OldCrashes, Committed, HungUp, output, All
<1>1. OnTheWayToOld' /\ OnTheWayToNew' /\ Together' /\ Actors' /\ Sockets'
  BY DEF IInv, OnTheWayToOld, OnTheWayToNew, Together, Actors, Sockets
<1>2. Types'
  <2>1. reader' \in [Servers -> [Terminals -> {"running", "quiesced", "none"}]]
    BY DEF IInv, Types
  <2>2. lost' \subseteq Terminals
    BY Zenon DEF IInv, Types
  <2> QED
    BY <2>1, <2>2 DEF IInv, Types
<1>3. Fate'
  <2> USE DEF IInv, Types
  <2>1. reader'.old = All("none") /\ reader'.new = reader.new
    OBVIOUS
  <2>2. \A t \in lost' : reader'.old[t] = "none" /\ reader'.new[t] = "none"
    BY <2>1 DEF Fate
  <2>3. CASE ~Committed
    BY <2>2, <2>3 DEF Fate
  <2>4. CASE old \in After
    <3>1. \/ "old" \in mishap \/ "new" \in mishap
          \/ new = "committing" /\ to_new = <<"committed">>
          \/ new = "serving"
      BY <2>4 DEF Fate
    <3>2. new \in {"committing", "serving"} => \A t \in Terminals : reader.new[t] # "none"
      BY DEF Actors
    <3> QED
      BY <2>1, <2>2, <2>4, <3>1, <3>2 DEF Fate
  <2>5. CASE old \notin After /\ to_new = <<"committed">>
    BY <2>5 DEF OnTheWayToNew
  <2> QED
    BY <2>3, <2>4, <2>5
<1> QED
  BY <1>1, <1>2, <1>3 DEF IInv

\* The invariant holds in every reachable state: every step keeps it.
THEOREM Invariant == Spec => []IInv
<1>1. IInv /\ [Next]_vars => IInv'
  <2> SUFFICES ASSUME IInv, [Next]_vars PROVE IInv'
    OBVIOUS
  <2>1. CASE UNCHANGED vars
    BY <2>1 DEF vars, stream, panes, output, IInv, Types, OnTheWayToOld, OnTheWayToNew,
                Together, Actors, Sockets, Fate
  <2>2. CASE Panes
    BY <2>2, OutputKeeps, ReadKeeps DEF Panes
  <2>3. CASE StartHandoff
    BY <2>3, StartHandoffKeeps
  <2>4. CASE Old
    BY <2>4, PauseKeeps, PauseFailsKeeps, CaptureAndSpawnKeeps, DuplicateFdsKeeps,
       SendManifestKeeps, SendFdsKeeps, WithdrawKeeps, CommitKeeps, WaitFailsKeeps,
       KillChildKeeps, RepublishKeeps, RollBackKeeps, ReleaseKeeps, StopWaitingKeeps,
       StopKeeps
       DEF Old
  <2>5. CASE New
    BY <2>5, ConnectKeeps, ValidateKeeps, ImportKeeps, BindKeeps, OwnKeeps, GiveUpKeeps,
       QuitKeeps
       DEF New
  <2>6. CASE NewCrashes \/ OldCrashes
    BY <2>6, NewCrashesKeeps, OldCrashesKeeps
  <2> QED
    BY <2>1, <2>2, <2>3, <2>4, <2>5, <2>6 DEF Next
<1> QED
  BY InitInv, <1>1, PTL DEF Spec

\* The stream never holds more than one message, but for the two that an
\* old server finds that could not take its sockets back; every variable
\* has its type.
THEOREM TypeCorrect == Spec => []TypeOK
<1>1. IInv => TypeOK
  <2> SUFFICES ASSUME IInv PROVE TypeOK
    OBVIOUS
  <2>1. /\ to_old \in Seq({"token", "validated", "restored", "ready", "owned"})
        /\ Len(to_old) <= 1 \/ "unreachable" \in mishap
    <3>1. \/ to_old = <<>>
          \/ \E m \in {"token", "validated", "restored", "ready", "owned"} : to_old = <<m>>
          \/ to_old = <<"restored", "ready">> /\ "unreachable" \in mishap
      BY Zenon DEF IInv, OnTheWayToOld
    <3>2. <<"restored", "ready">> \in Seq({"token", "validated", "restored", "ready", "owned"})
      OBVIOUS
    <3> QED
      BY <3>1, <3>2, ShortSequence
  <2>2. to_new \in Seq({"manifest", "fds", "committed"}) /\ Len(to_new) <= 1
    <3>1. to_new = <<>> \/ \E m \in {"manifest", "fds", "committed"} : to_new = <<m>>
      BY Zenon DEF IInv, OnTheWayToNew
    <3> QED
      BY <3>1, ShortSequence
  <2> QED
    BY <2>1, <2>2 DEF IInv, Types, TypeOK
<1> QED
  BY Invariant, <1>1, PTL

\* No program is killed or loses its terminal in a handoff, however it goes,
\* unless the old server crashed before it committed or the new one ended
\* after that (preserve_processes_on_drop, cleanup_failed_import_child).
THEOREM NothingIsLost == Spec => []PanesSurvive
<1>1. IInv => PanesSurvive
  BY DEF IInv, Fate, PanesSurvive
<1> QED
  BY Invariant, <1>1, PTL

\* The public sockets lead to the server that serves, after a failed attempt
\* and after a committed one (complete_shutdown, restore of the sockets).
THEOREM SocketsLeadOn == Spec => []SocketsFollow
<1>1. IInv => SocketsFollow
  BY DEF IInv, Types, Sockets, SocketsFollow
<1> QED
  BY Invariant, <1>1, PTL

-----------------------------------------------------------------------------
(* The handoff implements the atomic transfer.                             *)

\* What is shown of a terminal is what was read from its PTY.
LEMMA ShownIsTaken == IInv => shown = taken
<1> SUFFICES ASSUME IInv PROVE shown = taken
  OBVIOUS
<1>1. ASSUME NEW t \in Terminals, serving[t] # {}
      PROVE  seen[CHOOSE s \in serving[t] : TRUE][t] = taken[t]
  <2> DEFINE s == CHOOSE s \in serving[t] : TRUE
  <2>1. s \in serving[t]
    BY <1>1
  <2>2. s \in Servers /\ reader[s][t] = "running"
    BY <2>1 DEF serving
  <2> HIDE DEF s
  <2>3. seen[s][t] = taken[t]
    BY <2>2, UpToDate
  <2> QED
    BY <2>3 DEF s
<1> QED
  BY <1>1 DEF IInv, Types, shown

\* A step that starts or stops nobody's reading, but of terminals that it
\* loses, is a loss or a stutter.
LEMMA OnlyLoses ==
  ASSUME IInv, IInv', UNCHANGED <<printed, taken>>, lost \subseteq lost',
         \A t \in Terminals \ lost', s \in Servers :
           reader'[s][t] = "running" <=> reader[s][t] = "running"
  PROVE  Atomic!Next
<1>1. shown' = shown
  <2>1. (IInv => shown = taken)'
    BY ShownIsTaken, PTL
  <2> QED
    BY <2>1, ShownIsTaken
<1>2. lost' \in SUBSET Terminals
  BY DEF IInv, Types
<1>3. serving' = [t \in Terminals |-> IF t \in lost' THEN {} ELSE serving[t]]
  BY DEF serving
<1>4. Atomic!Lose(lost')
  BY <1>1, <1>3 DEF Atomic!Lose
<1> QED
  BY <1>2, <1>4 DEF Atomic!Next

\* However the two servers fail, each terminal is passed on atomically: a
\* pause takes it from the old server, a rollback gives it back, the new
\* server's taking it over is the moment it changes hands, and the only
\* other thing that may happen to it is to be lost.
THEOREM Refinement == Spec => ImplementsTransfer
<1>1. Init => Atomic!Init
  <2> SUFFICES ASSUME Init PROVE Atomic!Init
    OBVIOUS
  <2>1. \A t \in Terminals : serving[t] = {"old"}
    <3>1. \A t \in Terminals : reader["old"][t] = "running" /\ reader["new"][t] = "none"
      BY DEF Init, All
    <3> QED
      BY <3>1 DEF Init, serving
  <2>2. shown = taken
    BY InitInv, ShownIsTaken
  <2> QED
    BY <2>1, <2>2 DEF Init, All, Atomic!Init, serving
<1>2. IInv /\ IInv' /\ [Next]_vars => [Atomic!Next]_(Atomic!vars)
  <2> SUFFICES ASSUME IInv, IInv', [Next]_vars
               PROVE  Atomic!Next \/ UNCHANGED Atomic!vars
    OBVIOUS
  <2> USE DEF panes, output, stream
  <2>0. shown = taken /\ shown' = taken'
    <3>1. (IInv => shown = taken)'
      BY ShownIsTaken, PTL
    <3> QED
      BY <3>1, ShownIsTaken
  <2>1. ASSUME UNCHANGED <<reader, lost, printed, taken>>
        PROVE  UNCHANGED Atomic!vars
    <3>1. serving' = serving
      BY <2>1 DEF serving
    <3> QED
      BY <2>0, <2>1, <3>1 DEF Atomic!vars
  <2>2. ASSUME NEW t \in Terminals, Output(t) PROVE Atomic!Next
    <3>1. serving' = serving
      BY <2>2 DEF Output, serving
    <3>2. Atomic!Output(t)
      BY <2>0, <2>2, <3>1 DEF Output, Atomic!Output
    <3> QED
      BY <3>2 DEF Atomic!Next
  <2>3. ASSUME NEW s \in Servers, NEW t \in Terminals, Read(s, t) PROVE Atomic!Next
    <3>1. serving' = serving
      BY <2>3 DEF Read, serving
    <3>2. t \notin lost
      BY <2>3 DEF Read, IInv, Fate
    <3>3. s \in serving[t]
      BY <2>3, <3>2 DEF Read, serving
    <3>4. Atomic!TakeIn(t)
      BY <2>0, <2>3, <3>1, <3>3 DEF Read, Atomic!TakeIn
    <3> QED
      BY <3>4 DEF Atomic!Next
  <2>4. ASSUME NEW t \in Terminals, Pause(t) PROVE Atomic!Next
    <3>1. lost = {} /\ lost' = {}
      BY <2>4, NothingLostYet DEF Pause
    <3>2. /\ reader.old[t] = "running" /\ reader'.old = [reader.old EXCEPT ![t] = "quiesced"]
          /\ reader.new = All("none") /\ reader'.new = reader.new
      BY <2>4 DEF Pause, IInv, Types, Actors, Together
    <3>3. serving[t] = {"old"} /\ serving'[t] = {}
      BY <3>1, <3>2 DEF serving, All, IInv, Types
    <3>4. \A u \in Terminals : u # t => serving'[u] = serving[u]
      BY <3>1, <3>2 DEF serving, IInv, Types
    <3>5. serving' = [u \in Terminals |-> IF u \in {t} THEN {} ELSE serving[u]]
      BY <3>3, <3>4 DEF serving
    <3>6. Atomic!Pass({t}, {"old"}, {})
      BY <2>0, <2>4, <3>1, <3>3, <3>5 DEF Pause, Atomic!Pass
    <3> QED
      BY <3>6 DEF Atomic!Next
  <2>5. CASE RollBack
    <3>1. lost = {} /\ lost' = {}
      BY <2>5, NothingLostYet DEF RollBack
    <3>2. /\ \A t \in paused : reader.old[t] = "quiesced" /\ reader'.old[t] = "running"
          /\ \A t \in Terminals \ paused : reader'.old[t] = reader.old[t]
          /\ reader.new = All("none") /\ reader'.new = reader.new
      BY <2>5 DEF RollBack, IInv, Types, Actors, Together
    <3>3. \A t \in paused : serving[t] = {} /\ serving'[t] = {"old"}
      BY <3>1, <3>2 DEF serving, All, IInv, Types
    <3>4. \A t \in Terminals \ paused : serving'[t] = serving[t]
      BY <3>1, <3>2 DEF serving
    <3>5. serving' = [t \in Terminals |-> IF t \in paused THEN {"old"} ELSE serving[t]]
      BY <3>3, <3>4 DEF serving
    <3>6. Atomic!Pass(paused, {}, {"old"}) /\ paused \in SUBSET Terminals
      BY <2>0, <2>5, <3>1, <3>3, <3>5 DEF RollBack, Atomic!Pass, IInv, Types
    <3> QED
      BY <3>6 DEF Atomic!Next
  <2>6. CASE Own
    <3>1. /\ reader.new = All("quiesced") /\ reader'.new = All("running")
          /\ \A t \in Terminals : reader.old[t] # "running"
          /\ reader'.old = reader.old
      BY <2>6, Taking DEF Own, Gets, IInv, Types, Actors, OnTheWayToNew, All
    <3>2. lost = {} /\ lost' = {}
      BY <2>6, <3>1 DEF Own, IInv, Types, Fate, All
    <3>3. \A t \in Terminals : serving[t] = {} /\ serving'[t] = {"new"}
      BY <3>1, <3>2 DEF serving, All
    <3>4. serving' = [t \in Terminals |-> IF t \in Terminals THEN {"new"} ELSE serving[t]]
      BY <3>3 DEF serving
    <3>5. Atomic!Pass(Terminals, {}, {"new"})
      BY <2>0, <2>6, <3>2, <3>3, <3>4 DEF Own, Atomic!Pass
    <3> QED
      BY <3>5 DEF Atomic!Next
  <2>7. CASE Import
    BY <2>7, OnlyLoses DEF Import, IInv, Types, Actors, All
  <2>8. CASE Release
    <3>1. lost \subseteq lost' /\ UNCHANGED <<printed, taken>>
      BY <2>8 DEF Release
    <3>2. \A t \in Terminals : reader.old[t] # "running" /\ reader'.old[t] # "running"
      BY <2>8 DEF Release, IInv, Types, Actors, All
    <3>3. reader'.new = reader.new
      BY <2>8 DEF Release, IInv, Types
    <3> QED
      BY <3>1, <3>2, <3>3, OnlyLoses
  <2>9. ASSUME NewEnds("exited", {}), new # "serving", UNCHANGED <<printed, taken>>
        PROVE  Atomic!Next
    <3>1. lost \subseteq lost'
      BY <2>9 DEF NewEnds
    <3>2. \A t \in Terminals : reader.new[t] # "running" /\ reader'.new[t] # "running"
      BY <2>9 DEF NewEnds, IInv, Types, Actors, All
    <3>3. reader'.old = reader.old
      BY <2>9 DEF NewEnds, IInv, Types
    <3> QED
      BY <2>9, <3>1, <3>2, <3>3, OnlyLoses
  <2>10. CASE KillChild
    BY <2>1, <2>9, <2>10 DEF KillChild, IInv, Together
  <2>11. CASE Quit
    BY <2>9, <2>11 DEF Quit, IInv, Actors
  <2>12. CASE NewCrashes
    BY <2>9, <2>12 DEF NewCrashes
  <2>13. CASE OldCrashes
    <3>1. lost \subseteq lost' /\ UNCHANGED <<printed, taken>>
      BY <2>13 DEF OldCrashes
    <3>2. reader'.old = All("none") /\ reader'.new = reader.new
      BY <2>13 DEF OldCrashes, IInv, Types
    <3>3. ASSUME NEW t \in Terminals, reader.old[t] = "running" PROVE t \in lost'
      <4>1. old \in {"pausing", "rolling_back"}
        BY <2>13, <3>3 DEF OldCrashes, IInv, Types, Actors, All
      <4>2. reader'.new[t] = "none" /\ to_new \in {<<>>, <<"manifest">>}
        BY <3>2, <4>1 DEF IInv, Together, Actors, OnTheWayToNew, All
      <4>3. ~ \E i \in DOMAIN to_new : to_new[i] = "fds"
        BY <4>2
      <4> QED
        BY <2>13, <3>2, <4>2, <4>3 DEF OldCrashes, HungUp, All
    <3> QED
      BY <3>1, <3>2, <3>3, OnlyLoses DEF All
  <2>14. CASE UNCHANGED vars
    BY <2>1, <2>14 DEF vars
  <2>15. CASE Old
    <3>1. \/ \E t \in Terminals : Pause(t)
          \/ KillChild \/ RollBack \/ Release
          \/ UNCHANGED <<reader, lost, printed, taken>>
      BY <2>15 DEF Old, PauseFails, CaptureAndSpawn, DuplicateFds, SendManifest, SendFds,
                   Withdraw, Commit, WaitFails, Republish, StopWaiting, Stop
    <3> QED
      BY <2>1, <2>4, <2>5, <2>8, <2>10, <3>1
  <2>16. CASE New
    <3>1. Import \/ Own \/ Quit \/ UNCHANGED <<reader, lost, printed, taken>>
      BY <2>16 DEF New, Connect, Validate, Bind, GiveUp
    <3> QED
      BY <2>1, <2>6, <2>7, <2>11, <3>1
  <2>17. CASE StartHandoff
    BY <2>1, <2>17 DEF StartHandoff
  <2> QED
    BY <2>2, <2>3, <2>12, <2>13, <2>14, <2>15, <2>16, <2>17 DEF Next, Panes
<1> QED
  BY Invariant, <1>1, <1>2, PTL DEF Spec, ImplementsTransfer, Atomic!Spec

=============================================================================
