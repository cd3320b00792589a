------------------------------ MODULE Transfer ------------------------------
(***************************************************************************)
(* What a live handoff promises of every terminal, as an atomic transfer:  *)
(* at each moment at most one server serves it, nothing its program prints *)
(* is skipped or shown twice, and it goes from the old server to the new   *)
(* one once and for all, unless it is lost.                                *)
(***************************************************************************)
EXTENDS Naturals

CONSTANT Terminals

VARIABLES
  serving,  \* the servers that serve the terminal: none, the old or the new one
  lost,     \* the terminals whose program is gone
  printed,  \* how much a program has printed
  shown     \* how much of that its server has taken in

vars == <<serving, lost, printed, shown>>

Init == /\ serving = [t \in Terminals |-> {"old"}] /\ lost = {}
        /\ printed = [t \in Terminals |-> 0] /\ shown = [t \in Terminals |-> 0]

Output(t) ==
  /\ t \notin lost
  /\ printed' = [printed EXCEPT ![t] = @ + 1] /\ UNCHANGED <<serving, lost, shown>>

TakeIn(t) ==
  /\ serving[t] # {} /\ shown[t] < printed[t]
  /\ shown' = [shown EXCEPT ![t] = @ + 1] /\ UNCHANGED <<serving, lost, printed>>

Pass(ts, from, to) ==
  /\ ts \cap lost = {} /\ \A t \in ts : serving[t] = from
  /\ serving' = [t \in Terminals |-> IF t \in ts THEN to ELSE serving[t]]
  /\ UNCHANGED <<lost, printed, shown>>

Lose(ts) ==
  /\ lost' = lost \cup ts
  /\ serving' = [t \in Terminals |-> IF t \in ts THEN {} ELSE serving[t]]
  /\ UNCHANGED <<printed, shown>>

Next == \/ \E t \in Terminals : Output(t) \/ TakeIn(t)
        \/ \E ts \in SUBSET Terminals :
             \/ Pass(ts, {"old"}, {}) \/ Pass(ts, {}, {"old"}) \/ Pass(ts, {}, {"new"})
             \/ Lose(ts)

Spec == Init /\ [][Next]_vars
=============================================================================
