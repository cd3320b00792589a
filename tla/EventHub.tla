------------------------------ MODULE EventHub ------------------------------
(***************************************************************************)
(* The event hub of src/api/event_hub.rs: a ring of the last MAX_EVENTS    *)
(* events, numbered 1, 2, 3 ...  The application thread pushes; the        *)
(* connection threads read behind a cursor of their own.  Each method      *)
(* holds the mutex for its whole body, so each is one atomic operator.     *)
(***************************************************************************)
EXTENDS Naturals, Sequences

CONSTANT MaxEvents  \* MAX_EVENTS (512)

ASSUME MaxEventsAssumption == MaxEvents \in Nat \ {0}

NewHub == [next_sequence |-> 0, events |-> <<>>]

\* The oldest events make room: a reader whose cursor is behind them never
\* sees them, and is not told.
push(hub, event) ==
  LET sequence == hub.next_sequence + 1
      all == Append(hub.events, [sequence |-> sequence, event |-> event])
      overflow == IF Len(all) > MaxEvents THEN Len(all) - MaxEvents ELSE 0
  IN  [next_sequence |-> sequence, events |-> SubSeq(all, overflow + 1, Len(all))]

\* Where the events behind a reader's cursor are in the ring.
events_after(hub, sequence) ==
  {k \in DOMAIN hub.events : hub.events[k].sequence > sequence}

current_sequence(hub) == hub.next_sequence

=============================================================================
