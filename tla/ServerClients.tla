--------------------------- MODULE ServerClients ---------------------------
(***************************************************************************)
(* Who is attached to the headless server, and to what: the client         *)
(* registry of src/server/headless.rs and src/server/clients.rs.  Every    *)
(* handler runs to its end on the main loop.  A client's events come from  *)
(* its reader thread, in order, and keep coming after the server has       *)
(* dropped the client; its last is ClientDisconnected.                     *)
(*                                                                         *)
(* A full client shows the whole application; the client last used is the  *)
(* foreground client, whose size the shared panes take.  A terminal client *)
(* (attach, control or observe) shows one terminal; an attached one owns   *)
(* it, and the terminal takes its size and is locked against resizing.     *)
(* Before it has asked for its terminal it is pending.  The server takes   *)
(* the events of every client in any order: the foreground client may be   *)
(* a pending or an attached one that sent events of the full kind, which   *)
(* the repository's own client does not do.                                *)
(*                                                                         *)
(* An activity stamp is only ever compared, so `activity` is the relation  *)
(* of who was used before whom.  Themes, graphics, key bindings and the    *)
(* content of messages are left out; ClientStream has the rendering of one *)
(* client.                                                                 *)
(*                                                                         *)
(* An operator whose name extends another's is that operator with a        *)
(* plausible slip in it.  Nothing uses it; it shows, put in the place of   *)
(* the right one, that a property notices.                                 *)
(***************************************************************************)
EXTENDS Naturals, Sequences, FiniteSets, PartialMaps

CONSTANTS
  Clients,    \* client ids, each given to one connection
  Terminals,  \* terminal ids, each given to one terminal
  Sizes,      \* the sizes of clients
  MinSize     \* MIN_COLS x MIN_ROWS

ASSUME SizeAssumption == MinSize \notin Sizes /\ Sizes # {}

VARIABLES
  server,        \* the registry, and what the handlers change with it
  dead,          \* terminals that were and are no more
  peer,          \* each connection: "none", "open", "done"
  needs_render,  \* needs_full_render of the main loop
  handoff,       \* a live handoff has succeeded; the old server still runs
  drawn          \* history: the shared size at which the last render drew each full client

vars == <<server, dead, peer, needs_render, handoff, drawn>>

Modes == {"app", "attach", "observe"}
Connections ==
  [mode : Modes, terminal : SUBSET Terminals, pending : BOOLEAN,
   writer : {"open", "broken", "none"}, size : Sizes]

is_full_app(client) == client.mode = "app" /\ ~client.pending
FullApps(s) == {c \in DOMAIN s.clients : is_full_app(s.clients[c])}
Streams(s, t) == {c \in DOMAIN s.clients : s.clients[c].terminal = {t}}

-----------------------------------------------------------------------------
(* What the handlers do to the registry `s`.                               *)

\* The client is the last one used.
stamp(s, c) ==
  [s EXCEPT !.activity = {pair \in @ : pair[1] # c}
                           \cup ((DOMAIN s.clients \ {c}) \X {c})]

\* latest_app_client: the full client used last, if there is one.
latest_app_client(s) ==
  {c \in FullApps(s) : \A d \in FullApps(s) \ {c} : <<d, c>> \in s.activity}

sync_foreground(s) ==
  IF s.foreground \cap DOMAIN s.clients = {}
  THEN [s EXCEPT !.foreground = {}, !.effective = MinSize]
  ELSE [s EXCEPT !.effective = s.clients[CHOOSE c \in s.foreground : TRUE].size]

\* promote_client_to_foreground
promote(s, c) ==
  IF c \notin DOMAIN s.clients THEN s
  ELSE sync_foreground([stamp(s, c) EXCEPT !.foreground = {c}])

promote_latest(s) == sync_foreground([s EXCEPT !.foreground = latest_app_client(s)])

\* The layout gives every terminal of a pane its size, unless it is locked.
fit_panes(s) ==
  [s EXCEPT !.sizes = [t \in Terminals |-> IF t \in s.terminals \ s.locks
                                           THEN s.effective ELSE @[t]]]

\* resize_shared_runtime_to_effective_size
resize_shared(s) == IF s.foreground = {} THEN s ELSE fit_panes(s)

\* clients.remove, with its stamp.
forget_keeping_stamp(s, c) == [s EXCEPT !.clients = Without(@, c)]
forget(s, c) ==
  [s EXCEPT !.clients = Without(@, c),
            !.activity = {pair \in @ : c \notin {pair[1], pair[2]}}]

\* An owner's terminals lose it, and their locks if they are still there.
disown(s, owned) ==
  [s EXCEPT !.owners = [t \in DOMAIN @ \ owned |-> @[t]],
            !.locks = @ \ (owned \cap s.terminals)]

remove_client(s, c) ==
  LET owned == IF s.clients[c].mode = "attach" THEN s.clients[c].terminal ELSE {}
      gone == disown(forget(s, c), owned)
  IN IF s.foreground = {c} THEN promote_latest(gone) ELSE gone

\* client_removal_needs_shared_resize
needs_shared_resize(s, c) ==
  s.foreground = {c} \/ (s.clients[c].mode # "app" /\ s.foreground # {})

\* remove_client_and_resize_if_needed, and every path that tells a client
\* to go before it: whether telling it fails makes no difference.
drop(s, c) ==
  IF c \notin DOMAIN s.clients THEN s
  ELSE IF needs_shared_resize(s, c) THEN resize_shared(remove_client(s, c))
  ELSE remove_client(s, c)

\* All of a set, in some order.
Orders(set) == {order \in [1..Cardinality(set) -> set] :
                  \A i, j \in DOMAIN order : order[i] = order[j] => i = j}

drop_all(s, order) ==
  LET left[k \in 0..Len(order)] ==
        IF k = 0 THEN s ELSE drop(left[k - 1], order[k])
  IN  left[Len(order)]

remove_all(s, order) ==
  LET left[k \in 0..Len(order)] ==
        IF k = 0 THEN s ELSE remove_client(left[k - 1], order[k])
  IN  left[Len(order)]

\* The tail of attach_terminal_client and of observe_terminal_client: a
\* pending client shows its terminal, and leaves the foreground if its events
\* had brought it there.
turned(s, c, t, mode) ==
  [stamp(s, c) EXCEPT !.clients[c].mode = mode, !.clients[c].pending = FALSE,
                      !.clients[c].terminal = {t}]
become_terminal_client_in_place(s, c, t, mode) == turned(s, c, t, mode)
become_terminal_client(s, c, t, mode) ==
  IF s.foreground = {c} THEN promote_latest(turned(s, c, t, mode)) ELSE turned(s, c, t, mode)

own_terminal(s, c, t) ==
  [become_terminal_client(s, c, t, "attach") EXCEPT
     !.owners = Put(@, t, c), !.locks = @ \cup {t}, !.sizes[t] = s.clients[c].size]

\* attach_terminal_client, for a pending client.
attach_keeping_owner(s, c, t, takeover) ==
  IF t \notin s.terminals \/ (t \in DOMAIN s.owners /\ ~takeover) THEN drop(s, c)
  ELSE own_terminal(s, c, t)
attach(s, c, t, takeover) ==
  IF t \notin s.terminals \/ (t \in DOMAIN s.owners /\ ~takeover) THEN drop(s, c)
  ELSE own_terminal(IF t \in DOMAIN s.owners THEN drop(s, s.owners[t]) ELSE s, c, t)

-----------------------------------------------------------------------------
Init ==
  \E live \in SUBSET Terminals, size \in Sizes :
    /\ server = [clients |-> <<>>, activity |-> {}, foreground |-> {},
                 effective |-> MinSize, owners |-> <<>>, locks |-> {}, terminals |-> live,
                 sizes |-> [t \in Terminals |-> IF t \in live THEN size ELSE MinSize]]
    /\ dead = {} /\ peer = [c \in Clients |-> "none"]
    /\ needs_render = TRUE /\ handoff = FALSE
    /\ drawn = [c \in Clients |-> MinSize]

\* A handler leaves the registry `s`; `redraw` says that it wants a render.
Handled(s, redraw) ==
  /\ server' = s /\ needs_render' = (needs_render \/ redraw)
  /\ UNCHANGED <<dead, handoff, drawn>>

-----------------------------------------------------------------------------
(* Events of client connections.                                           *)

Refusing_nobody == FALSE
Refusing == handoff

ClientConnected(c, size, direct) ==
  /\ peer[c] = "none"
  /\ peer' = [peer EXCEPT ![c] = "open"]
  /\ IF Refusing THEN Handled(server, FALSE)
     ELSE LET added == [stamp(server, c) EXCEPT
                !.clients = Put(@, c, [mode |-> "app", terminal |-> {}, pending |-> direct,
                                       writer |-> "open", size |-> size]),
                !.foreground = IF direct THEN @ ELSE {c}]
          IN Handled(resize_shared(sync_foreground(added)), TRUE)

\* A client asks for a terminal.  What it names may be gone, and one that is
\* not pending is sent away.
ClientAsks(c, t, mode, takeover) ==
  /\ peer[c] = "open" /\ ~Refusing
  /\ UNCHANGED peer
  /\ IF ~(c \in DOMAIN server.clients /\ server.clients[c].pending)
     THEN Handled(drop(server, c), FALSE)
     ELSE IF mode = "attach"
     THEN LET s == attach(server, c, t, takeover)
          IN Handled(s, c \in DOMAIN s.clients)
     ELSE IF t \notin server.terminals THEN Handled(drop(server, c), FALSE)
     ELSE Handled(become_terminal_client(server, c, t, "observe"), TRUE)

InMode(c, mode) == c \in DOMAIN server.clients /\ server.clients[c].mode = mode

\* Bytes or a pasted picture of an attached client, for its terminal; anything
\* an observer sends.
TerminalInput(c) ==
  /\ peer[c] = "open" /\ ~Refusing
  /\ InMode(c, "attach") \/ InMode(c, "observe")
  /\ Handled(server, InMode(c, "attach"))
  /\ UNCHANGED peer

\* The client is told that it has detached: its writer is given up, or turns
\* out to be gone.
detach_by_key(s, c) ==
  IF c \notin DOMAIN s.clients THEN s
  ELSE IF s.clients[c].writer = "broken" THEN drop(s, c)
  ELSE [s EXCEPT !.clients[c].writer = "none"]

\* handle_client_input_events: a key, the mouse or a paste uses the client,
\* also the key that detaches; reports of its focus or its colours do not.
ClientInput(c, used, detach) ==
  /\ peer[c] = "open" /\ ~Refusing /\ (detach => used)
  /\ ~InMode(c, "observe")
  /\ UNCHANGED peer
  /\ LET first == IF used THEN promote(server, c) ELSE server
         fitted == IF first.foreground = server.foreground THEN first ELSE resize_shared(first)
         synced == sync_foreground(fitted)
     IN Handled(IF detach THEN detach_by_key(synced, c) ELSE synced, used /\ ~detach)

ClientResize(c, size) ==
  /\ peer[c] = "open" /\ ~Refusing
  /\ UNCHANGED peer
  /\ IF c \notin DOMAIN server.clients THEN Handled(resize_shared(server), TRUE)
     ELSE LET sized == [server EXCEPT !.clients[c].size = size]
              client == server.clients[c]
          IN IF client.mode = "app" THEN Handled(resize_shared(promote(sized, c)), TRUE)
             ELSE IF client.mode = "observe" THEN Handled(sized, TRUE)
             ELSE Handled([sized EXCEPT !.sizes =
                    [t \in Terminals |-> IF t \in client.terminal \cap server.terminals
                                         THEN size ELSE @[t]]], TRUE)

\* ClientDetach, and a reader that came to the end of its connection.
ClientDetach(c) ==
  /\ peer[c] = "open" /\ ~Refusing
  /\ UNCHANGED peer
  /\ Handled(drop(server, c), TRUE)

ClientDisconnected_if_known(c) ==
  /\ peer[c] = "open"
  /\ peer' = [peer EXCEPT ![c] = "done"]
  /\ Handled(drop(server, c), c \in DOMAIN server.clients)
ClientDisconnected(c) ==
  /\ peer[c] = "open"
  /\ peer' = [peer EXCEPT ![c] = "done"]
  /\ Handled(drop(server, c), TRUE)

\* Its writer thread gives up, and the registry does not know yet.
WriterBreaks(c) ==
  /\ c \in DOMAIN server.clients /\ server.clients[c].writer = "open"
  /\ server' = [server EXCEPT !.clients[c].writer = "broken"]
  /\ UNCHANGED <<dead, peer, needs_render, handoff, drawn>>

-----------------------------------------------------------------------------
(* What the server itself does.                                            *)

Broken(s) == {c \in DOMAIN s.clients : s.clients[c].writer = "broken"}

\* send_to_all_clients: those it cannot reach are dropped, in no order.
SendToAll ==
  /\ \E order \in Orders(Broken(server)) : Handled(drop_all(server, order), FALSE)
  /\ UNCHANGED peer

\* An agent's report, a request or a new configuration: the foreground
\* client's state is taken over again.
StateChanges(redraw) ==
  /\ Handled(sync_foreground(server), redraw)
  /\ UNCHANGED peer

\* A pane is opened; until it is laid out its terminal has some size.
TerminalStarts(t, size) ==
  /\ t \notin server.terminals \cup dead
  /\ Handled([server EXCEPT !.terminals = @ \cup {t}, !.sizes[t] = size], TRUE)
  /\ UNCHANGED peer

\* A pane's process ends: its terminal goes, then the clients that show it.
PaneDied(t) ==
  /\ t \in server.terminals
  /\ dead' = dead \cup {t} /\ needs_render' = TRUE
  /\ LET s == [server EXCEPT !.terminals = @ \ {t}, !.sizes[t] = MinSize]
     IN \E order \in Orders(Streams(s, t)) : server' = drop_all(s, order)
  /\ UNCHANGED <<peer, handoff, drawn>>

\* A pane is closed by a request or a key, a popup also unlocks.
PaneCloses(t, popup) ==
  /\ t \in server.terminals
  /\ dead' = dead \cup {t} /\ needs_render' = TRUE
  /\ server' = [server EXCEPT !.terminals = @ \ {t}, !.sizes[t] = MinSize,
                              !.locks = IF popup THEN @ \ {t} ELSE @]
  /\ UNCHANGED <<peer, handoff, drawn>>

\* The clients render_and_stream draws for, and those it then drops: the
\* ones it cannot reach and the ones whose terminal is gone.
Targets == {c \in DOMAIN server.clients : /\ server.clients[c].writer # "none"
                                          /\ ~server.clients[c].pending}
Undrawable == {c \in Targets : \/ server.clients[c].writer = "broken"
                               \/ ~(server.clients[c].terminal \subseteq server.terminals)}

\* render_and_stream: the frame of a full foreground client also fits the panes.
Render ==
  LET fitted == IF server.foreground \cap Targets \cap FullApps(server) = {} THEN server
                ELSE fit_panes(server)
  IN /\ needs_render /\ needs_render' = FALSE
     /\ drawn' = [c \in Clients |-> IF c \in Targets \cap FullApps(server)
                                   THEN server.effective ELSE MinSize]
     /\ \E order \in Orders(Undrawable) : server' = drop_all(fitted, order)
     /\ UNCHANGED <<dead, peer, handoff>>

\* perform_live_handoff, as far as the clients go: all are told to come
\* back, then it succeeds, or is rolled back.
LiveHandoff(succeeds) ==
  /\ ~handoff
  /\ handoff' = succeeds /\ needs_render' = TRUE
  /\ \E order \in Orders(DOMAIN server.clients) :
       LET emptied == remove_all(server, order)
       IN server' = resize_shared(sync_foreground([emptied EXCEPT !.foreground = {}]))
  /\ UNCHANGED <<dead, peer, drawn>>

Next ==
  \/ \E c \in Clients :
       \/ \E size \in Sizes, direct \in BOOLEAN : ClientConnected(c, size, direct)
       \/ \E t \in Terminals, mode \in {"attach", "observe"}, takeover \in BOOLEAN :
            ClientAsks(c, t, mode, takeover)
       \/ \E used, detach \in BOOLEAN : ClientInput(c, used, detach)
       \/ TerminalInput(c)
       \/ \E size \in Sizes : ClientResize(c, size)
       \/ ClientDetach(c) \/ ClientDisconnected(c) \/ WriterBreaks(c)
  \/ \E t \in Terminals :
       \/ \E size \in Sizes : TerminalStarts(t, size)
       \/ PaneDied(t)
       \/ \E popup \in BOOLEAN : PaneCloses(t, popup)
  \/ SendToAll \/ Render
  \/ \E redraw \in BOOLEAN : StateChanges(redraw)
  \/ \E succeeds \in BOOLEAN : LiveHandoff(succeeds)

Spec == Init /\ [][Next]_vars

-----------------------------------------------------------------------------
(* Properties.                                                             *)

TypeOK ==
  /\ DOMAIN server.clients \subseteq Clients
  /\ \A c \in DOMAIN server.clients : server.clients[c] \in Connections
  /\ server.activity \subseteq (DOMAIN server.clients) \X (DOMAIN server.clients)
  /\ server.foreground \in SUBSET Clients /\ server.effective \in Sizes \cup {MinSize}
  /\ DOMAIN server.owners \subseteq Terminals
  /\ \A t \in DOMAIN server.owners : server.owners[t] \in Clients
  /\ server.locks \subseteq Terminals /\ server.terminals \subseteq Terminals
  /\ server.sizes \in [Terminals -> Sizes \cup {MinSize}]
  /\ dead \subseteq Terminals \ server.terminals
  /\ peer \in [Clients -> {"none", "open", "done"}]
  /\ {needs_render, handoff} \subseteq BOOLEAN
  /\ drawn \in [Clients -> Sizes \cup {MinSize}]

\* Clients, owners and locks agree, through takeovers, refusals, deaths and
\* broken sends: terminal_attach_owners names the one client attached to each
\* terminal, a live terminal is locked against the shared layout exactly while
\* it has an owner (direct_attach_resize_locks), and when nothing is left to
\* draw nobody who has not been told to go looks at a terminal that is gone.
AttachmentsAgree ==
  /\ \A t \in DOMAIN server.owners :
       /\ server.owners[t] \in DOMAIN server.clients
       /\ server.clients[server.owners[t]].mode = "attach"
       /\ server.clients[server.owners[t]].terminal = {t}
  /\ \A c \in DOMAIN server.clients : server.clients[c].mode = "attach" =>
       \A t \in server.clients[c].terminal : Get(server.owners, t, {}) = c
  /\ \A t \in server.terminals : t \in server.locks <=> t \in DOMAIN server.owners
  /\ ~needs_render => \A c \in DOMAIN server.clients :
       server.clients[c].writer # "none" =>
         server.clients[c].terminal \subseteq server.terminals

\* A part of TerminalsFit: foreground_client_id, on which many handlers have a say: while there is a
\* full client somebody is in the foreground; no full client was used after the
\* one that is, which is never an observer, whatever it was when it got there;
\* and the effective size is its size (that of an attached client is taken over
\* with the next change).
ForegroundIsLastUsed ==
  /\ IF server.foreground = {} THEN FullApps(server) = {} /\ server.effective = MinSize
     ELSE \E c \in DOMAIN server.clients :
       /\ server.foreground = {c} /\ server.clients[c].mode # "observe"
       /\ \A d \in FullApps(server) \ {c} : <<d, c>> \in server.activity
       /\ server.clients[c].mode = "app" => server.effective = server.clients[c].size

\* The right client is in the foreground; and when nothing is left to draw, an
\* owned terminal has its owner's size and, with a full client in the
\* foreground, the others have that client's, wherever the last resize came
\* from and whoever was dropped, or turned to one terminal, since.
TerminalsFit ==
  /\ ForegroundIsLastUsed
  /\ ~needs_render => \A t \in server.terminals :
       IF t \in DOMAIN server.owners
       THEN server.sizes[t] = server.clients[server.owners[t]].size
       ELSE \A c \in server.foreground \cap FullApps(server) :
              server.clients[c].writer = "open" => server.sizes[t] = server.clients[c].size

\* A client that was dropped, or told to go, and has not been reported yet.
Unreported == {c \in Clients : peer[c] = "open" /\
                 (c \in DOMAIN server.clients => server.clients[c].writer = "none")}

\* When a client is dropped in the middle of a render or a broadcast, which
\* ask for no render themselves, the full clients that remain are drawn
\* again in the end: its reader's report sees to it.  (A report that only takes
\* over the new size of an attached client in the foreground draws nobody.)
RemainingAreRedrawn ==
  ~needs_render /\ Unreported = {}
    /\ (\A c \in server.foreground : server.clients[c].mode # "attach")
  => \A c \in FullApps(server) : server.clients[c].writer = "open" =>
       drawn[c] = server.effective

\* After a successful handoff nobody is, or gets, attached to the old
\* server, whatever was still in the event queue.
NobodyAfterHandoff == handoff => server.clients = <<>> /\ server.owners = <<>>
=============================================================================
