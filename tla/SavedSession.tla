---------------------------- MODULE SavedSession ----------------------------
(***************************************************************************)
(* The session and its two files, session.json and session-history.json,   *)
(* over stops, crashes and restarts of the server: when it is saved        *)
(* (src/app/session.rs), what a save writes in which order                 *)
(* (src/persist/io.rs, snapshot.rs), and what a new process makes of it    *)
(* (src/persist/restore.rs, App::new in src/app/mod.rs).                   *)
(*                                                                         *)
(* What changes the session is module Session, all of it.  The actors are  *)
(* the loop, which serves requests and starts saves, the one thread a save *)
(* runs on, and whatever kills the process.  Raw pane ids start again from *)
(* 1 in every process, so a pane is known across processes by `who`: the   *)
(* process and the raw id it was created with.  The history of a pane is   *)
(* that name.  Every pane has a history; agents that are resumed, files of *)
(* another version and the sidebar are left out.                           *)
(*                                                                         *)
(* An operator whose name extends another's is that operator with a        *)
(* plausible slip in it.  Nothing uses it; it shows, put in the place of   *)
(* the right one, that a property notices.                                 *)
(***************************************************************************)
EXTENDS Session

CONSTANTS
  MaxRequests,   \* bounds of the model: requests over the whole life,
  MaxProcesses   \* and processes

ASSUME SavedSessionAssumption == {MaxRequests, MaxProcesses} \subseteq Nat

VARIABLES
  who,           \* history: the pane behind every raw id
  replayed,      \* whose history each restored pane began with
  missing,       \* history: the saved panes whose program did not start
  server,        \* "running", "stopping", "saving", "stopped" or "killed"
  process,       \* history: how many there were
  requests,      \* history: how many were served
  dirty,         \* session_dirty
  deadline,      \* session_save_deadline is set
  saves,         \* the save on the thread and the one on the loop, if any
  failed,        \* history: the last save could not write a file
  keep_history,  \* persist_pane_history
  disk           \* the two files

pane_vars == <<who, replayed, missing>>
life == <<server, process>>
saved_vars == <<vars, pane_vars, life, requests, dirty, deadline, saves,
          failed, keep_history, disk>>

NoSaves == [thread |-> {}, loop |-> {}]

SavedInit ==
  /\ Init
  /\ who = <<>> /\ replayed = <<>> /\ missing = {}
  /\ server = "running" /\ process = 1 /\ requests = 0
  /\ dirty = FALSE /\ deadline = FALSE /\ saves = NoSaves /\ failed = FALSE
  /\ keep_history \in BOOLEAN
  /\ disk = [session |-> {}, history |-> {}]

-----------------------------------------------------------------------------
(* Requests.                                                               *)

Serving == server = "running" /\ saves.loop = {}

\* Every handler that changes what is saved marks the session, but for the
\* close that only selects the workspace and asks; some mark it in any case.
structure == <<app.workspaces, app.active>>

Request ==
  /\ Serving /\ requests < MaxRequests
  /\ Next
  /\ \/ dirty' = TRUE
     \/ structure' = structure /\ UNCHANGED dirty
  /\ who' = [p \in Live(app') |-> Get(who, p, <<process, p>>)]
  /\ requests' = requests + 1
  /\ UNCHANGED <<replayed, missing, life, deadline, saves, failed, keep_history, disk>>

\* The reload of a configuration with or without experimental.pane_history.
Reload(keep) ==
  /\ Serving /\ requests < MaxRequests
  /\ keep_history' = keep
  /\ disk' = IF keep THEN disk ELSE [disk EXCEPT !.history = {}]
  /\ requests' = requests + 1
  /\ UNCHANGED <<vars, pane_vars, life, dirty, deadline, saves, failed>>

-----------------------------------------------------------------------------
(* Saving.                                                                 *)

capture ==
  [workspaces |-> app.workspaces, active |-> app.active, selected |-> app.selected,
   who |-> who, process |-> process]

capture_history ==
  [panes |-> [w \in DOMAIN app.workspaces |->
                [t \in DOMAIN app.workspaces[w].tabs |->
                   [p \in ToSet(app.workspaces[w].tabs[t].panes) |-> who[p]]]],
   process |-> process]

\* What the files will hold: without a workspace both are removed, and without
\* history its file is.
captured ==
  IF app.workspaces = <<>> THEN [session |-> {}, history |-> {}]
  ELSE [session |-> {capture},
        history |-> IF keep_history THEN {capture_history} ELSE {}]

SaveOn(place) == saves' = [saves EXCEPT ![place] = {[files |-> captured, at |-> "session"]}]

sync_session_save_schedule ==
  /\ Serving /\ dirty
  /\ dirty' = FALSE /\ deadline' = TRUE
  /\ UNCHANGED <<vars, pane_vars, life, requests, saves, failed,
                 keep_history, disk>>

\* The deadline is there.  A save that is still running puts it off; without a
\* thread the loop saves itself.
start_background_session_save_dropping ==
  /\ Serving /\ deadline /\ deadline' = FALSE
  /\ IF saves.thread = {}
     THEN (SaveOn("thread") \/ SaveOn("loop")) /\ failed' = FALSE
     ELSE UNCHANGED <<saves, failed>>
  /\ UNCHANGED <<vars, pane_vars, life, requests, dirty, keep_history, disk>>
start_background_session_save ==
  /\ Serving /\ deadline /\ saves.thread = {}
  /\ SaveOn("thread") \/ SaveOn("loop")
  /\ deadline' = FALSE /\ failed' = FALSE
  /\ UNCHANGED <<vars, pane_vars, life, requests, dirty, keep_history, disk>>

\* Each file is replaced at once: it is written beside and renamed.
Write(place) ==
  \E job \in saves[place] :
    /\ disk' = [disk EXCEPT ![job.at] = job.files[job.at]]
    /\ saves' = [saves EXCEPT ![place] =
                   IF job.at = "session" THEN {[job EXCEPT !.at = "history"]} ELSE {}]
    /\ UNCHANGED <<vars, pane_vars, life, requests, dirty, deadline,
                   failed, keep_history>>

\* An error at one file leaves the other one as it is.
WriteFails(place) ==
  /\ saves[place] # {}
  /\ saves' = [saves EXCEPT ![place] = {}]
  /\ failed' = TRUE
  /\ UNCHANGED <<vars, pane_vars, life, requests, dirty, deadline,
                 keep_history, disk>>

-----------------------------------------------------------------------------
(* The state a process begins with.                                        *)

\* reserve_workspace_ids
NextId(workspaces) ==
  1 + Max({0} \cup {workspaces[w].id : w \in DOMAIN workspaces})

\* App::new with the session that was found; its active workspace is found by
\* its place.
Become(workspaces, active, selected) ==
  LET left == Len(workspaces)
      a == [workspaces |-> workspaces,
            active |-> IF active <= left THEN active ELSE None,
            selected |-> IF left = 0 THEN 1 ELSE Smaller(selected, left),
            previous_pane_focus |-> NoTarget,
            public_pane_id_aliases |-> <<>>, mail |-> <<>>]
  IN  /\ app' = a
      /\ next_workspace_id' = NextId(workspaces)
      /\ told' = {}
      /\ owner' = [id \in public_pane_ids(a) |-> pane_with_id(a, id)]

-----------------------------------------------------------------------------
(* The end of a process.                                                   *)

Stop ==
  /\ Serving
  /\ server' = "stopping"
  /\ UNCHANGED <<vars, pane_vars, process, requests, dirty, deadline,
                 saves, failed, keep_history, disk>>

\* It waits for the thread, then saves once more.
save_session_now_at_once ==
  /\ server = "stopping"
  /\ SaveOn("loop")
  /\ server' = "saving" /\ deadline' = FALSE /\ failed' = FALSE
  /\ UNCHANGED <<vars, pane_vars, process, requests, dirty, keep_history, disk>>
save_session_now ==
  /\ server = "stopping" /\ saves.thread = {}
  /\ SaveOn("loop")
  /\ server' = "saving" /\ deadline' = FALSE /\ failed' = FALSE
  /\ UNCHANGED <<vars, pane_vars, process, requests, dirty, keep_history, disk>>

Exit ==
  /\ server = "saving" /\ saves.loop = {}
  /\ server' = "stopped"
  /\ UNCHANGED <<vars, pane_vars, process, requests, dirty, deadline,
                 saves, failed, keep_history, disk>>

\* Nothing of a killed process is left but its files.
Kill ==
  /\ server \in {"running", "stopping", "saving"}
  /\ server' = "killed"
  /\ Become(<<>>, None, 1) /\ next_pane_id' = 1 /\ who' = <<>> /\ replayed' = <<>> /\ missing' = {}
  /\ dirty' = FALSE /\ deadline' = FALSE /\ saves' = NoSaves /\ failed' = FALSE
  /\ UNCHANGED <<process, requests, keep_history, disk>>

-----------------------------------------------------------------------------
(* The next process.                                                       *)

\* The panes of a snapshot get new raw ids in the order of its layouts.
reverse_id_map(snapshot) ==
  FlattenSeq([w \in DOMAIN snapshot.workspaces |->
    LET ws == snapshot.workspaces[w]
    IN  FlattenSeq([t \in DOMAIN ws.tabs |-> ws.tabs[t].panes])])
id_map(snapshot) == AntiFunction(reverse_id_map(snapshot))
SavedPanes(snapshot) == ToSet(reverse_id_map(snapshot))

\* What is left of a list when some of its elements did not come back.
Rest(s, gone) == Kept(s, {k \in DOMAIN s : s[k] \in gone})[Len(s)]

\* The focus and the root of a tab, or its first pane if they did not start.
resolve_restored_pane_unchecked(old, left, ids) == ids[old]
resolve_restored_pane(old, left, ids) ==
  IF old \in ToSet(left) THEN ids[old] ELSE ids[Head(left)]

restore_tab(tab, failing, ids) ==
  LET left == Rest(tab.panes, failing)
  IN  [tab EXCEPT !.panes = [k \in DOMAIN left |-> ids[left[k]]],
                  !.focused = resolve_restored_pane(@, left, ids),
                  !.root_pane = resolve_restored_pane(@, left, ids)]

\* The public numbers go with the panes, by the raw ids they were saved under.
restored_numbers_by_new_id(ws, alive, olds) ==
  [p \in alive |-> Get(ws.public_pane_numbers, p, ws.next_public_pane_number + p)]
restored_numbers(ws, alive, olds) == [p \in alive |-> ws.public_pane_numbers[olds[p]]]

\* A tab without panes is dropped; the next numbers are as high as they were.
restore_workspace(ws, failing, snapshot) ==
  LET left == Rest(ws.tabs, {tab \in ToSet(ws.tabs) : ToSet(tab.panes) \subseteq failing})
      with == [ws EXCEPT !.tabs = [t \in DOMAIN left |->
                                     restore_tab(left[t], failing, id_map(snapshot))]]
  IN  [with EXCEPT !.active_tab = Smaller(@, Len(with.tabs)),
                   !.public_pane_numbers =
                      restored_numbers(ws, PanesOf(with), reverse_id_map(snapshot))]

\* `failing` are the panes whose program does not start, `unlinked` the ids of
\* the workspaces whose checkout is no longer in its repository.
restore(snapshot, failing, unlinked) ==
  LET gone == {ws \in ToSet(snapshot.workspaces) : PanesOf(ws) \subseteq failing}
      left == Rest(snapshot.workspaces, gone)
  IN  [w \in DOMAIN left |->
         [restore_workspace(left[w], failing, snapshot) EXCEPT
            !.space = IF left[w].id \in unlinked THEN "none" ELSE @]]

\* The history a pane begins with, found by the places of its workspace and
\* tab in the snapshot and its raw id there.
saved_histories(snapshot, history) ==
  LET At(p) ==
        LET w == CHOOSE w \in DOMAIN snapshot.workspaces : p \in PanesOf(snapshot.workspaces[w])
        IN  <<w, find_tab_index_for_pane(snapshot.workspaces[w], p)>>
      Saved(p) ==
        LET w == At(p)[1]  t == At(p)[2]
        IN  IF w \in DOMAIN history.panes /\ t \in DOMAIN history.panes[w]
            THEN history.panes[w][t] ELSE <<>>
  IN  [p \in {q \in SavedPanes(snapshot) : q \in DOMAIN Saved(q)} |-> Saved(p)[p]]

StartAgain ==
  /\ server \in {"stopped", "killed"} /\ process < MaxProcesses
  /\ server' = "running" /\ process' = process + 1
  /\ dirty' = FALSE /\ deadline' = FALSE /\ saves' = NoSaves /\ failed' = FALSE
  /\ UNCHANGED <<requests, keep_history, disk>>

StartEmpty ==
  /\ StartAgain /\ disk.session = {}
  /\ Become(<<>>, None, 1)
  /\ next_pane_id' = 1 /\ who' = <<>> /\ replayed' = <<>> /\ missing' = {}

Start(snapshot, failing, unlinked) ==
  LET workspaces == restore(snapshot, failing, unlinked)
      old == reverse_id_map(snapshot)
      alive == {p \in DOMAIN old : old[p] \notin failing}
  IN  /\ StartAgain
      /\ Become(workspaces, snapshot.active, snapshot.selected)
      /\ next_pane_id' = Len(old) + 1
      /\ missing' = failing
      /\ who' = [p \in alive |-> snapshot.who[old[p]]]
      /\ replayed' =
           IF ~keep_history \/ disk.history = {} THEN <<>>
           ELSE LET found == saved_histories(snapshot, CHOOSE h \in disk.history : TRUE)
                IN  [p \in {q \in alive : old[q] \in DOMAIN found} |-> found[old[p]]]

Checkouts(snapshot) ==
  {ws.id : ws \in {v \in ToSet(snapshot.workspaces) : v.space # "none"}}

Restart ==
  \/ StartEmpty
  \/ \E snapshot \in disk.session :
       \E failing \in SUBSET SavedPanes(snapshot), unlinked \in SUBSET Checkouts(snapshot) :
         Start(snapshot, failing, unlinked)

-----------------------------------------------------------------------------

Writes(place) == Write(place) \/ WriteFails(place)
Save == sync_session_save_schedule \/ start_background_session_save \/ save_session_now
Writing == \E place \in {"thread", "loop"} : Writes(place)

SavedNext ==
  \/ Request \/ \E keep \in BOOLEAN : Reload(keep)
  \/ Save \/ Writing \/ Stop \/ Exit \/ Kill \/ Restart

\* The loop comes round and the thread gets its turn; nobody has to stop.
Fairness ==
  /\ WF_saved_vars(sync_session_save_schedule) /\ WF_saved_vars(start_background_session_save)
  /\ WF_saved_vars(Writing)

SavedSpec == SavedInit /\ [][SavedNext]_saved_vars /\ Fairness

-----------------------------------------------------------------------------
(* Properties.                                                             *)

Snapshot(x) ==
  /\ x.process \in 1..process
  /\ x.workspaces # <<>> /\ DOMAIN x.who = SavedPanes(x)

\* The types, and the workspaces are well formed in memory and in the file,
\* restored in part or not (Workspace::assert_invariants_for_test).
SavedTypeOK ==
  /\ \A w \in DOMAIN app.workspaces :
       WorkspaceInvariant(app.workspaces[w]) /\ app.workspaces[w].id < next_workspace_id
  /\ app.active \in {None} \cup DOMAIN app.workspaces
  /\ app.selected \in {1} \cup DOMAIN app.workspaces
  /\ Live(app) \subseteq 1..(next_pane_id - 1)
  /\ DOMAIN who = Live(app) /\ IsInjective(who)
  /\ server \in {"running", "stopping", "saving", "stopped", "killed"}
  /\ {dirty, deadline, failed, keep_history} \subseteq BOOLEAN
  /\ \A place \in {"thread", "loop"} : \A job \in saves[place] : job.at \in {"session", "history"}
  /\ saves.thread = {} \/ saves.loop = {}
  /\ \A x \in disk.session : Snapshot(x)

\* A server that was stopped, and not killed, leaves the session it had in its
\* files, whatever saves were under way or due, and no history file of a user
\* who does not want one: save_session_now joins the thread, so that an older
\* snapshot is not written over a newer one.
StopLosesNothing == server = "stopped" /\ ~failed => disk = captured

\* What the session is to its users: public ids and their order.
Numbers(ws, panes) == [k \in DOMAIN panes |-> ws.public_pane_numbers[panes[k]]]
Shape(ws) ==
  [id |-> ws.id, active_tab |-> ws.active_tab,
   next |-> <<ws.next_public_pane_number, ws.next_public_tab_number>>,
   tabs |-> [t \in DOMAIN ws.tabs |->
               [number |-> ws.tabs[t].number, panes |-> Numbers(ws, ws.tabs[t].panes),
                marked |-> Numbers(ws, <<ws.tabs[t].focused, ws.tabs[t].root_pane>>)]]]
Alike(workspaces, others) ==
  /\ DOMAIN workspaces = DOMAIN others
  /\ \A w \in DOMAIN others : Shape(workspaces[w]) = Shape(others[w])

Place(ws, tab, p) == <<ws.id, tab.number, ws.public_pane_numbers[p]>>
Places(workspaces, panes) ==
  UNION {UNION {{Place(ws, tab, p) : p \in panes \cap ToSet(tab.panes)}
                 : tab \in ToSet(ws.tabs)} : ws \in ToSet(workspaces)}
Focuses(workspaces, panes) ==
  UNION {{Place(ws, tab, tab.focused) : tab \in {u \in ToSet(ws.tabs) : u.focused \in panes}}
          : ws \in ToSet(workspaces)}

BeginsWith(saved) ==
  LET started == SavedPanes(saved) \ missing'
  IN  /\ missing' = {} => /\ Alike(app'.workspaces, saved.workspaces)
                         /\ app'.active = saved.active
                         /\ app'.selected = saved.selected
      /\ Places(app'.workspaces, DOMAIN who') = Places(saved.workspaces, started)
      /\ Focuses(saved.workspaces, started) \subseteq Focuses(app'.workspaces, DOMAIN who')
      /\ (\A x \in disk.history : x.process = saved.process) =>
           \A p \in DOMAIN replayed' : replayed'[p] = who'[p]

\* A process begins with the session that the file has: all of it, up to raw
\* ids, when every program starts; and otherwise no pane that did start has
\* another public id, place or focus for it (restore_workspace, whose ids go
\* from raw to raw over public).  And no pane shows the history of another
\* one, unless a process was killed or failed between its first session.json
\* and the history file beside it.
RestoresWhatWasSaved ==
  [][process' # process => \A saved \in disk.session : BeginsWith(saved)]_saved_vars

\* A change is in session.json in the end, if nobody stops the server and no
\* file fails to be written, even if it is made while an older one is being
\* saved.  The selected workspace is not part of it: a refused close moves it
\* without a save.
Unselected(session) == {[x EXCEPT !.selected = 1] : x \in session}
SavedInTheEnd ==
  dirty ~> \/ Unselected(disk.session) = Unselected(captured.session)
           \/ server # "running" \/ failed

=============================================================================
