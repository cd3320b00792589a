------------------------------- MODULE Session ------------------------------
(***************************************************************************)
(* The session: workspaces, the focus, the public ids of panes and the     *)
(* mailboxes kept under them (AppState in src/app/state.rs; the handlers   *)
(* of src/app/api and src/app/actions.rs that create, move, focus and      *)
(* close workspaces, tabs and panes).                                      *)
(*                                                                         *)
(* One application thread serves one request at a time, so a handler is    *)
(* one action, and the hard part is what a long sequence of them does to   *)
(* the indexes, ids and records that point into the session.  A zoomed tab *)
(* refuses pane.move and changes nothing else here: it is left out.        *)
(*                                                                         *)
(* An operator whose name extends another's (rekey_pane_forgotten)         *)
(* is that operator with a plausible slip in it.  Nothing uses it; it      *)
(* shows, put in the place of the right one, that a property notices.      *)
(***************************************************************************)
EXTENDS Workspaces

CONSTANTS
  MaxPanes,       \* bounds of the model: panes ever created,
  MaxWorkspaces,  \* workspaces ever created,
  MaxIds,         \* public ids that panes may have had,
  MaxTabNumber,   \* tab numbers,
  Addressees      \* and the panes anybody sends messages to

ASSUME SessionAssumption ==
  {MaxPanes, MaxWorkspaces, MaxIds, MaxTabNumber} \subseteq Nat \ {0}

VARIABLES
  app,                \* AppState, the fields below
  next_workspace_id,  \* NEXT_WORKSPACE_ID
  next_pane_id,       \* the counter behind PaneId::alloc
  told,               \* history: panes that were sent a message
  owner               \* history: every public pane id ever valid, and its pane

vars == <<app, next_workspace_id, next_pane_id, told, owner>>

None == 0                                \* no workspace, no pane
NoTarget == [workspace |-> None, pane |-> None]

Init ==
  /\ app = [workspaces |-> <<>>, active |-> None, selected |-> 1,
            previous_pane_focus |-> NoTarget,
            public_pane_id_aliases |-> <<>>,
            mail |-> <<>>]   \* msg_bus: under which id it keeps whose mailbox
  /\ next_workspace_id = 1 /\ next_pane_id = 1
  /\ told = {} /\ owner = <<>>

-----------------------------------------------------------------------------
(* Finding things.                                                         *)

Indices(a) == DOMAIN a.workspaces
Live(a) == UNION {PanesOf(a.workspaces[w]) : w \in Indices(a)}
WorkspaceOf(a, p) == CHOOSE w \in Indices(a) : p \in PanesOf(a.workspaces[w])

public_pane_id(a, p) ==
  LET ws == a.workspaces[WorkspaceOf(a, p)]
  IN  [workspace |-> ws.id, number |-> ws.public_pane_numbers[p]]

public_pane_ids(a) ==
  UNION {{[workspace |-> ws.id, number |-> ws.public_pane_numbers[p]] : p \in PanesOf(ws)}
         : ws \in ToSet(a.workspaces)}

\* The lookup by workspace id and pane number.
pane_with_id(a, id) ==
  LET named == {p \in Live(a) : public_pane_id(a, p) = id}
  IN  IF named = {} THEN None ELSE CHOOSE p \in named : TRUE

\* parse_pane_id: an alias decides alone, even for a pane that is gone.
parse_pane_id(a, id) ==
  LET p == Get(a.public_pane_id_aliases, id, None)
  IN  IF id \in DOMAIN a.public_pane_id_aliases
      THEN IF p \in Live(a) THEN p ELSE None
      ELSE pane_with_id(a, id)

current_pane_focus_target(a) ==
  IF a.active = None THEN NoTarget
  ELSE [workspace |-> a.workspaces[a.active].id,
        pane |-> focused_pane_id(a.workspaces[a.active])]

-----------------------------------------------------------------------------
(* Focus.                                                                  *)

\* record_pane_focus_change and record_pane_focus_after_navigation.
record_pane_focus(a, previous, target) ==
  IF previous = target THEN a ELSE [a EXCEPT !.previous_pane_focus = previous]

switch_workspace_tab(a, w, t) ==
  LET switched == [a EXCEPT !.active = w, !.selected = w,
                            !.workspaces[w] = switch_tab(@, t)]
  IN  record_pane_focus(switched, current_pane_focus_target(a),
                        current_pane_focus_target(switched))

switch_workspace(a, w) == switch_workspace_tab(a, w, a.workspaces[w].active_tab)

\* The end of pane.split and pane.move with `focus`.
focus_newcomer(a, previous, w, t, p) ==
  record_pane_focus(switch_workspace_tab(a, w, t), previous,
                    [workspace |-> a.workspaces[w].id, pane |-> p])

focus_pane_in_workspace(a, p) ==
  LET w == WorkspaceOf(a, p)
      t == find_tab_index_for_pane(a.workspaces[w], p)
      previous == current_pane_focus_target(a)
  IN  IF previous.pane = p THEN a
      ELSE [switch_workspace_tab(a, w, t) EXCEPT
              !.workspaces[w] = layout_focus(@, t, p),
              !.previous_pane_focus = previous]

-----------------------------------------------------------------------------
(* Removal.                                                                *)

\* remove_plugin_pane_records: previous_pane_focus is not left on a dead pane.
remove_pane_records_half(a, panes) ==
  IF a.previous_pane_focus.pane \in panes
  THEN [a EXCEPT !.previous_pane_focus.pane = None] ELSE a
remove_pane_records(a, panes) ==
  IF a.previous_pane_focus.pane \in panes
  THEN [a EXCEPT !.previous_pane_focus = NoTarget] ELSE a

\* msg_bus_remove_public_pane_ids, for panes that are still there.
remove_mail(a, panes) ==
  [a EXCEPT !.mail = [id \in DOMAIN @ \ {public_pane_id(a, p) : p \in panes} |-> @[id]]]

\* Who goes when the workspace w is closed: the whole worktree group with its
\* main checkout.
close_indices(a, w) ==
  LET group == {v \in Indices(a) : a.workspaces[v].space # "none"}
  IN  IF a.workspaces[w].space = "main" /\ group # {w} THEN group ELSE {w}

Smaller(x, y) == IF x <= y THEN x ELSE y

\* What is left of the first n workspaces when those at some indices go.
Kept(workspaces, gone) ==
  LET kept[n \in 0..Len(workspaces)] ==
        IF n = 0 THEN <<>>
        ELSE IF n \in gone THEN kept[n - 1]
        ELSE Append(kept[n - 1], workspaces[n])
  IN  kept

\* close_selected_workspace with w selected.
close_workspace(a, w) ==
  LET gone == close_indices(a, w)
      panes == UNION {PanesOf(a.workspaces[v]) : v \in gone}
      cleared == remove_mail(remove_pane_records(a, panes), panes)
      left == Kept(a.workspaces, gone)[Len(a.workspaces)]
      selected == IF left = <<>> THEN 1 ELSE Smaller(w, Len(left))
  IN  [cleared EXCEPT !.workspaces = left, !.selected = selected,
                      !.active = IF left = <<>> THEN None ELSE selected]

\* The end of every action: the history variable follows the ids.
Becomes(a) ==
  /\ app' = a
  /\ owner' = [id \in DOMAIN owner \cup public_pane_ids(a) |->
                 Get(owner, id, pane_with_id(a, id))]

-----------------------------------------------------------------------------
(* Creation.  `focus` is FALSE unless the request asks for it.             *)

CanCreatePane == next_pane_id <= MaxPanes
CanCreateWorkspace == next_workspace_id <= MaxWorkspaces
CanNumberPane == Cardinality(DOMAIN owner) < MaxIds
CanNumberTab(ws) == ws.next_public_tab_number <= MaxTabNumber

push_workspace(a, ws, focus) ==
  LET pushed == [a EXCEPT !.workspaces = Append(@, ws)]
  IN  IF focus \/ a.active = None
      THEN switch_workspace(pushed, Len(pushed.workspaces)) ELSE pushed

CreateWorkspace(focus) ==
  /\ CanCreatePane /\ CanCreateWorkspace /\ CanNumberPane
  /\ Becomes(push_workspace(app, new_workspace(next_workspace_id, next_pane_id), focus))
  /\ next_workspace_id' = next_workspace_id + 1
  /\ next_pane_id' = next_pane_id + 1
  /\ UNCHANGED told

\* worktree.open of a checkout that is in no workspace yet: the source becomes
\* the main member of the group and the new workspace a linked one.
OpenWorktree(w, focus) ==
  LET source == [app EXCEPT !.workspaces[w].space = "main"]
      linked == [new_workspace(next_workspace_id, next_pane_id) EXCEPT !.space = "linked"]
  IN  /\ CanCreatePane /\ CanCreateWorkspace /\ CanNumberPane
      /\ app.workspaces[w].space # "linked"
      /\ Becomes(push_workspace(source, linked, focus))
      /\ next_workspace_id' = next_workspace_id + 1
      /\ next_pane_id' = next_pane_id + 1
      /\ UNCHANGED told

CreateTab(w, focus) ==
  LET created == [app EXCEPT !.workspaces[w] = create_tab(@, next_pane_id)]
  IN  /\ CanCreatePane
      /\ CanNumberPane /\ CanNumberTab(app.workspaces[w])
      /\ Becomes(IF focus
                 THEN switch_workspace_tab(created, w, Len(created.workspaces[w].tabs))
                 ELSE created)
      /\ next_pane_id' = next_pane_id + 1
      /\ UNCHANGED <<next_workspace_id, told>>

\* split_pane_with_runtime; pane.move into a tab ends the same way.
split_pane(ws, t, target, p, focus) ==
  LET with == insert_moved_pane_into_tab(ws, t, target, p)
  IN  IF focus THEN with ELSE layout_focus(with, t, ws.tabs[t].focused)

SplitPane(target, focus) ==
  LET w == WorkspaceOf(app, target)
      t == find_tab_index_for_pane(app.workspaces[w], target)
      split == [app EXCEPT !.workspaces[w] = split_pane(@, t, target, next_pane_id, focus)]
      previous == current_pane_focus_target(app)
  IN  /\ CanCreatePane /\ CanNumberPane
      /\ Becomes(IF focus THEN focus_newcomer(split, previous, w, t, next_pane_id)
                          ELSE split)
      /\ next_pane_id' = next_pane_id + 1
      /\ UNCHANGED <<next_workspace_id, told>>

-----------------------------------------------------------------------------
(* Closing.                                                                *)

\* pane.close.  With `confirm_close` on, a request that would close a worktree
\* group only selects the workspace and opens the dialog; others do not care.
ClosePane(p, confirm_close) ==
  LET w == WorkspaceOf(app, p)
      last == LastPane(app.workspaces[w], p)
      cleared == remove_mail(remove_pane_records(app, {p}), {p})
  IN  /\ confirm_close => last /\ close_indices(app, w) # {w}
      /\ Becomes(
           IF confirm_close THEN [app EXCEPT !.selected = w]
           ELSE IF last THEN close_workspace(cleared, w)
           ELSE [cleared EXCEPT !.workspaces[w] = close_pane(@, p)])
      /\ UNCHANGED <<next_workspace_id, next_pane_id, told>>

CloseTab(w, t) ==
  LET panes == ToSet(app.workspaces[w].tabs[t].panes)
      cleared == remove_mail(remove_pane_records(app, panes), panes)
  IN  /\ Len(app.workspaces[w].tabs) > 1
      /\ Becomes([cleared EXCEPT !.workspaces[w] = close_tab(@, t)])
      /\ UNCHANGED <<next_workspace_id, next_pane_id, told>>

CloseWorkspace(w) ==
  /\ Becomes(close_workspace(app, w))
  /\ UNCHANGED <<next_workspace_id, next_pane_id, told>>

\* handle_pane_died: the shell of p exited.  The aliases of p go, and a
\* workspace without panes goes alone, whatever its group.
PaneDied(p) ==
  LET w == WorkspaceOf(app, p)
      cleared == remove_mail(remove_pane_records(app, {p}), {p})
      of_others == {id \in DOMAIN app.public_pane_id_aliases :
                      app.public_pane_id_aliases[id] # p}
      unaliased == [cleared EXCEPT !.public_pane_id_aliases = [id \in of_others |-> @[id]]]
      left == Len(app.workspaces) - 1
  IN  /\ Becomes(
           IF ~LastPane(app.workspaces[w], p)
           THEN [unaliased EXCEPT !.workspaces[w] = close_pane(@, p)]
           ELSE [unaliased EXCEPT
                   !.workspaces = RemoveAt(@, w),
                   !.active = IF left = 0 THEN None ELSE Smaller(@, left),
                   !.selected = IF left = 0 THEN 1 ELSE Smaller(@, left)])
      /\ UNCHANGED <<next_workspace_id, next_pane_id, told>>

-----------------------------------------------------------------------------
(* Moving.                                                                 *)

\* A workspace index after the removal of workspace w.
shifted_not(index, w, left) == IF index = w THEN Smaller(w, left) ELSE index
shifted(index, w, left) ==
  IF index = w THEN Smaller(w, left) ELSE IF index > w THEN index - 1 ELSE index

\* handle_pane_move up to where the pane is out of its old place.
leave_workspace(a, p, cross_workspace) ==
  LET w == WorkspaceOf(a, p)
      taken == take_pane_for_move(a.workspaces[w], p)
      left == Len(a.workspaces) - 1
      out == [a EXCEPT !.workspaces[w] = unregister_pane(taken, p),
                       !.public_pane_id_aliases = Put(@, public_pane_id(a, p), p)]
  IN  IF ~cross_workspace THEN [a EXCEPT !.workspaces[w] = taken]
      ELSE IF taken.tabs # <<>> THEN out
      ELSE [out EXCEPT !.workspaces = RemoveAt(@, w),
                       !.active = IF left = 0 THEN None ELSE shifted(@, w, left),
                       !.selected = IF left = 0 THEN 1 ELSE shifted(@, w, left)]

rekey_pane_forgotten(a, old, new) == a
rekey_pane(a, old, new) ==
  IF old = new THEN a
  ELSE [a EXCEPT !.mail = MoveKey(Without(@, new), old, new)]

\* ... and what follows once it is in its new place, workspace w, tab t.
arrive(a, p, w, t, focus) ==
  LET settled == IF focus \/ a.active = None
                 THEN focus_newcomer(a, current_pane_focus_target(app), w, t, p)
                 ELSE a
  IN  Becomes(rekey_pane(settled, public_pane_id(app, p), public_pane_id(a, p)))

IndexOfWorkspace(a, id) == CHOOSE w \in Indices(a) : a.workspaces[w].id = id

\* pane.move to an existing tab; the tab is found again by its id, for the
\* source may have been in front of it.
MovePaneToTab(p, w, t, target, focus) ==
  LET source == WorkspaceOf(app, p)
      id == app.workspaces[w].id
      number == app.workspaces[w].tabs[t].number
      out == leave_workspace(app, p, source # w)
      v == IndexOfWorkspace(out, id)
      u == CHOOSE i \in DOMAIN out.workspaces[v].tabs :
             out.workspaces[v].tabs[i].number = number
      in == [out EXCEPT !.workspaces[v] = split_pane(@, u, target, p, focus)]
  IN  /\ p \notin ToSet(app.workspaces[w].tabs[t].panes)
      /\ source # w => CanNumberPane
      /\ arrive(in, p, v, u, focus)
      /\ UNCHANGED <<next_workspace_id, next_pane_id, told>>

\* pane.move to a new tab of this workspace or another.
MovePaneToNewTab(p, w, focus) ==
  LET source == WorkspaceOf(app, p)
      out == leave_workspace(app, p, source # w)
      v == IndexOfWorkspace(out, app.workspaces[w].id)
      in == [out EXCEPT !.workspaces[v] = create_tab(@, p)]
  IN  /\ CanNumberTab(app.workspaces[w])
      /\ source # w => CanNumberPane
      /\ arrive(in, p, v, Len(in.workspaces[v].tabs), focus)
      /\ UNCHANGED <<next_workspace_id, next_pane_id, told>>

\* pane.move to a new workspace.
MovePaneToNewWorkspace(p, focus) ==
  LET out == leave_workspace(app, p, TRUE)
      in == [out EXCEPT !.workspaces = Append(@, new_workspace(next_workspace_id, p))]
  IN  /\ CanCreateWorkspace /\ CanNumberPane
      /\ arrive(in, p, Len(in.workspaces), 1, focus)
      /\ next_workspace_id' = next_workspace_id + 1
      /\ UNCHANGED <<next_pane_id, told>>

MoveTab(w, source, insert) ==
  /\ insert \notin {source, source + 1}
  /\ Becomes([app EXCEPT !.workspaces[w] = move_tab(@, source, insert)])
  /\ UNCHANGED <<next_workspace_id, next_pane_id, told>>

MoveWorkspace_indices_stay(source, insert) ==
  LET target == IF source < insert THEN insert - 1 ELSE insert
  IN  /\ insert \notin {source, source + 1}
      /\ Becomes([app EXCEPT !.workspaces =
                    InsertAt(RemoveAt(@, source), target, @[source])])
      /\ UNCHANGED <<next_workspace_id, next_pane_id, told>>

\* The active and the selected workspace are found again by their ids.
MoveWorkspace(source, insert) ==
  LET target == IF source < insert THEN insert - 1 ELSE insert
      workspaces == InsertAt(RemoveAt(app.workspaces, source), target,
                             app.workspaces[source])
      after(index) == IndexOfWorkspace([workspaces |-> workspaces],
                                       app.workspaces[index].id)
  IN  /\ insert \notin {source, source + 1}
      /\ Becomes([app EXCEPT !.workspaces = workspaces,
                             !.active = IF @ = None THEN None ELSE after(@),
                             !.selected = after(@)])
      /\ UNCHANGED <<next_workspace_id, next_pane_id, told>>

-----------------------------------------------------------------------------
(* Focusing, and mail.                                                     *)

FocusPane(p) ==
  /\ Becomes(focus_pane_in_workspace(app, p))
  /\ UNCHANGED <<next_workspace_id, next_pane_id, told>>

FocusTab(w, t) ==
  /\ Becomes(switch_workspace_tab(app, w, t))
  /\ UNCHANGED <<next_workspace_id, next_pane_id, told>>

FocusWorkspace(w) ==
  /\ Becomes(switch_workspace(app, w))
  /\ UNCHANGED <<next_workspace_id, next_pane_id, told>>

\* last_pane_via_api.
GoToLastPane ==
  LET target == app.previous_pane_focus
      there == /\ target.pane \in Live(app)
               /\ app.workspaces[WorkspaceOf(app, target.pane)].id = target.workspace
  IN  /\ target # NoTarget
      /\ Becomes(IF there /\ current_pane_focus_target(app) # target
                 THEN focus_pane_in_workspace(app, target.pane)
                 ELSE [app EXCEPT !.previous_pane_focus = NoTarget])
      /\ UNCHANGED <<next_workspace_id, next_pane_id, told>>

\* msg.send to the id of a pane (or msg.group_join of that pane): the bus has
\* something under the canonical id then.  The target of a send is compared
\* with the canonical ids of the directory, without a look at the aliases.
msg_target(a, id) == pane_with_id(a, id)

Send(id) ==
  LET p == msg_target(app, id)
  IN  /\ p \in Addressees \ {None}
      /\ Becomes([app EXCEPT !.mail = Put(@, id, Get(@, id, p))])
      /\ told' = told \cup {p}
      /\ UNCHANGED <<next_workspace_id, next_pane_id>>

-----------------------------------------------------------------------------

TabsOf(w) == DOMAIN app.workspaces[w].tabs

CreateWithFocus(focus) ==
  \/ CreateWorkspace(focus)
  \/ \E w \in Indices(app) : OpenWorktree(w, focus) \/ CreateTab(w, focus)
  \/ \E target \in Live(app) : SplitPane(target, focus)

MovePane(p, focus) ==
  \/ \E w \in Indices(app) :
       \/ MovePaneToNewTab(p, w, focus)
       \/ \E t \in TabsOf(w) : \E target \in ToSet(app.workspaces[w].tabs[t].panes) :
            MovePaneToTab(p, w, t, target, focus)
  \/ MovePaneToNewWorkspace(p, focus)

Close ==
  \/ \E p \in Live(app) : PaneDied(p) \/ \E confirm \in BOOLEAN : ClosePane(p, confirm)
  \/ \E w \in Indices(app) : CloseWorkspace(w) \/ \E t \in TabsOf(w) : CloseTab(w, t)

Reorder ==
  \E w \in Indices(app) :
    \/ \E insert \in 1..(Len(app.workspaces) + 1) : MoveWorkspace(w, insert)
    \/ \E t \in TabsOf(w), insert \in 1..(Len(app.workspaces[w].tabs) + 1) :
         MoveTab(w, t, insert)

Focus ==
  \/ \E p \in Live(app) : FocusPane(p)
  \/ \E w \in Indices(app) : FocusWorkspace(w) \/ \E t \in TabsOf(w) : FocusTab(w, t)
  \/ GoToLastPane

Next ==
  \/ \E focus \in BOOLEAN : CreateWithFocus(focus) \/ \E p \in Live(app) : MovePane(p, focus)
  \/ Close \/ Reorder \/ Focus
  \/ \E id \in DOMAIN owner : Send(id)

Spec == Init /\ [][Next]_vars

-----------------------------------------------------------------------------
(* Properties.                                                             *)

PaneId == 1..(next_pane_id - 1)
PublicId == [workspace : 1..(next_workspace_id - 1), number : Nat \ {0}]

Tab == [number : Nat, panes : Seq(PaneId), focused : PaneId, root_pane : PaneId]

TypeOK ==
  /\ \A w \in Indices(app) :
       LET ws == app.workspaces[w]
       IN  /\ ws.id \in 1..(next_workspace_id - 1) /\ ws.tabs \in Seq(Tab)
           /\ {ws.active_tab, ws.next_public_pane_number, ws.next_public_tab_number}
                \subseteq Nat
           /\ DOMAIN ws.public_pane_numbers \subseteq PaneId
           /\ ws.public_pane_numbers \in [DOMAIN ws.public_pane_numbers -> Nat]
           /\ ws.space \in {"none", "main", "linked"}
  /\ app.active \in Nat /\ app.selected \in Nat
  /\ app.previous_pane_focus \in {NoTarget} \cup
       [workspace : 1..(next_workspace_id - 1), pane : PaneId]
  /\ \A f \in {app.public_pane_id_aliases, app.mail, owner} :
       DOMAIN f \subseteq PublicId /\ \A id \in DOMAIN f : f[id] \in PaneId
  /\ told \subseteq PaneId

\* The session is well formed after any sequence of requests and exits: the
\* assertions of AppState::assert_invariants_for_test and of each workspace
\* about tabs, roots, focus, numbers and the active and selected workspace,
\* and the pane that "last pane" goes back to is alive
\* (remove_plugin_pane_records on every path that removes panes).
SessionInvariant ==
  /\ \A w \in Indices(app) : WorkspaceInvariant(app.workspaces[w])
  /\ \A v, w \in Indices(app) : v # w =>
       /\ app.workspaces[v].id # app.workspaces[w].id
       /\ PanesOf(app.workspaces[v]) \cap PanesOf(app.workspaces[w]) = {}
  /\ IF app.workspaces = <<>> THEN app.active = None /\ app.selected = 1
     ELSE {app.active, app.selected} \subseteq Indices(app)
  /\ app.previous_pane_focus.pane \in {None} \cup Live(app)

\* The bus keeps the mailbox of every pane that has one under the id the pane
\* has now, whatever moves it made, and keeps nothing for panes that are gone
\* (rekey_pane, and "every pane-removal path must call" the removal).
MailFollowsPane ==
  app.mail = [id \in {public_pane_id(app, p) : p \in told \cap Live(app)} |->
                pane_with_id(app, id)]

\* An id that a pane ever had leads to that pane as long as the pane lives, and
\* to nothing afterwards: "Closed ... pane IDs are not reused and do not
\* retarget later resources" (SKILL.md), over moves there and back.
IdsNeverRetarget ==
  \A id \in DOMAIN owner :
    parse_pane_id(app, id) = IF owner[id] \in Live(app) THEN owner[id] ELSE None

\* Nothing that does not ask for the focus takes it from a living pane: "CLI
\* workspace, tab, and pane creation now preserve the current focus by
\* default" (CHANGELOG.md), and neither moving another pane, nor reordering,
\* nor closing a pane or a tab of a workspace that stays.
focused == current_pane_focus_target(app).pane
places == [w \in Indices(app) |->
             [t \in DOMAIN app.workspaces[w].tabs |-> app.workspaces[w].tabs[t].panes]]
Unasked ==
  \/ next_pane_id' # next_pane_id /\ CreateWithFocus(FALSE)
  \/ /\ places' # places
     /\ \/ Reorder
        \/ \E p \in Live(app) \ {focused} : MovePane(p, FALSE)
        \/ Len(app'.workspaces) = Len(app.workspaces) /\ Close
FocusStays ==
  [][(focused' # focused /\ focused \in Live(app) \cap Live(app)') => ~Unasked]_vars

\* "every msg.* handler must resolve through" canonical_pane_id, so an id that
\* leads to a pane for msg.list is also an address one can send to.
AddressesReachPanes ==
  \A id \in DOMAIN owner : msg_target(app, id) = parse_pane_id(app, id)

\* assert_invariants_for_test: "public pane alias ..." must be a live pane.
AliasesLive ==
  \A id \in DOMAIN app.public_pane_id_aliases :
    app.public_pane_id_aliases[id] \in Live(app)

\* assert_invariants_for_test: "previous pane focus" is a pane of the workspace
\* it names.
PreviousFocusInPlace ==
  LET target == app.previous_pane_focus
  IN  target # NoTarget =>
        \E w \in Indices(app) : /\ app.workspaces[w].id = target.workspace
                                /\ target.pane \in PanesOf(app.workspaces[w])

=============================================================================
