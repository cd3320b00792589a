----------------------------- MODULE Workspaces -----------------------------
(***************************************************************************)
(* One workspace of the session (src/workspace.rs, src/workspace/tab.rs,   *)
(* src/layout.rs): tabs in their order, the panes of each tab in layout    *)
(* order, and the public numbers of panes and tabs.                        *)
(*                                                                         *)
(* A layout is its sequence of panes and its focus: the split tree, its    *)
(* directions and ratios decide only where panes are drawn.  Splitting a   *)
(* pane puts the new one right behind it in that order.  Positions count   *)
(* from 1, where the source counts from 0.                                 *)
(*                                                                         *)
(* An operator whose name extends another's (unregister_pane_reusing)      *)
(* is that operator with a plausible slip in it.  Nothing uses it; it      *)
(* shows, put in the place of the right one, that a property notices.      *)
(***************************************************************************)
EXTENDS Naturals, SequencesExt, PartialMaps

Position(s, x) == CHOOSE k \in DOMAIN s : s[k] = x

-----------------------------------------------------------------------------
(* One tab.                                                                *)

new_tab(number, p) ==
  [number |-> number, panes |-> <<p>>, focused |-> p, root_pane |-> p]

\* TileLayout::insert_pane_near and split_focused: the newcomer has the focus.
insert_pane(tab, target, p) ==
  [tab EXCEPT !.panes = InsertAt(@, Position(@, target) + 1, p), !.focused = p]


\* Focus goes to the next pane, or from the last one to the previous; the
\* first pane that is left takes over as root.
detach_pane(tab, p) ==
  LET k == Position(tab.panes, p)
      left == RemoveAt(tab.panes, k)
      neighbour == tab.panes[IF k < Len(tab.panes) THEN k + 1 ELSE k - 1]
  IN  [tab EXCEPT !.panes = left,
                  !.focused = IF @ = p THEN neighbour ELSE @,
                  !.root_pane = IF @ = p THEN Head(left) ELSE @]

-----------------------------------------------------------------------------
(* One workspace.                                                          *)

\* `space` is its worktree_space: in no group, or the main or a linked
\* checkout of the one repository of the model.
new_workspace(id, p) ==
  [id |-> id, tabs |-> <<new_tab(1, p)>>, active_tab |-> 1,
   public_pane_numbers |-> Put(<<>>, p, 1),
   next_public_pane_number |-> 2, next_public_tab_number |-> 2,
   space |-> "none"]

PanesOf(ws) == UNION {ToSet(ws.tabs[t].panes) : t \in DOMAIN ws.tabs}
find_tab_index_for_pane(ws, p) ==
  CHOOSE t \in DOMAIN ws.tabs : p \in ToSet(ws.tabs[t].panes)
focused_pane_id(ws) == ws.tabs[ws.active_tab].focused

register_new_pane(ws, p) ==
  [ws EXCEPT !.public_pane_numbers = Put(@, p, ws.next_public_pane_number),
             !.next_public_pane_number = @ + 1]

unregister_pane_reusing(ws, p) ==
  LET left == Without(ws.public_pane_numbers, p)
  IN  [ws EXCEPT !.public_pane_numbers = left,
                 !.next_public_pane_number =
                    1 + (CHOOSE n \in {0} \cup {left[q] : q \in DOMAIN left} :
                           \A q \in DOMAIN left : left[q] <= n)]

unregister_pane(ws, p) ==
  [ws EXCEPT !.public_pane_numbers = Without(@, p)]

\* The tabs behind t move up, and so does the active one; when t was the
\* active tab, the one in front of it becomes active.
remove_tab(ws, t) ==
  LET left == Len(ws.tabs) - 1
  IN  [ws EXCEPT !.tabs = RemoveAt(@, t),
                 !.active_tab = IF left = 0 THEN 1
                                ELSE IF @ > left THEN left
                                ELSE IF t <= @ /\ @ > 1 THEN @ - 1 ELSE @]

LastPane(ws, p) == PanesOf(ws) = {p}

\* Workspace::take_pane_for_move; the number stays for the caller to decide.
take_pane_for_move(ws, p) ==
  LET t == find_tab_index_for_pane(ws, p)
  IN  IF Len(ws.tabs[t].panes) = 1 THEN remove_tab(ws, t)
      ELSE [ws EXCEPT !.tabs[t] = detach_pane(@, p)]

\* Workspace::close_pane and remove_pane: the last pane stays, the caller has
\* to close the workspace.
close_pane(ws, p) ==
  IF LastPane(ws, p) THEN ws
  ELSE unregister_pane(take_pane_for_move(ws, p), p)

close_tab(ws, t) ==
  LET left == remove_tab(ws, t)
  IN  [left EXCEPT !.public_pane_numbers =
         [p \in DOMAIN @ \ ToSet(ws.tabs[t].panes) |-> @[p]]]

\* The one active before is active after.
move_tab(ws, source, insert) ==
  LET target == IF source < insert THEN insert - 1 ELSE insert
      tabs == InsertAt(RemoveAt(ws.tabs, source), target, ws.tabs[source])
      root == ws.tabs[ws.active_tab].root_pane
  IN  [ws EXCEPT !.tabs = tabs,
                 !.active_tab = CHOOSE t \in DOMAIN tabs : tabs[t].root_pane = root]

\* create_tab_with_runtime, and create_tab_from_existing_pane for a pane that
\* has a number here already.
create_tab(ws, p) ==
  LET with == [ws EXCEPT !.tabs = Append(@, new_tab(ws.next_public_tab_number, p)),
                         !.next_public_tab_number = @ + 1]
  IN  IF p \in DOMAIN ws.public_pane_numbers THEN with ELSE register_new_pane(with, p)

insert_moved_pane_into_tab(ws, t, target, p) ==
  LET with == [ws EXCEPT !.tabs[t] = insert_pane(@, target, p)]
  IN  IF p \in DOMAIN ws.public_pane_numbers THEN with ELSE register_new_pane(with, p)

switch_tab(ws, t) == [ws EXCEPT !.active_tab = t]

layout_focus(ws, t, p) == [ws EXCEPT !.tabs[t].focused = p]

\* Workspace::assert_invariants_for_test.
WorkspaceInvariant(ws) ==
  /\ ws.tabs # <<>> /\ ws.active_tab \in DOMAIN ws.tabs
  /\ \A t \in DOMAIN ws.tabs :
       LET tab == ws.tabs[t]
       IN  /\ tab.number \in 1..(ws.next_public_tab_number - 1)
           /\ IsInjective(tab.panes)
           /\ {tab.root_pane, tab.focused} \subseteq ToSet(tab.panes)
           /\ \A u \in DOMAIN ws.tabs \ {t} :
                /\ ws.tabs[u].number # tab.number
                /\ ToSet(ws.tabs[u].panes) \cap ToSet(tab.panes) = {}
  /\ DOMAIN ws.public_pane_numbers = PanesOf(ws)
  /\ IsInjective(ws.public_pane_numbers)
  /\ \A p \in PanesOf(ws) :
       ws.public_pane_numbers[p] \in 1..(ws.next_public_pane_number - 1)

=============================================================================
