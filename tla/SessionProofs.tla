---------------------------- MODULE SessionProofs ----------------------------
(***************************************************************************)
(* Proofs about Session, for any number of workspaces, tabs and panes and  *)
(* every value of the bounds, and about SavedSession, which extends it.    *)
(* The first sections say what the operators on the tabs of a workspace,   *)
(* on one workspace and on all of them keep; the invariant is stated over  *)
(* the names of panes (their public ids); then there is a section for each *)
(* kind of operation, and the theorems of Session.  The last sections are  *)
(* about SavedSession: the saves, what a process makes of the files it     *)
(* finds, and whose histories those files hold.                            *)
(***************************************************************************)
EXTENDS SavedSession, ProofLemmas

-----------------------------------------------------------------------------
(* Tabs.                                                                   *)

\* Where an element is.
LEMMA PositionOf ==
  ASSUME NEW S, NEW s \in Seq(S), NEW x \in ToSet(s)
  PROVE  Position(s, x) \in 1..Len(s) /\ s[Position(s, x)] = x
BY LenProperties DEF Position, ToSet

Tabs == [number : Nat, panes : Seq(Nat), focused : Nat, root_pane : Nat]

TabSound(tab) ==
  /\ tab \in Tabs /\ IsInjective(tab.panes)
  /\ tab.root_pane \in ToSet(tab.panes) /\ tab.focused \in ToSet(tab.panes)

\* `next` is the number the next tab will have.
TabsSound(tabs, next) ==
  /\ tabs \in Seq(Tabs)
  /\ \A t \in DOMAIN tabs : TabSound(tabs[t]) /\ tabs[t].number \in 1..(next - 1)
  /\ \A t, u \in DOMAIN tabs : t # u =>
       /\ tabs[t].number # tabs[u].number
       /\ ToSet(tabs[t].panes) \cap ToSet(tabs[u].panes) = {}

PanesIn(tabs) == UNION {ToSet(tabs[t].panes) : t \in DOMAIN tabs}

\* A new tab.
LEMMA NewTabSound ==
  ASSUME NEW n \in Nat, NEW p \in Nat
  PROVE  TabSound(new_tab(n, p)) /\ new_tab(n, p).number = n /\ ToSet(new_tab(n, p).panes) = {p}
<1>1. <<p>> \in Seq(Nat) /\ ToSet(<<p>>) = {p} /\ IsInjective(<<p>>)
  BY DEF ToSet, IsInjective
<1> QED
  BY <1>1 DEF new_tab, TabSound, Tabs

\* A split of a pane of the tab.
LEMMA InsertPaneSound ==
  ASSUME NEW tab, TabSound(tab), NEW target \in ToSet(tab.panes),
         NEW p \in Nat \ ToSet(tab.panes)
  PROVE  LET with == insert_pane(tab, target, p)
         IN  /\ TabSound(with) /\ with.number = tab.number
             /\ ToSet(with.panes) = ToSet(tab.panes) \cup {p}
<1> DEFINE i == Position(tab.panes, target) + 1
           panes == InsertAt(tab.panes, i, p)
<1>1. tab \in Tabs /\ tab.panes \in Seq(Nat) /\ Len(tab.panes) \in Nat
  BY LenProperties DEF TabSound, Tabs
<1>2. i \in 1..(Len(tab.panes) + 1)
  BY <1>1, PositionOf
<1>3. panes \in Seq(Nat)
  BY <1>1, <1>2, ElementInserted
<1>4. ToSet(panes) = ToSet(tab.panes) \cup {p} /\ IsInjective(panes)
  BY <1>1, <1>2, InsertedSet DEF TabSound
<1>5. insert_pane(tab, target, p) = [tab EXCEPT !.panes = panes, !.focused = p]
  BY DEF insert_pane
<1> HIDE DEF panes
<1> QED
  BY <1>1, <1>3, <1>4, <1>5 DEF TabSound, Tabs

\* A pane that leaves a tab with others.
LEMMA DetachPaneSound ==
  ASSUME NEW tab, TabSound(tab), NEW p \in ToSet(tab.panes), Len(tab.panes) # 1
  PROVE  LET left == detach_pane(tab, p)
         IN  /\ TabSound(left) /\ left.number = tab.number
             /\ ToSet(left.panes) = ToSet(tab.panes) \ {p}
<1> DEFINE k == Position(tab.panes, p)
           left == RemoveAt(tab.panes, k)
           neighbour == tab.panes[IF k < Len(tab.panes) THEN k + 1 ELSE k - 1]
           focus == IF tab.focused = p THEN neighbour ELSE tab.focused
           root == IF tab.root_pane = p THEN Head(left) ELSE tab.root_pane
<1>1. /\ tab \in Tabs /\ tab.panes \in Seq(Nat) /\ Len(tab.panes) \in Nat
      /\ DOMAIN tab.panes = 1..Len(tab.panes)
  BY LenProperties DEF TabSound, Tabs
<1>2. k \in 1..Len(tab.panes) /\ tab.panes[k] = p
  BY <1>1, PositionOf
<1>3. left \in Seq(Nat) /\ Len(left) = Len(tab.panes) - 1
  BY <1>1, <1>2, ElementRemoved
<1>4. ToSet(left) = ToSet(tab.panes) \ {p} /\ IsInjective(left)
  BY <1>1, <1>2, RemovedSet DEF TabSound
<1>5. detach_pane(tab, p) = [tab EXCEPT !.panes = left, !.focused = focus, !.root_pane = root]
  BY <1>1 DEF detach_pane, Tabs
<1> HIDE DEF left
<1>6. neighbour \in ToSet(left)
  <2> DEFINE l == IF k < Len(tab.panes) THEN k + 1 ELSE k - 1
  <2>1. l \in DOMAIN tab.panes /\ l # k
    <3> HIDE DEF k
    <3>1. Len(tab.panes) >= 2
      <4>1. \A n \in Nat : \A m \in 1..n : n # 1 => n >= 2
        OBVIOUS
      <4> QED
        BY <1>1, <1>2, <4>1
    <3>2. k < Len(tab.panes) => l = k + 1
      OBVIOUS
    <3>3. k = Len(tab.panes) => l = k - 1
      BY <1>1
    <3> HIDE DEF l
    <3> QED
      BY <1>1, <1>2, <3>1, <3>2, <3>3
  <2> HIDE DEF l
  <2>2. tab.panes[l] \in ToSet(tab.panes) /\ tab.panes[l] # p
    BY <1>1, <1>2, <2>1 DEF ToSet, TabSound, IsInjective
  <2> QED
    BY <1>4, <2>2 DEF l
<1>7. Head(left) \in ToSet(left)
  <2>1. Len(left) \in Nat \ {0}
    BY <1>1, <1>2, <1>3
  <2>2. left # <<>> /\ 1 \in DOMAIN left
    <3>1. Len(<<>>) = 0
      BY EmptySeq
    <3>2. DOMAIN left = 1..Len(left)
      BY <1>3, LenProperties
    <3> QED
      BY <2>1, <3>1, <3>2
  <2>3. Head(left) = left[1]
    BY <1>3, <2>2
  <2> QED
    BY <2>2, <2>3 DEF ToSet
<1> HIDE DEF neighbour
<1>8. focus \in ToSet(left) /\ root \in ToSet(left)
  BY <1>4, <1>6, <1>7 DEF TabSound
<1>9. ToSet(left) \subseteq Nat
  BY <1>3, LenProperties, ElementOfSeq DEF ToSet
<1> HIDE DEF focus, root
<1> QED
  BY <1>1, <1>3, <1>4, <1>5, <1>8, <1>9 DEF TabSound, Tabs

\* Some of the tabs, in another order.
LEMMA TabsPicked ==
  ASSUME NEW tabs, NEW next, TabsSound(tabs, next), NEW left \in Seq(Tabs),
         NEW m, Picks(left, tabs, m)
  PROVE  /\ TabsSound(left, next)
         /\ PanesIn(left) = UNION {ToSet(tabs[t].panes) : t \in Range(m)}
<1>1. \A t \in DOMAIN left : m[t] \in DOMAIN tabs /\ left[t] = tabs[m[t]]
  BY DEF Picks
<1>2. \A t, u \in DOMAIN left : t # u => m[t] # m[u]
  BY DEF Picks, IsInjective
<1>3. TabsSound(left, next)
  <2>1. \A t \in DOMAIN left : TabSound(left[t]) /\ left[t].number \in 1..(next - 1)
    BY <1>1 DEF TabsSound
  <2>2. ASSUME NEW t \in DOMAIN left, NEW u \in DOMAIN left, t # u
        PROVE  /\ left[t].number # left[u].number
               /\ ToSet(left[t].panes) \cap ToSet(left[u].panes) = {}
    <3>1. m[t] \in DOMAIN tabs /\ m[u] \in DOMAIN tabs /\ m[t] # m[u]
      BY <1>1, <1>2, <2>2
    <3>2. /\ tabs[m[t]].number # tabs[m[u]].number
          /\ ToSet(tabs[m[t]].panes) \cap ToSet(tabs[m[u]].panes) = {}
      BY <3>1 DEF TabsSound
    <3> QED
      BY <1>1, <3>2
  <2> QED
    BY <2>1, <2>2 DEF TabsSound
<1>4. Range(m) = {m[t] : t \in DOMAIN left}
  BY DEF Picks, Range
<1>5. PanesIn(left) = UNION {ToSet(tabs[t].panes) : t \in Range(m)}
  BY <1>1, <1>4 DEF PanesIn
<1> QED
  BY <1>3, <1>5

\* Another tab in the place of one.
Replaced(tabs, t, tab) == [tabs EXCEPT ![t] = tab]

\* A tab may change its panes for others no tab of the workspace has.
LEMMA TabsReplaced ==
  ASSUME NEW tabs, NEW next, TabsSound(tabs, next), NEW t \in DOMAIN tabs,
         NEW tab, TabSound(tab), tab.number = tabs[t].number,
         \A u \in DOMAIN tabs \ {t} : ToSet(tab.panes) \cap ToSet(tabs[u].panes) = {}
  PROVE  LET with == Replaced(tabs, t, tab)
         IN  /\ TabsSound(with, next) /\ DOMAIN with = DOMAIN tabs
             /\ with[t] = tab /\ \A u \in DOMAIN tabs \ {t} : with[u] = tabs[u]
             /\ PanesIn(with) = (PanesIn(tabs) \ ToSet(tabs[t].panes)) \cup ToSet(tab.panes)
<1> DEFINE with == Replaced(tabs, t, tab)
<1>1. /\ tabs \in Seq(Tabs) /\ DOMAIN tabs = 1..Len(tabs) /\ tab \in Tabs
  BY LenProperties DEF TabsSound, TabSound
<1>2. /\ with \in Seq(Tabs) /\ DOMAIN with = DOMAIN tabs
      /\ with[t] = tab /\ \A u \in DOMAIN tabs \ {t} : with[u] = tabs[u]
  BY <1>1, ExceptSeq DEF Replaced
<1> HIDE DEF with
<1>3. TabsSound(with, next)
  <2>1. \A u \in DOMAIN tabs : TabSound(with[u]) /\ with[u].number = tabs[u].number
    BY <1>2 DEF TabsSound
  <2>2. \A u, v \in DOMAIN tabs : u # v => /\ tabs[u].number # tabs[v].number
                                          /\ ToSet(tabs[u].panes) \cap ToSet(tabs[v].panes) = {}
    BY DEF TabsSound
  <2>3. \A u, v \in DOMAIN tabs : u # v => ToSet(with[u].panes) \cap ToSet(with[v].panes) = {}
    BY <1>2, <2>2
  <2> QED
    BY <1>2, <2>1, <2>2, <2>3 DEF TabsSound
<1>4. PanesIn(with) = (PanesIn(tabs) \ ToSet(tabs[t].panes)) \cup ToSet(tab.panes)
  <2>1. ASSUME NEW p \in PanesIn(with)
        PROVE  p \in (PanesIn(tabs) \ ToSet(tabs[t].panes)) \cup ToSet(tab.panes)
    <3>1. PICK u \in DOMAIN tabs : p \in ToSet(with[u].panes)
      BY <1>2, <2>1 DEF PanesIn
    <3>2. CASE u = t
      BY <1>2, <3>1, <3>2
    <3>3. CASE u # t
      <4>1. p \in ToSet(tabs[u].panes) /\ p \notin ToSet(tabs[t].panes)
        BY <1>2, <3>1, <3>3 DEF TabsSound
      <4> QED
        BY <4>1 DEF PanesIn
    <3> QED
      BY <3>2, <3>3
  <2>2. ASSUME NEW p \in PanesIn(tabs) \ ToSet(tabs[t].panes) PROVE p \in PanesIn(with)
    <3>1. PICK u \in DOMAIN tabs : p \in ToSet(tabs[u].panes)
      BY <2>2 DEF PanesIn
    <3>2. p \in ToSet(with[u].panes)
      BY <1>2, <2>2, <3>1
    <3> QED
      BY <1>2, <3>2 DEF PanesIn
  <2>3. ToSet(tab.panes) \subseteq PanesIn(with)
    BY <1>2 DEF PanesIn
  <2> QED
    BY <2>1, <2>2, <2>3
<1> QED
  BY <1>2, <1>3, <1>4 DEF with

\* One more tab, behind the others.
LEMMA TabsAppended ==
  ASSUME NEW tabs, NEW next \in Nat \ {0}, TabsSound(tabs, next),
         NEW tab, TabSound(tab), tab.number = next,
         ToSet(tab.panes) \cap PanesIn(tabs) = {}
  PROVE  LET with == Append(tabs, tab)
         IN  /\ TabsSound(with, next + 1) /\ Len(with) = Len(tabs) + 1 /\ with # <<>>
             /\ with[Len(with)] = tab /\ \A u \in DOMAIN tabs : with[u] = tabs[u]
             /\ PanesIn(with) = PanesIn(tabs) \cup ToSet(tab.panes)
<1> DEFINE with == Append(tabs, tab)
           n == Len(tabs) + 1
<1>1. /\ tabs \in Seq(Tabs) /\ DOMAIN tabs = 1..Len(tabs) /\ Len(tabs) \in Nat /\ tab \in Tabs
  BY LenProperties DEF TabsSound, TabSound
<1>2. /\ with \in Seq(Tabs) /\ Len(with) = n /\ with # <<>>
      /\ with[n] = tab /\ \A u \in 1..Len(tabs) : with[u] = tabs[u]
  BY <1>1, AppendProperties
<1> HIDE DEF with
<1>3. DOMAIN with = DOMAIN tabs \cup {n} /\ n \notin DOMAIN tabs
  <2>1. DOMAIN with = 1..n
    BY <1>2, LenProperties
  <2> QED
    BY <1>1, <2>1
<1> HIDE DEF n
<1>4. PanesIn(with) = PanesIn(tabs) \cup ToSet(tab.panes)
  BY <1>1, <1>2, <1>3 DEF PanesIn
<1>5. TabsSound(with, next + 1)
  <2>1. ASSUME NEW u \in DOMAIN with
        PROVE  TabSound(with[u]) /\ with[u].number \in 1..((next + 1) - 1)
    <3>1. 1..((next + 1) - 1) = 1..next /\ next \in 1..next
      OBVIOUS
    <3>2. 1..(next - 1) \subseteq 1..next
      OBVIOUS
    <3> QED
      BY <1>1, <1>2, <1>3, <3>1, <3>2 DEF TabsSound
  <2>2. ASSUME NEW u \in DOMAIN tabs
        PROVE  /\ with[u].number # tab.number
               /\ ToSet(with[u].panes) \cap ToSet(tab.panes) = {}
    <3>1. with[u] = tabs[u] /\ tabs[u].number # next
      BY <1>1, <1>2 DEF TabsSound
    <3>2. ToSet(tabs[u].panes) \subseteq PanesIn(tabs)
      BY DEF PanesIn
    <3> QED
      BY <3>1, <3>2
  <2>3. ASSUME NEW t \in DOMAIN with, NEW u \in DOMAIN with, t # u
        PROVE  /\ with[t].number # with[u].number
               /\ ToSet(with[t].panes) \cap ToSet(with[u].panes) = {}
    <3>1. CASE t = n \/ u = n
      BY <1>2, <1>3, <2>2, <2>3, <3>1
    <3>2. CASE t # n /\ u # n
      BY <1>1, <1>2, <1>3, <2>3, <3>2 DEF TabsSound
    <3> QED
      BY <3>1, <3>2
  <2> QED
    BY <1>2, <2>1, <2>3 DEF TabsSound
<1> QED
  BY <1>1, <1>2, <1>4, <1>5 DEF with, n

\* One tab less.
LEMMA TabsRemoved ==
  ASSUME NEW tabs, NEW next, TabsSound(tabs, next), NEW t \in DOMAIN tabs
  PROVE  LET left == RemoveAt(tabs, t)
         IN  /\ TabsSound(left, next) /\ Len(left) = Len(tabs) - 1
             /\ PanesIn(left) = PanesIn(tabs) \ ToSet(tabs[t].panes)
             /\ \A u \in DOMAIN tabs \ {t} : \E v \in DOMAIN left : left[v] = tabs[u]
<1> DEFINE left == RemoveAt(tabs, t)
<1>1. tabs \in Seq(Tabs) /\ DOMAIN tabs = 1..Len(tabs)
  BY LenProperties DEF TabsSound
<1>2. left \in Seq(Tabs) /\ Len(left) = Len(tabs) - 1
  BY <1>1, ElementRemoved, Zenon
<1>3. PICK m : Picks(left, tabs, m) /\ Range(m) = DOMAIN tabs \ {t}
  BY <1>1, RemovedPicks
<1> HIDE DEF left
<1>4. TabsSound(left, next) /\ PanesIn(left) = UNION {ToSet(tabs[u].panes) : u \in DOMAIN tabs \ {t}}
  BY <1>2, <1>3, TabsPicked
<1>5. PanesIn(left) = PanesIn(tabs) \ ToSet(tabs[t].panes)
  BY <1>4 DEF PanesIn, TabsSound
<1>6. \A u \in DOMAIN tabs \ {t} : \E v \in DOMAIN left : left[v] = tabs[u]
  <2> TAKE u \in DOMAIN tabs \ {t}
  <2>1. PICK v \in DOMAIN m : m[v] = u
    BY <1>3 DEF Range
  <2> QED
    BY <1>3, <2>1 DEF Picks
<1> QED
  BY <1>2, <1>4, <1>5, <1>6 DEF left

-----------------------------------------------------------------------------
(* One workspace.                                                          *)

Partial(A, B) == UNION {[D -> B] : D \in SUBSET A}

WorkspaceSet ==
  [id : Nat, tabs : Seq(Tabs), active_tab : Nat,
   public_pane_numbers : Partial(Nat, Nat),
   next_public_pane_number : Nat \ {0}, next_public_tab_number : Nat \ {0},
   space : {"none", "main", "linked"}]

NumbersSound(ws) ==
  /\ IsInjective(ws.public_pane_numbers)
  /\ \A p \in DOMAIN ws.public_pane_numbers :
       ws.public_pane_numbers[p] \in 1..(ws.next_public_pane_number - 1)

\* A workspace that a pane has been taken from; it may have no tab, and the
\* pane still has its number.
Half(ws) ==
  /\ ws \in WorkspaceSet
  /\ TabsSound(ws.tabs, ws.next_public_tab_number) /\ NumbersSound(ws)
  /\ IF ws.tabs = <<>> THEN ws.active_tab = 1 ELSE ws.active_tab \in DOMAIN ws.tabs

Good(ws) ==
  Half(ws) /\ ws.tabs # <<>> /\ DOMAIN ws.public_pane_numbers = PanesOf(ws)

\* What becomes of a workspace in which p is placed.
Placed(ws, x, p) ==
  /\ Good(x) /\ x.id = ws.id /\ PanesOf(x) = PanesOf(ws) \cup {p}
  /\ \A q \in PanesOf(ws) : x.public_pane_numbers[q] = ws.public_pane_numbers[q]
  /\ IF p \in DOMAIN ws.public_pane_numbers
     THEN /\ x.public_pane_numbers[p] = ws.public_pane_numbers[p]
          /\ x.next_public_pane_number = ws.next_public_pane_number
     ELSE /\ x.public_pane_numbers[p] = ws.next_public_pane_number
          /\ x.next_public_pane_number = ws.next_public_pane_number + 1

\* What becomes of one that some panes leave, or none.
Left(ws, x, gone) ==
  /\ Good(x) /\ x.id = ws.id /\ PanesOf(x) = PanesOf(ws) \ gone
  /\ \A q \in PanesOf(x) : x.public_pane_numbers[q] = ws.public_pane_numbers[q]
  /\ x.next_public_pane_number = ws.next_public_pane_number

\* What becomes of one that changes only its tabs.
OnlyTabs(ws, x) ==
  /\ x.id = ws.id /\ x.public_pane_numbers = ws.public_pane_numbers
  /\ x.next_public_pane_number = ws.next_public_pane_number

\* Maps on some of A into B.
LEMMA PartialMap ==
  ASSUME NEW A, NEW B, NEW f
  PROVE  f \in Partial(A, B) <=> DOMAIN f \subseteq A /\ f \in [DOMAIN f -> B]
BY DEF Partial

\* A map stays one when an entry is put (HashMap::insert).
LEMMA WithOne ==
  ASSUME NEW A, NEW B, NEW f \in Partial(A, B), NEW k \in A, NEW v \in B
  PROVE  Put(f, k, v) \in Partial(A, B)
<1> DEFINE g == Put(f, k, v)
<1>1. DOMAIN f \subseteq A /\ f \in [DOMAIN f -> B]
  BY PartialMap
<1>2. g \in [DOMAIN f \cup {k} -> B] /\ DOMAIN g = DOMAIN f \cup {k}
  BY <1>1 DEF Put
<1> HIDE DEF g
<1>3. g \in Partial(A, B)
  BY <1>1, <1>2, PartialMap
<1> QED
  BY <1>3 DEF g

\* What it then has.
LEMMA WithOneIs ==
  ASSUME NEW f, NEW k, NEW v
  PROVE  /\ DOMAIN Put(f, k, v) = DOMAIN f \cup {k}
         /\ Put(f, k, v)[k] = v /\ \A x \in DOMAIN f \ {k} : Put(f, k, v)[x] = f[x]
BY DEF Put

\* A map stays one when a key goes (HashMap::remove).
LEMMA WithoutOne ==
  ASSUME NEW A, NEW B, NEW f \in Partial(A, B), NEW k
  PROVE  Without(f, k) \in Partial(A, B)
<1> DEFINE h == Without(f, k)
<1>1. DOMAIN f \subseteq A /\ f \in [DOMAIN f -> B]
  BY PartialMap
<1>2. h \in [DOMAIN f \ {k} -> B] /\ DOMAIN h = DOMAIN f \ {k}
  BY <1>1 DEF Without
<1> HIDE DEF h
<1>3. h \in Partial(A, B)
  BY <1>1, <1>2, PartialMap
<1> QED
  BY <1>3 DEF h

\* What it then has.
LEMMA WithoutOneIs ==
  ASSUME NEW f, NEW k
  PROVE  /\ DOMAIN Without(f, k) = DOMAIN f \ {k}
         /\ \A x \in DOMAIN f \ {k} : Without(f, k)[x] = f[x]
BY DEF Without

\* A well-formed workspace is what the source asserts of one.
LEMMA GoodIsInvariant ==
  ASSUME NEW ws, Good(ws)
  PROVE  WorkspaceInvariant(ws)
<1>1. ws.tabs # <<>> /\ ws.active_tab \in DOMAIN ws.tabs
  BY DEF Good, Half
<1>2. ASSUME NEW t \in DOMAIN ws.tabs
      PROVE  /\ ws.tabs[t].number \in 1..(ws.next_public_tab_number - 1)
             /\ IsInjective(ws.tabs[t].panes)
             /\ {ws.tabs[t].root_pane, ws.tabs[t].focused} \subseteq ToSet(ws.tabs[t].panes)
             /\ \A u \in DOMAIN ws.tabs \ {t} :
                  /\ ws.tabs[u].number # ws.tabs[t].number
                  /\ ToSet(ws.tabs[u].panes) \cap ToSet(ws.tabs[t].panes) = {}
  <2>1. TabSound(ws.tabs[t]) /\ ws.tabs[t].number \in 1..(ws.next_public_tab_number - 1)
    BY DEF Good, Half, TabsSound
  <2>2. \A u \in DOMAIN ws.tabs \ {t} :
          /\ ws.tabs[u].number # ws.tabs[t].number
          /\ ToSet(ws.tabs[u].panes) \cap ToSet(ws.tabs[t].panes) = {}
    BY DEF Good, Half, TabsSound
  <2> QED
    BY <2>1, <2>2 DEF TabSound
<1>3. /\ DOMAIN ws.public_pane_numbers = PanesOf(ws) /\ IsInjective(ws.public_pane_numbers)
      /\ \A p \in PanesOf(ws) :
           ws.public_pane_numbers[p] \in 1..(ws.next_public_pane_number - 1)
  BY DEF Good, Half, NumbersSound
<1> QED
  BY <1>1, <1>2, <1>3 DEF WorkspaceInvariant

\* Every tab has a pane.
LEMMA TabsHavePanes ==
  ASSUME NEW ws, Half(ws)
  PROVE  /\ PanesOf(ws) = PanesIn(ws.tabs) /\ PanesOf(ws) \subseteq Nat
         /\ ws.tabs = <<>> <=> PanesOf(ws) = {}
         /\ DOMAIN ws.tabs = 1..Len(ws.tabs) /\ Len(ws.tabs) \in Nat
<1>1. /\ DOMAIN ws.tabs = 1..Len(ws.tabs) /\ Len(ws.tabs) \in Nat
      /\ \A t \in DOMAIN ws.tabs : TabSound(ws.tabs[t])
  BY LenProperties DEF Half, TabsSound
<1>2. PanesOf(ws) = PanesIn(ws.tabs)
  BY DEF PanesOf, PanesIn
<1>3. PanesOf(ws) \subseteq Nat
  <2>1. ASSUME NEW t \in DOMAIN ws.tabs PROVE ToSet(ws.tabs[t].panes) \subseteq Nat
    <3>1. ws.tabs[t].panes \in Seq(Nat)
      BY <1>1 DEF TabSound, Tabs
    <3> QED
      BY <3>1, LenProperties DEF ToSet
  <2> QED
    BY <2>1 DEF PanesOf
<1>4. ASSUME ws.tabs # <<>> PROVE PanesOf(ws) # {}
  <2>1. ws.active_tab \in DOMAIN ws.tabs
    BY <1>4 DEF Half
  <2> QED
    BY <1>1, <2>1 DEF PanesOf, TabSound
<1>5. ws.tabs = <<>> => PanesOf(ws) = {}
  <2>1. DOMAIN <<>> = {}
    OBVIOUS
  <2> QED
    BY <2>1 DEF PanesOf
<1> QED
  BY <1>1, <1>2, <1>3, <1>4, <1>5

\* A new workspace has one pane, which has the public number 1.
LEMMA NewWorkspaceGood ==
  ASSUME NEW n \in Nat, NEW p \in Nat
  PROVE  LET ws == new_workspace(n, p)
         IN  /\ Good(ws) /\ ws.id = n /\ PanesOf(ws) = {p}
             /\ ws.public_pane_numbers[p] = 1 /\ ws.next_public_pane_number = 2
<1> DEFINE ws == new_workspace(n, p)
           tab == new_tab(1, p)
           numbers == Put(<<>>, p, 1)
<1>1. TabSound(tab) /\ tab.number = 1 /\ ToSet(tab.panes) = {p} /\ tab \in Tabs
  BY NewTabSound DEF TabSound
<1>2. /\ ws = [id |-> n, tabs |-> <<tab>>, active_tab |-> 1, public_pane_numbers |-> numbers,
               next_public_pane_number |-> 2, next_public_tab_number |-> 2, space |-> "none"]
  BY DEF new_workspace
<1>3. numbers = [x \in {p} |-> 1]
  BY DEF Put
<1> HIDE DEF tab, numbers
<1>4. <<tab>> \in Seq(Tabs) /\ DOMAIN <<tab>> = {1} /\ <<tab>>[1] = tab /\ <<tab>> # <<>>
  BY <1>1
<1> HIDE DEF ws
<1>5. TabsSound(ws.tabs, 2)
  BY <1>1, <1>2, <1>4 DEF TabsSound
<1>6. PanesOf(ws) = {p}
  BY <1>1, <1>2, <1>4 DEF PanesOf
<1>7. numbers \in Partial(Nat, Nat) /\ IsInjective(numbers) /\ DOMAIN numbers = {p} /\ numbers[p] = 1
  BY <1>3 DEF Partial, IsInjective
<1>8. ws \in WorkspaceSet
  BY <1>2, <1>4, <1>7 DEF WorkspaceSet
<1> QED
  BY <1>2, <1>4, <1>5, <1>6, <1>7, <1>8 DEF Good, Half, NumbersSound, ws

\* The group of a workspace.
LEMMA SpaceGood ==
  ASSUME NEW ws, Good(ws), NEW space \in {"none", "main", "linked"}
  PROVE  LET x == [ws EXCEPT !.space = space]
         IN  Left(ws, x, {}) /\ x.tabs = ws.tabs
<1> DEFINE x == [ws EXCEPT !.space = space]
<1>1. /\ x \in WorkspaceSet /\ x.id = ws.id /\ x.tabs = ws.tabs /\ x.active_tab = ws.active_tab
      /\ x.public_pane_numbers = ws.public_pane_numbers
      /\ x.next_public_pane_number = ws.next_public_pane_number
      /\ x.next_public_tab_number = ws.next_public_tab_number
  BY DEF Good, Half, WorkspaceSet
<1> HIDE DEF x
<1> QED
  BY <1>1 DEF Left, Good, Half, PanesOf, NumbersSound, x

\* A pane gets a number, one loses it.
LEMMA RegisterSound ==
  ASSUME NEW ws, Half(ws), NEW p \in Nat \ DOMAIN ws.public_pane_numbers
  PROVE  LET x == register_new_pane(ws, p)
         IN  /\ Half(x) /\ x.id = ws.id /\ x.tabs = ws.tabs
             /\ DOMAIN x.public_pane_numbers = DOMAIN ws.public_pane_numbers \cup {p}
             /\ \A q \in DOMAIN ws.public_pane_numbers :
                  x.public_pane_numbers[q] = ws.public_pane_numbers[q]
             /\ x.public_pane_numbers[p] = ws.next_public_pane_number
             /\ x.next_public_pane_number = ws.next_public_pane_number + 1
<1> DEFINE f == ws.public_pane_numbers
           n == ws.next_public_pane_number
           g == Put(f, p, n)
           x == register_new_pane(ws, p)
<1>1. f \in Partial(Nat, Nat) /\ n \in Nat \ {0}
  BY DEF Half, WorkspaceSet
<1>2. /\ g \in Partial(Nat, Nat) /\ DOMAIN g = DOMAIN f \cup {p} /\ g[p] = n
      /\ \A q \in DOMAIN f : g[q] = f[q]
  <2>1. n \in Nat /\ p \in Nat /\ p \notin DOMAIN f
    BY <1>1
  <2> HIDE DEF f, n
  <2>2. g \in Partial(Nat, Nat)
    BY <1>1, <2>1, WithOne
  <2>3. DOMAIN f \ {p} = DOMAIN f
    BY <2>1
  <2>4. /\ DOMAIN g = DOMAIN f \cup {p} /\ g[p] = n
        /\ \A q \in DOMAIN f \ {p} : g[q] = f[q]
    BY DEF Put
  <2> QED
    BY <2>2, <2>3, <2>4
<1>3. x = [ws EXCEPT !.public_pane_numbers = g, !.next_public_pane_number = n + 1]
  BY DEF register_new_pane, Half, WorkspaceSet
<1> HIDE DEF g, x
<1>4. /\ x \in WorkspaceSet /\ x.id = ws.id /\ x.tabs = ws.tabs /\ x.active_tab = ws.active_tab
      /\ x.public_pane_numbers = g /\ x.next_public_pane_number = n + 1
      /\ x.next_public_tab_number = ws.next_public_tab_number
  <2>1. n + 1 \in Nat \ {0}
    BY <1>1
  <2> HIDE DEF f
  <2> QED
    BY <1>2, <1>3, <2>1 DEF Half, WorkspaceSet
<1>5. \A q \in DOMAIN f : f[q] \in 1..(n - 1)
  BY DEF Half, NumbersSound
<1>6. \A q \in DOMAIN g : g[q] \in 1..n
  BY <1>1, <1>2, <1>5
<1>7. IsInjective(g)
  BY <1>1, <1>2, <1>5 DEF Half, NumbersSound, IsInjective
<1>8. NumbersSound(x)
  BY <1>1, <1>4, <1>6, <1>7 DEF NumbersSound
<1> QED
  BY <1>2, <1>4, <1>8 DEF Half, x

\* unregister_pane forgets the number of one pane and nothing else.
LEMMA UnregisterSound ==
  ASSUME NEW ws, Half(ws), NEW p \in Nat
  PROVE  LET x == unregister_pane(ws, p)
         IN  /\ Half(x) /\ x.id = ws.id /\ x.tabs = ws.tabs
             /\ DOMAIN x.public_pane_numbers = DOMAIN ws.public_pane_numbers \ {p}
             /\ \A q \in DOMAIN ws.public_pane_numbers \ {p} :
                  x.public_pane_numbers[q] = ws.public_pane_numbers[q]
             /\ x.next_public_pane_number = ws.next_public_pane_number
<1> DEFINE f == ws.public_pane_numbers
           g == Without(f, p)
           x == unregister_pane(ws, p)
<1>1. f \in Partial(Nat, Nat)
  BY DEF Half, WorkspaceSet
<1>2. /\ g \in Partial(Nat, Nat) /\ DOMAIN g = DOMAIN f \ {p}
      /\ \A q \in DOMAIN f \ {p} : g[q] = f[q]
  <2> HIDE DEF f
  <2> QED
    BY <1>1, WithoutOne, WithoutOneIs
<1>3. x = [ws EXCEPT !.public_pane_numbers = g]
  BY DEF unregister_pane, Half, WorkspaceSet
<1> HIDE DEF g, x
<1>4. /\ x \in WorkspaceSet /\ x.id = ws.id /\ x.tabs = ws.tabs /\ x.active_tab = ws.active_tab
      /\ x.public_pane_numbers = g /\ x.next_public_pane_number = ws.next_public_pane_number
      /\ x.next_public_tab_number = ws.next_public_tab_number
  BY <1>2, <1>3 DEF Half, WorkspaceSet
<1>5. NumbersSound(x)
  BY <1>2, <1>4 DEF Half, NumbersSound, IsInjective
<1> QED
  BY <1>2, <1>4, <1>5 DEF Half, x

\* Another list of tabs.
Tabbed(ws, tabs, active, next) ==
  [ws EXCEPT !.tabs = tabs, !.active_tab = active, !.next_public_tab_number = next]

\* A workspace may change its tabs for other sound ones.
LEMMA WithTabs ==
  ASSUME NEW ws, Half(ws), NEW tabs, NEW next \in Nat \ {0}, TabsSound(tabs, next),
         NEW active, IF tabs = <<>> THEN active = 1 ELSE active \in DOMAIN tabs
  PROVE  LET x == Tabbed(ws, tabs, active, next)
         IN  Half(x) /\ OnlyTabs(ws, x) /\ x.tabs = tabs /\ x.active_tab = active
<1> DEFINE x == Tabbed(ws, tabs, active, next)
<1>1. tabs \in Seq(Tabs) /\ active \in Nat
  BY LenProperties DEF TabsSound
<1>2. /\ x \in WorkspaceSet /\ x.id = ws.id /\ x.tabs = tabs /\ x.active_tab = active
      /\ x.public_pane_numbers = ws.public_pane_numbers
      /\ x.next_public_pane_number = ws.next_public_pane_number
      /\ x.next_public_tab_number = next
  BY <1>1 DEF Half, WorkspaceSet, Tabbed
<1> HIDE DEF x
<1>3. NumbersSound(x)
  BY <1>2 DEF Half, NumbersSound
<1> QED
  BY <1>2, <1>3 DEF Half, OnlyTabs, x

\* A workspace with the same panes and numbers.
LEMMA OnlyTabsLeft ==
  ASSUME NEW ws, NEW x, Good(ws), Half(x), OnlyTabs(ws, x), PanesOf(x) = PanesOf(ws)
  PROVE  Left(ws, x, {})
<1>1. x.tabs # <<>>
  BY TabsHavePanes DEF Good
<1> QED
  BY <1>1 DEF Left, Good, OnlyTabs

\* switch_tab keeps the tabs, the panes and their numbers.
LEMMA SwitchTabLeft ==
  ASSUME NEW ws, Good(ws), NEW t \in DOMAIN ws.tabs
  PROVE  Left(ws, switch_tab(ws, t), {}) /\ switch_tab(ws, t).tabs = ws.tabs
<1> DEFINE x == switch_tab(ws, t)
           n == ws.next_public_tab_number
<1>1. x = Tabbed(ws, ws.tabs, t, n)
  BY DEF switch_tab, Tabbed, Good, Half, WorkspaceSet
<1>2. Half(ws) /\ TabsSound(ws.tabs, n) /\ n \in Nat \ {0} /\ ws.tabs # <<>>
  BY DEF Good, Half, WorkspaceSet
<1> HIDE DEF x, n
<1>3. Half(x) /\ OnlyTabs(ws, x) /\ x.tabs = ws.tabs
  BY <1>1, <1>2, WithTabs
<1>4. PanesOf(x) = PanesOf(ws)
  BY <1>3 DEF PanesOf
<1> QED
  BY <1>3, <1>4, OnlyTabsLeft DEF x

\* One tab is changed, its panes are not taken by another.
Retabbed(ws, t, tab) == [ws EXCEPT !.tabs = Replaced(@, t, tab)]

\* Changing one tab changes the workspace's panes by that tab's.
LEMMA TabChanged ==
  ASSUME NEW ws, Half(ws), NEW t \in DOMAIN ws.tabs, NEW tab, TabSound(tab),
         tab.number = ws.tabs[t].number,
         \A u \in DOMAIN ws.tabs \ {t} : ToSet(tab.panes) \cap ToSet(ws.tabs[u].panes) = {}
  PROVE  LET x == Retabbed(ws, t, tab)
         IN  /\ Half(x) /\ OnlyTabs(ws, x) /\ DOMAIN x.tabs = DOMAIN ws.tabs /\ x.tabs # <<>>
             /\ x.tabs[t] = tab /\ \A u \in DOMAIN ws.tabs \ {t} : x.tabs[u] = ws.tabs[u]
             /\ PanesOf(x) = (PanesOf(ws) \ ToSet(ws.tabs[t].panes)) \cup ToSet(tab.panes)
             /\ x.active_tab = ws.active_tab
<1> DEFINE x == Retabbed(ws, t, tab)
           tabs == Replaced(ws.tabs, t, tab)
           n == ws.next_public_tab_number
           a == ws.active_tab
<1>1. /\ TabsSound(ws.tabs, n) /\ n \in Nat \ {0}
      /\ IF ws.tabs = <<>> THEN a = 1 ELSE a \in DOMAIN ws.tabs
  BY DEF Half, WorkspaceSet
<1>2. x = Tabbed(ws, tabs, a, n)
  BY DEF Half, WorkspaceSet, Tabbed, Retabbed
<1>3. /\ TabsSound(tabs, n) /\ DOMAIN tabs = DOMAIN ws.tabs
      /\ tabs[t] = tab /\ \A u \in DOMAIN ws.tabs \ {t} : tabs[u] = ws.tabs[u]
      /\ PanesIn(tabs) = (PanesIn(ws.tabs) \ ToSet(ws.tabs[t].panes)) \cup ToSet(tab.panes)
  BY <1>1, TabsReplaced
<1> HIDE DEF x, tabs, n
<1>4. ws.tabs # <<>> /\ tabs # <<>>
  <2>1. DOMAIN <<>> = {}
    OBVIOUS
  <2> QED
    BY <1>3, <2>1
<1>5. Half(x) /\ OnlyTabs(ws, x) /\ x.tabs = tabs /\ x.active_tab = a
  BY <1>1, <1>2, <1>3, <1>4, WithTabs
<1>6. PanesOf(x) = PanesIn(tabs) /\ PanesOf(ws) = PanesIn(ws.tabs)
  BY <1>5, TabsHavePanes
<1> QED
  BY <1>3, <1>4, <1>5, <1>6 DEF x

\* Focusing a pane in its tab keeps the panes and their numbers.
LEMMA LayoutFocusLeft ==
  ASSUME NEW ws, Good(ws), NEW t \in DOMAIN ws.tabs, NEW p \in ToSet(ws.tabs[t].panes)
  PROVE  /\ Left(ws, layout_focus(ws, t, p), {})
         /\ DOMAIN layout_focus(ws, t, p).tabs = DOMAIN ws.tabs
<1> DEFINE old == ws.tabs[t]
           tab == [old EXCEPT !.focused = p]
           x == layout_focus(ws, t, p)
<1>1. Half(ws) /\ TabSound(old)
  BY DEF Good, Half, TabsSound
<1>2. x = Retabbed(ws, t, tab)
  BY DEF layout_focus, Retabbed, Replaced
<1>3. p \in Nat
  BY TabsHavePanes, <1>1 DEF PanesOf
<1>4. TabSound(tab) /\ tab.number = old.number /\ tab.panes = old.panes
  <2> HIDE DEF old
  <2>1. p \in ToSet(old.panes)
    BY DEF old
  <2> QED
    BY <1>1, <1>3, <2>1 DEF TabSound, Tabs
<1>5. \A u \in DOMAIN ws.tabs \ {t} : ToSet(tab.panes) \cap ToSet(ws.tabs[u].panes) = {}
  BY <1>4 DEF Good, Half, TabsSound
<1> HIDE DEF tab, x
<1>6. /\ Half(x) /\ OnlyTabs(ws, x) /\ DOMAIN x.tabs = DOMAIN ws.tabs
      /\ PanesOf(x) = (PanesOf(ws) \ ToSet(old.panes)) \cup ToSet(tab.panes)
  BY <1>1, <1>2, <1>4, <1>5, TabChanged
<1>7. PanesOf(x) = PanesOf(ws)
  <2>1. ToSet(old.panes) \subseteq PanesOf(ws)
    BY DEF PanesOf
  <2> QED
    BY <1>4, <1>6, <2>1
<1> QED
  BY <1>6, <1>7, OnlyTabsLeft DEF x

\* A tab goes, and the active one is still a tab.
LEMMA RemoveTabSound ==
  ASSUME NEW ws, Half(ws), NEW t \in DOMAIN ws.tabs
  PROVE  LET x == remove_tab(ws, t)
         IN  /\ Half(x) /\ OnlyTabs(ws, x)
             /\ PanesOf(x) = PanesOf(ws) \ ToSet(ws.tabs[t].panes)
             /\ \A u \in DOMAIN ws.tabs \ {t} : \E v \in DOMAIN x.tabs : x.tabs[v] = ws.tabs[u]
<1> DEFINE tabs == RemoveAt(ws.tabs, t)
           n == ws.next_public_tab_number
           left == Len(ws.tabs) - 1
           a == IF left = 0 THEN 1
                ELSE IF ws.active_tab > left THEN left
                ELSE IF t <= ws.active_tab /\ ws.active_tab > 1 THEN ws.active_tab - 1
                ELSE ws.active_tab
           x == remove_tab(ws, t)
<1>1. /\ TabsSound(ws.tabs, n) /\ n \in Nat \ {0}
      /\ DOMAIN ws.tabs = 1..Len(ws.tabs) /\ Len(ws.tabs) \in Nat
  BY TabsHavePanes DEF Half, WorkspaceSet
<1>2. ws.active_tab \in 1..Len(ws.tabs)
  <2>1. DOMAIN <<>> = {}
    OBVIOUS
  <2> QED
    BY <1>1, <2>1 DEF Half
<1>3. x = Tabbed(ws, tabs, a, n)
  BY DEF remove_tab, Tabbed, Half, WorkspaceSet
<1>4. /\ TabsSound(tabs, n) /\ Len(tabs) = left
      /\ PanesIn(tabs) = PanesIn(ws.tabs) \ ToSet(ws.tabs[t].panes)
      /\ \A u \in DOMAIN ws.tabs \ {t} : \E v \in DOMAIN tabs : tabs[v] = ws.tabs[u]
  BY <1>1, TabsRemoved
<1> HIDE DEF tabs, n, x
<1>5. IF tabs = <<>> THEN a = 1 ELSE a \in DOMAIN tabs
  <2>1. DOMAIN tabs = 1..left /\ (tabs = <<>> <=> left = 0)
    BY <1>4, LenProperties, EmptySeq DEF TabsSound
  <2>2. left \in Nat
    BY <1>1, <1>2
  <2>3. left # 0 => a \in 1..left
    <3>1. \A l, i \in Nat : i \in 1..(l + 1) /\ l # 0 =>
            (IF i > l THEN l ELSE IF t <= i /\ i > 1 THEN i - 1 ELSE i) \in 1..l
      OBVIOUS
    <3>2. left \in Nat /\ ws.active_tab \in Nat /\ ws.active_tab \in 1..(left + 1)
      BY <1>1, <1>2, <2>2
    <3> QED
      BY <3>1, <3>2
  <2> QED
    BY <2>1, <2>3
<1> HIDE DEF a
<1>6. Half(x) /\ OnlyTabs(ws, x) /\ x.tabs = tabs
  BY <1>1, <1>3, <1>4, <1>5, WithTabs
<1>7. PanesOf(x) = PanesIn(tabs) /\ PanesOf(ws) = PanesIn(ws.tabs)
  BY <1>6, TabsHavePanes
<1> QED
  BY <1>4, <1>6, <1>7 DEF x

\* A pane leaves its tab, and the tab goes with its last one.
LEMMA TakeSound ==
  ASSUME NEW ws, Half(ws), NEW p \in PanesOf(ws)
  PROVE  LET x == take_pane_for_move(ws, p)
         IN  /\ Half(x) /\ OnlyTabs(ws, x) /\ PanesOf(x) = PanesOf(ws) \ {p}
             /\ \A u \in DOMAIN ws.tabs : p \notin ToSet(ws.tabs[u].panes) =>
                  \E v \in DOMAIN x.tabs : x.tabs[v] = ws.tabs[u]
<1> DEFINE t == find_tab_index_for_pane(ws, p)
           x == take_pane_for_move(ws, p)
<1>1. t \in DOMAIN ws.tabs /\ p \in ToSet(ws.tabs[t].panes)
  BY DEF PanesOf, find_tab_index_for_pane
<1>2. x = IF Len(ws.tabs[t].panes) = 1 THEN remove_tab(ws, t)
          ELSE [ws EXCEPT !.tabs[t] = detach_pane(@, p)]
  BY DEF take_pane_for_move
<1> HIDE DEF t, x
<1>3. TabSound(ws.tabs[t])
  BY <1>1 DEF Half, TabsSound
<1>4. \A u \in DOMAIN ws.tabs \ {t} : p \notin ToSet(ws.tabs[u].panes)
  BY <1>1 DEF Half, TabsSound
<1>5. CASE Len(ws.tabs[t].panes) = 1
  <2>1. ws.tabs[t].panes \in Seq(Nat) /\ DOMAIN ws.tabs[t].panes = {1}
    BY <1>3, <1>5, LenProperties DEF TabSound, Tabs
  <2>2. ToSet(ws.tabs[t].panes) = {p}
    BY <1>1, <2>1 DEF ToSet
  <2>3. x = remove_tab(ws, t)
    BY <1>2, <1>5
  <2>4. /\ Half(x) /\ OnlyTabs(ws, x)
        /\ PanesOf(x) = PanesOf(ws) \ ToSet(ws.tabs[t].panes)
        /\ \A u \in DOMAIN ws.tabs \ {t} : \E v \in DOMAIN x.tabs : x.tabs[v] = ws.tabs[u]
    BY <1>1, <2>3, RemoveTabSound
  <2>5. \A u \in DOMAIN ws.tabs : p \notin ToSet(ws.tabs[u].panes) =>
          \E v \in DOMAIN x.tabs : x.tabs[v] = ws.tabs[u]
    BY <1>1, <2>4
  <2> QED
    BY <2>2, <2>4, <2>5 DEF x
<1>6. CASE Len(ws.tabs[t].panes) # 1
  <2> DEFINE tab == detach_pane(ws.tabs[t], p)
  <2>1. /\ TabSound(tab) /\ tab.number = ws.tabs[t].number
        /\ ToSet(tab.panes) = ToSet(ws.tabs[t].panes) \ {p}
    BY <1>1, <1>3, <1>6, DetachPaneSound
  <2>2. x = Retabbed(ws, t, tab)
    BY <1>2, <1>6 DEF Retabbed, Replaced
  <2> HIDE DEF tab
  <2>3. \A u \in DOMAIN ws.tabs \ {t} : ToSet(tab.panes) \cap ToSet(ws.tabs[u].panes) = {}
    BY <1>1, <2>1 DEF Half, TabsSound
  <2>4. /\ Half(x) /\ OnlyTabs(ws, x) /\ DOMAIN x.tabs = DOMAIN ws.tabs
        /\ \A u \in DOMAIN ws.tabs \ {t} : x.tabs[u] = ws.tabs[u]
        /\ PanesOf(x) = (PanesOf(ws) \ ToSet(ws.tabs[t].panes)) \cup ToSet(tab.panes)
    BY <1>1, <2>1, <2>2, <2>3, TabChanged
  <2>5. PanesOf(x) = PanesOf(ws) \ {p}
    <3>1. ToSet(ws.tabs[t].panes) \subseteq PanesOf(ws)
      BY <1>1 DEF PanesOf
    <3> QED
      BY <1>1, <2>1, <2>4, <3>1
  <2>6. \A u \in DOMAIN ws.tabs : p \notin ToSet(ws.tabs[u].panes) =>
          \E v \in DOMAIN x.tabs : x.tabs[v] = ws.tabs[u]
    BY <1>1, <2>4
  <2> QED
    BY <2>4, <2>5, <2>6 DEF x
<1> QED
  BY <1>5, <1>6

\* A pane goes for good, not being the last one.
LEMMA UnregisteredLeft ==
  ASSUME NEW ws, Good(ws), NEW p \in PanesOf(ws), NEW with, Half(with), OnlyTabs(ws, with),
         PanesOf(with) = PanesOf(ws) \ {p}, with.tabs # <<>>
  PROVE  Left(ws, unregister_pane(with, p), {p})
<1> DEFINE x == unregister_pane(with, p)
<1>1. p \in Nat
  BY TabsHavePanes DEF Good
<1>2. /\ Half(x) /\ x.id = with.id /\ x.tabs = with.tabs
      /\ DOMAIN x.public_pane_numbers = DOMAIN with.public_pane_numbers \ {p}
      /\ \A q \in DOMAIN with.public_pane_numbers \ {p} :
           x.public_pane_numbers[q] = with.public_pane_numbers[q]
      /\ x.next_public_pane_number = with.next_public_pane_number
  BY <1>1, UnregisterSound
<1> HIDE DEF x
<1>3. PanesOf(x) = PanesOf(with)
  BY <1>2 DEF PanesOf
<1>4. /\ x.id = ws.id /\ DOMAIN x.public_pane_numbers = PanesOf(x)
      /\ DOMAIN ws.public_pane_numbers = PanesOf(ws)
      /\ with.public_pane_numbers = ws.public_pane_numbers
      /\ x.next_public_pane_number = ws.next_public_pane_number
  BY <1>2, <1>3 DEF OnlyTabs, Good
<1>5. Good(x)
  BY <1>2, <1>4 DEF Good
<1> QED
  BY <1>2, <1>3, <1>4, <1>5 DEF Left, x

\* close_pane takes the pane, and its tab when it was the tab's only one,
\* and keeps the numbers of the others.
LEMMA ClosePaneLeft ==
  ASSUME NEW ws, Good(ws), NEW p \in PanesOf(ws), ~LastPane(ws, p)
  PROVE  Left(ws, close_pane(ws, p), {p})
<1> DEFINE with == take_pane_for_move(ws, p)
<1>1. Half(with) /\ OnlyTabs(ws, with) /\ PanesOf(with) = PanesOf(ws) \ {p}
  BY TakeSound DEF Good
<1>2. close_pane(ws, p) = unregister_pane(with, p)
  BY DEF close_pane
<1> HIDE DEF with
<1>3. PanesOf(with) # {}
  BY <1>1 DEF LastPane
<1>4. with.tabs # <<>>
  BY <1>1, <1>3, TabsHavePanes
<1> QED
  BY <1>1, <1>2, <1>4, UnregisteredLeft

\* A tab goes with its panes, not being the last one.
LEMMA CloseTabLeft ==
  ASSUME NEW ws, Good(ws), NEW t \in DOMAIN ws.tabs, Len(ws.tabs) > 1
  PROVE  Left(ws, close_tab(ws, t), ToSet(ws.tabs[t].panes))
<1> DEFINE with == remove_tab(ws, t)
           gone == ToSet(ws.tabs[t].panes)
           f == with.public_pane_numbers
           g == [p \in DOMAIN f \ gone |-> f[p]]
           x == close_tab(ws, t)
<1>1. Half(ws)
  BY DEF Good
<1>2. /\ Half(with) /\ OnlyTabs(ws, with) /\ PanesOf(with) = PanesOf(ws) \ gone
      /\ \A u \in DOMAIN ws.tabs \ {t} : \E v \in DOMAIN with.tabs : with.tabs[v] = ws.tabs[u]
  BY <1>1, RemoveTabSound
<1>3. x = [with EXCEPT !.public_pane_numbers = g]
  BY DEF close_tab
<1> HIDE DEF with, x, gone
<1>4. with.tabs # <<>>
  <2>1. \E u \in DOMAIN ws.tabs : u # t
    <3>1. DOMAIN ws.tabs = 1..Len(ws.tabs) /\ Len(ws.tabs) \in Nat
      BY <1>1, TabsHavePanes
    <3>2. 1 \in DOMAIN ws.tabs /\ 2 \in DOMAIN ws.tabs
      BY <3>1
    <3> QED
      BY <3>2
  <2>2. PICK v \in DOMAIN with.tabs : TRUE
    BY <1>2, <2>1
  <2>3. DOMAIN <<>> = {}
    OBVIOUS
  <2> QED
    BY <2>2, <2>3
<1>5. f \in Partial(Nat, Nat)
  BY <1>2 DEF Half, WorkspaceSet
<1>6. g \in Partial(Nat, Nat) /\ DOMAIN g = DOMAIN f \ gone /\ \A p \in DOMAIN g : g[p] = f[p]
  <2> HIDE DEF f
  <2>1. DOMAIN f \subseteq Nat /\ f \in [DOMAIN f -> Nat]
    BY <1>5, PartialMap
  <2>2. DOMAIN g = DOMAIN f \ gone /\ g \in [DOMAIN g -> Nat]
    BY <2>1
  <2> HIDE DEF g
  <2>3. g \in Partial(Nat, Nat)
    BY <2>1, <2>2, PartialMap
  <2> QED
    BY <2>2, <2>3 DEF g
<1> HIDE DEF g
<1>7. /\ x \in WorkspaceSet /\ x.id = with.id /\ x.tabs = with.tabs
      /\ x.active_tab = with.active_tab /\ x.public_pane_numbers = g
      /\ x.next_public_pane_number = with.next_public_pane_number
      /\ x.next_public_tab_number = with.next_public_tab_number
  BY <1>2, <1>3, <1>6 DEF Half, WorkspaceSet
<1>8. NumbersSound(x)
  BY <1>2, <1>6, <1>7 DEF Half, NumbersSound, IsInjective
<1>9. Half(x) /\ PanesOf(x) = PanesOf(with)
  BY <1>2, <1>7, <1>8 DEF Half, PanesOf
<1>10. f = ws.public_pane_numbers /\ DOMAIN f = PanesOf(ws)
  BY <1>2 DEF OnlyTabs, Good
<1>11. Good(x)
  BY <1>2, <1>4, <1>6, <1>7, <1>9, <1>10 DEF Good
<1> QED
  BY <1>2, <1>6, <1>7, <1>9, <1>10, <1>11 DEF Left, OnlyTabs, x, gone

\* The tabs in another order, the same one active.
LEMMA MoveTabLeft ==
  ASSUME NEW ws, Good(ws), NEW source \in DOMAIN ws.tabs,
         NEW insert \in 1..(Len(ws.tabs) + 1), insert \notin {source, source + 1}
  PROVE  Left(ws, move_tab(ws, source, insert), {})
<1> DEFINE target == IF source < insert THEN insert - 1 ELSE insert
           tabs == InsertAt(RemoveAt(ws.tabs, source), target, ws.tabs[source])
           root == ws.tabs[ws.active_tab].root_pane
           active == CHOOSE t \in DOMAIN tabs : tabs[t].root_pane = root
           n == ws.next_public_tab_number
           x == move_tab(ws, source, insert)
<1>1. /\ Half(ws) /\ TabsSound(ws.tabs, n) /\ ws.tabs \in Seq(Tabs) /\ n \in Nat \ {0}
      /\ DOMAIN ws.tabs = 1..Len(ws.tabs) /\ Len(ws.tabs) \in Nat
      /\ ws.active_tab \in DOMAIN ws.tabs
  BY TabsHavePanes DEF Good, Half, WorkspaceSet, TabsSound
<1>2. target \in 1..Len(ws.tabs)
  BY <1>1
<1>3. x = Tabbed(ws, tabs, active, n)
  <2>1. x = [ws EXCEPT !.tabs = tabs, !.active_tab = active]
    BY DEF move_tab
  <2> HIDE DEF x, tabs, active
  <2> QED
    BY <2>1 DEF Tabbed, Good, Half, WorkspaceSet
<1> HIDE DEF target
<1>4. tabs \in Seq(Tabs) /\ \E m : Picks(tabs, ws.tabs, m) /\ Range(m) = DOMAIN ws.tabs
  BY <1>1, <1>2, MovedPicks
<1> HIDE DEF tabs, x, n, active
<1>5. PICK m : Picks(tabs, ws.tabs, m) /\ Range(m) = DOMAIN ws.tabs
  BY <1>4
<1>6. TabsSound(tabs, n) /\ PanesIn(tabs) = PanesIn(ws.tabs)
  <2>1. /\ TabsSound(tabs, n)
        /\ PanesIn(tabs) = UNION {ToSet(ws.tabs[t].panes) : t \in Range(m)}
    <3>1. TabsSound(ws.tabs, n) /\ tabs \in Seq(Tabs) /\ Picks(tabs, ws.tabs, m)
      BY <1>1, <1>4, <1>5
    <3> QED
      BY ONLY <3>1, TabsPicked
  <2> QED
    BY <1>5, <2>1 DEF PanesIn
<1>7. PICK k \in DOMAIN tabs : m[k] = ws.active_tab
  BY <1>1, <1>5 DEF Picks, Range
<1>8. tabs[k].root_pane = root
  BY <1>5, <1>7 DEF Picks
<1>9. active \in DOMAIN tabs
  BY <1>7, <1>8 DEF active
<1>10. tabs # <<>>
  <2>1. DOMAIN <<>> = {}
    OBVIOUS
  <2> QED
    BY <1>7, <2>1
<1>11. Half(x) /\ OnlyTabs(ws, x) /\ x.tabs = tabs
  BY <1>1, <1>3, <1>6, <1>9, <1>10, WithTabs
<1>12. PanesOf(x) = PanesOf(ws)
  BY <1>1, <1>6, <1>11, TabsHavePanes
<1> QED
  BY <1>11, <1>12, OnlyTabsLeft DEF x

\* A pane that is in a tab gets a number, if it has none here.
LEMMA Numbered ==
  ASSUME NEW ws, Half(ws), NEW with, Half(with), OnlyTabs(ws, with), with.tabs # <<>>,
         NEW p \in Nat, PanesOf(with) = PanesOf(ws) \cup {p},
         DOMAIN ws.public_pane_numbers \ {p} = PanesOf(ws)
  PROVE  LET x == IF p \in DOMAIN ws.public_pane_numbers THEN with ELSE register_new_pane(with, p)
         IN  Placed(ws, x, p) /\ x.tabs = with.tabs
<1>1. CASE p \in DOMAIN ws.public_pane_numbers
  <2>1. Good(with)
    BY <1>1 DEF OnlyTabs, Good
  <2> QED
    BY <1>1, <2>1 DEF Placed, OnlyTabs
<1>2. CASE p \notin DOMAIN ws.public_pane_numbers
  <2> DEFINE x == register_new_pane(with, p)
  <2>1. p \in Nat \ DOMAIN with.public_pane_numbers
    BY <1>2 DEF OnlyTabs
  <2>2. /\ Half(x) /\ x.id = with.id /\ x.tabs = with.tabs
        /\ DOMAIN x.public_pane_numbers = DOMAIN with.public_pane_numbers \cup {p}
        /\ \A q \in DOMAIN with.public_pane_numbers :
             x.public_pane_numbers[q] = with.public_pane_numbers[q]
        /\ x.public_pane_numbers[p] = with.next_public_pane_number
        /\ x.next_public_pane_number = with.next_public_pane_number + 1
    BY <2>1, RegisterSound
  <2> HIDE DEF x
  <2>3. PanesOf(x) = PanesOf(with)
    BY <2>2 DEF PanesOf
  <2>4. Good(x)
    BY <2>2, <2>3 DEF OnlyTabs, Good
  <2>5. Placed(ws, x, p)
    BY <1>2, <2>2, <2>3, <2>4 DEF Placed, OnlyTabs
  <2> QED
    BY <1>2, <2>2, <2>5 DEF x
<1> QED
  BY <1>1, <1>2

\* A pane in a tab of its own.
LEMMA CreateTabPlaced ==
  ASSUME NEW ws, Half(ws), NEW p \in Nat \ PanesOf(ws),
         DOMAIN ws.public_pane_numbers \ {p} = PanesOf(ws)
  PROVE  /\ Placed(ws, create_tab(ws, p), p)
         /\ Len(create_tab(ws, p).tabs) \in DOMAIN create_tab(ws, p).tabs
<1> DEFINE n == ws.next_public_tab_number
           tab == new_tab(n, p)
           tabs == Append(ws.tabs, tab)
           with == Tabbed(ws, tabs, ws.active_tab, n + 1)
           x == create_tab(ws, p)
<1>1. /\ TabsSound(ws.tabs, n) /\ n \in Nat \ {0} /\ n + 1 \in Nat \ {0}
      /\ DOMAIN ws.tabs = 1..Len(ws.tabs) /\ Len(ws.tabs) \in Nat
      /\ PanesOf(ws) = PanesIn(ws.tabs)
      /\ IF ws.tabs = <<>> THEN ws.active_tab = 1 ELSE ws.active_tab \in DOMAIN ws.tabs
  BY TabsHavePanes DEF Half, WorkspaceSet
<1>2. x = IF p \in DOMAIN ws.public_pane_numbers THEN with ELSE register_new_pane(with, p)
  BY DEF create_tab, Tabbed, Half, WorkspaceSet
<1>3. TabSound(tab) /\ tab.number = n /\ ToSet(tab.panes) = {p}
  BY <1>1, NewTabSound
<1> HIDE DEF tab, n
<1>4. /\ TabsSound(tabs, n + 1) /\ Len(tabs) = Len(ws.tabs) + 1 /\ tabs # <<>>
      /\ PanesIn(tabs) = PanesIn(ws.tabs) \cup {p}
  BY <1>1, <1>3, TabsAppended
<1> HIDE DEF tabs
<1>5. DOMAIN tabs = 1..(Len(ws.tabs) + 1) /\ Len(tabs) \in DOMAIN tabs
  <2>1. DOMAIN tabs = 1..Len(tabs)
    BY <1>4, LenProperties DEF TabsSound
  <2> QED
    BY <1>1, <1>4, <2>1
<1>6. ws.active_tab \in DOMAIN tabs
  BY <1>1, <1>5
<1>7. Half(with) /\ OnlyTabs(ws, with) /\ with.tabs = tabs
  BY <1>1, <1>4, <1>6, WithTabs
<1> HIDE DEF with
<1>8. PanesOf(with) = PanesOf(ws) \cup {p}
  <2>1. PanesOf(with) = PanesIn(with.tabs)
    BY <1>7, TabsHavePanes
  <2> QED
    BY <1>1, <1>4, <1>7, <2>1
<1>9. Placed(ws, x, p) /\ x.tabs = with.tabs
  <2> HIDE DEF x
  <2> QED
    BY <1>2, <1>4, <1>7, <1>8, Numbered
<1> QED
  BY <1>5, <1>7, <1>9

\* A pane in a tab that is there, beside another pane.
LEMMA InsertPlaced ==
  ASSUME NEW ws, Half(ws), NEW p \in Nat \ PanesOf(ws),
         DOMAIN ws.public_pane_numbers \ {p} = PanesOf(ws),
         NEW t \in DOMAIN ws.tabs, NEW target \in ToSet(ws.tabs[t].panes)
  PROVE  LET x == insert_moved_pane_into_tab(ws, t, target, p)
         IN  /\ Placed(ws, x, p) /\ t \in DOMAIN x.tabs
             /\ ToSet(ws.tabs[t].panes) \subseteq ToSet(x.tabs[t].panes)
<1> DEFINE old == ws.tabs[t]
           tab == insert_pane(old, target, p)
           with == Retabbed(ws, t, tab)
           x == insert_moved_pane_into_tab(ws, t, target, p)
<1>1. TabSound(old) /\ ToSet(old.panes) \subseteq PanesOf(ws)
  BY DEF Half, TabsSound, PanesOf
<1>2. TabSound(tab) /\ tab.number = old.number /\ ToSet(tab.panes) = ToSet(old.panes) \cup {p}
  BY <1>1, InsertPaneSound
<1>3. x = IF p \in DOMAIN ws.public_pane_numbers THEN with ELSE register_new_pane(with, p)
  BY DEF insert_moved_pane_into_tab, Retabbed, Replaced
<1> HIDE DEF tab, x
<1>4. ASSUME NEW u \in DOMAIN ws.tabs \ {t}
      PROVE  ToSet(tab.panes) \cap ToSet(ws.tabs[u].panes) = {}
  <2>1. ToSet(old.panes) \cap ToSet(ws.tabs[u].panes) = {}
    BY DEF Half, TabsSound
  <2>2. p \notin ToSet(ws.tabs[u].panes)
    BY DEF PanesOf
  <2> QED
    BY <1>2, <2>1, <2>2
<1>5. /\ Half(with) /\ OnlyTabs(ws, with) /\ DOMAIN with.tabs = DOMAIN ws.tabs
      /\ with.tabs # <<>> /\ with.tabs[t] = tab
      /\ PanesOf(with) = (PanesOf(ws) \ ToSet(old.panes)) \cup ToSet(tab.panes)
  <2>1. TabSound(tab) /\ tab.number = ws.tabs[t].number
    BY <1>2
  <2> QED
    BY <1>4, <2>1, TabChanged
<1> HIDE DEF with
<1>6. PanesOf(with) = PanesOf(ws) \cup {p}
  BY <1>1, <1>2, <1>5
<1>7. Placed(ws, x, p) /\ x.tabs = with.tabs
  BY <1>3, <1>5, <1>6, Numbered
<1> QED
  BY <1>2, <1>5, <1>7 DEF x

\* ... or with the focus back where it was.
LEMMA PlacedThenLeft ==
  ASSUME NEW ws, NEW x, NEW y, NEW p, Placed(ws, x, p), Left(x, y, {})
  PROVE  Placed(ws, y, p)
BY DEF Placed, Left

\* split_pane places a pane that has its number already.
LEMMA SplitPlaced ==
  ASSUME NEW ws, Half(ws), NEW p \in Nat \ PanesOf(ws),
         DOMAIN ws.public_pane_numbers \ {p} = PanesOf(ws),
         NEW t \in DOMAIN ws.tabs, NEW target \in ToSet(ws.tabs[t].panes), NEW focus \in BOOLEAN
  PROVE  LET x == split_pane(ws, t, target, p, focus)
         IN  Placed(ws, x, p) /\ t \in DOMAIN x.tabs
<1> DEFINE with == insert_moved_pane_into_tab(ws, t, target, p)
           f == ws.tabs[t].focused
           x == split_pane(ws, t, target, p, focus)
<1>1. x = IF focus THEN with ELSE layout_focus(with, t, f)
  BY DEF split_pane
<1>2. /\ Placed(ws, with, p) /\ t \in DOMAIN with.tabs
      /\ ToSet(ws.tabs[t].panes) \subseteq ToSet(with.tabs[t].panes)
  BY InsertPlaced
<1>3. f \in ToSet(ws.tabs[t].panes)
  BY DEF Half, TabsSound, TabSound
<1> HIDE DEF with, f, x
<1>4. /\ Left(with, layout_focus(with, t, f), {})
      /\ DOMAIN layout_focus(with, t, f).tabs = DOMAIN with.tabs
  BY <1>2, <1>3, LayoutFocusLeft DEF Placed
<1>5. Placed(ws, layout_focus(with, t, f), p)
  BY <1>2, <1>4, PlacedThenLeft
<1> QED
  BY <1>1, <1>2, <1>4, <1>5 DEF x

\* A pane that comes back under its number has not left.
LEMMA BackIsLeft ==
  ASSUME NEW ws, Good(ws), NEW p \in PanesOf(ws), NEW with, OnlyTabs(ws, with),
         PanesOf(with) = PanesOf(ws) \ {p}, NEW x, Placed(with, x, p)
  PROVE  Left(ws, x, {})
<1>1. /\ p \in DOMAIN with.public_pane_numbers /\ with.public_pane_numbers = ws.public_pane_numbers
      /\ with.id = ws.id /\ with.next_public_pane_number = ws.next_public_pane_number
  BY DEF OnlyTabs, Good
<1> QED
  BY <1>1 DEF Left, Placed

-----------------------------------------------------------------------------
(* All workspaces.                                                         *)

WorkspacesSound(W) ==
  /\ W \in Seq(WorkspaceSet)
  /\ \A w \in DOMAIN W : Good(W[w])
  /\ \A v, w \in DOMAIN W : v # w =>
       W[v].id # W[w].id /\ PanesOf(W[v]) \cap PanesOf(W[w]) = {}

AllPanes(W) == UNION {PanesOf(W[w]) : w \in DOMAIN W}

\* The public id of a pane.
Name(W, p) ==
  LET ws == W[CHOOSE w \in DOMAIN W : p \in PanesOf(W[w])]
  IN  [workspace |-> ws.id, number |-> ws.public_pane_numbers[p]]

\* No pane got another public id; some are gone.
Same(W, X, gone) ==
  /\ WorkspacesSound(X) /\ AllPanes(X) = AllPanes(W) \ gone
  /\ \A x \in DOMAIN X : \E w \in DOMAIN W : Left(W[w], X[x], gone)

\* Only p got one, the next of its workspace or the first one of workspace n.
Gains(W, X, p, n) ==
  /\ WorkspacesSound(X) /\ p \in AllPanes(X) /\ AllPanes(X) = AllPanes(W) \cup {p}
  /\ \A x \in DOMAIN X :
       \/ \E w \in DOMAIN W : Left(W[w], X[x], {})
       \/ \E w \in DOMAIN W : Placed(W[w], X[x], p)
       \/ X[x].id = n /\ PanesOf(X[x]) = {p}

\* An id that was given away.
Reserved(W, n, id) ==
  /\ id.workspace \in 1..(n - 1)
  /\ \A w \in DOMAIN W : W[w].id = id.workspace => id.number < W[w].next_public_pane_number

\* The name of a pane is that in its workspace.
LEMMA NameIs ==
  ASSUME NEW W, WorkspacesSound(W), NEW w \in DOMAIN W, NEW p \in PanesOf(W[w])
  PROVE  Name(W, p) = [workspace |-> W[w].id, number |-> W[w].public_pane_numbers[p]]
<1> DEFINE v == CHOOSE v \in DOMAIN W : p \in PanesOf(W[v])
<1>1. v \in DOMAIN W /\ p \in PanesOf(W[v])
  OBVIOUS
<1>2. v = w
  <2> HIDE DEF v
  <2> QED
    BY <1>1 DEF WorkspacesSound
<1> QED
  BY <1>2 DEF Name

\* Two panes have two names.
LEMMA NamesDiffer ==
  ASSUME NEW W, WorkspacesSound(W), NEW p \in AllPanes(W), NEW q \in AllPanes(W),
         Name(W, p) = Name(W, q)
  PROVE  p = q
<1>1. PICK v \in DOMAIN W : p \in PanesOf(W[v])
  BY DEF AllPanes
<1>2. PICK w \in DOMAIN W : q \in PanesOf(W[w])
  BY DEF AllPanes
<1>3. W[v].id = W[w].id /\ W[v].public_pane_numbers[p] = W[w].public_pane_numbers[q]
  BY <1>1, <1>2, NameIs
<1>4. v = w
  BY <1>3 DEF WorkspacesSound
<1>5. Good(W[w])
  BY DEF WorkspacesSound
<1> QED
  BY <1>1, <1>2, <1>3, <1>4, <1>5 DEF Good, Half, NumbersSound, IsInjective

\* A name has been given away.
LEMMA NameReserved ==
  ASSUME NEW W, WorkspacesSound(W), NEW p \in AllPanes(W), NEW n \in Nat,
         \A w \in DOMAIN W : W[w].id \in 1..(n - 1)
  PROVE  Reserved(W, n, Name(W, p)) /\ Name(W, p).number \in Nat \ {0}
<1>1. PICK v \in DOMAIN W : p \in PanesOf(W[v])
  BY DEF AllPanes
<1>2. Name(W, p) = [workspace |-> W[v].id, number |-> W[v].public_pane_numbers[p]]
  BY <1>1, NameIs
<1>3. Good(W[v])
  BY DEF WorkspacesSound
<1>4. /\ W[v].public_pane_numbers[p] \in 1..(W[v].next_public_pane_number - 1)
      /\ W[v].next_public_pane_number \in Nat
  BY <1>1, <1>3 DEF Good, Half, NumbersSound, WorkspaceSet
<1>5. /\ W[v].public_pane_numbers[p] \in Nat \ {0}
      /\ W[v].public_pane_numbers[p] < W[v].next_public_pane_number
  BY <1>4
<1>6. \A w \in DOMAIN W : W[w].id = W[v].id => w = v
  BY DEF WorkspacesSound
<1> QED
  BY <1>2, <1>5, <1>6 DEF Reserved

\* Panes that stay keep their names.
LEMMA SameNames ==
  ASSUME NEW W, WorkspacesSound(W), NEW X, NEW gone, Same(W, X, gone), NEW p \in AllPanes(X)
  PROVE  p \in AllPanes(W) /\ Name(X, p) = Name(W, p)
<1>1. PICK x \in DOMAIN X : p \in PanesOf(X[x])
  BY DEF AllPanes
<1>2. PICK w \in DOMAIN W : Left(W[w], X[x], gone)
  BY DEF Same
<1>3. p \in PanesOf(W[w])
  BY <1>1, <1>2 DEF Left
<1>4. WorkspacesSound(X)
  BY DEF Same
<1>5. /\ Name(X, p) = [workspace |-> X[x].id, number |-> X[x].public_pane_numbers[p]]
      /\ Name(W, p) = [workspace |-> W[w].id, number |-> W[w].public_pane_numbers[p]]
  BY <1>1, <1>3, <1>4, NameIs
<1> QED
  BY <1>1, <1>2, <1>3, <1>5 DEF Left, AllPanes

\* An id that is used up stays used up when panes keep their names or go.
LEMMA SameReserved ==
  ASSUME NEW W, WorkspacesSound(W), NEW X, NEW gone, Same(W, X, gone),
         NEW n \in Nat, NEW m \in Nat, n <= m, NEW id, Reserved(W, n, id)
  PROVE  Reserved(X, m, id)
<1>1. id.workspace \in 1..(m - 1)
  BY DEF Reserved
<1>2. ASSUME NEW x \in DOMAIN X, X[x].id = id.workspace
      PROVE  id.number < X[x].next_public_pane_number
  <2>1. PICK w \in DOMAIN W : Left(W[w], X[x], gone)
    BY DEF Same
  <2> QED
    BY <1>2, <2>1 DEF Left, Reserved
<1> QED
  BY <1>1, <1>2 DEF Reserved

\* ... and so does every pane but the newcomer, whose name is a new one.
LEMMA GainsNames ==
  ASSUME NEW W, WorkspacesSound(W), NEW X, NEW p, NEW n, Gains(W, X, p, n),
         NEW q \in AllPanes(W), q # p
  PROVE  q \in AllPanes(X) /\ Name(X, q) = Name(W, q)
<1>1. q \in AllPanes(X) /\ WorkspacesSound(X)
  BY DEF Gains
<1>2. PICK x \in DOMAIN X : q \in PanesOf(X[x])
  BY <1>1 DEF AllPanes
<1>3. PICK w \in DOMAIN W : Left(W[w], X[x], {}) \/ Placed(W[w], X[x], p)
  BY <1>2 DEF Gains
<1>4. /\ q \in PanesOf(W[w]) /\ X[x].id = W[w].id
      /\ X[x].public_pane_numbers[q] = W[w].public_pane_numbers[q]
  BY <1>2, <1>3 DEF Left, Placed
<1>5. /\ Name(X, q) = [workspace |-> X[x].id, number |-> X[x].public_pane_numbers[q]]
      /\ Name(W, q) = [workspace |-> W[w].id, number |-> W[w].public_pane_numbers[q]]
  BY <1>1, <1>2, <1>4, NameIs
<1> QED
  BY <1>1, <1>4, <1>5

\* It does when a pane arrives too, and the new pane's name was not used
\* before: the counters of public numbers only grow.
LEMMA GainsReserved ==
  ASSUME NEW W, WorkspacesSound(W), NEW X, NEW p, NEW n \in Nat, Gains(W, X, p, n),
         p \notin AllPanes(W), NEW m \in Nat, n <= m, NEW id, Reserved(W, n, id), id.number \in Nat
  PROVE  Reserved(X, m, id) /\ Name(X, p) # id
<1>1. id.workspace \in 1..(m - 1) /\ id.workspace # n
  BY DEF Reserved
<1>2. ASSUME NEW w \in DOMAIN W
      PROVE  /\ p \notin DOMAIN W[w].public_pane_numbers
             /\ W[w].next_public_pane_number \in Nat
  BY DEF WorkspacesSound, Good, Half, WorkspaceSet, AllPanes
<1>3. ASSUME NEW x \in DOMAIN X, X[x].id = id.workspace
      PROVE  /\ id.number < X[x].next_public_pane_number
             /\ p \in PanesOf(X[x]) => X[x].public_pane_numbers[p] # id.number
  <2>1. CASE \E w \in DOMAIN W : Left(W[w], X[x], {})
    <3>1. PICK w \in DOMAIN W : Left(W[w], X[x], {})
      BY <2>1
    <3>2. p \notin PanesOf(X[x])
      BY <3>1 DEF Left, AllPanes
    <3> QED
      BY <1>3, <3>1, <3>2 DEF Left, Reserved
  <2>2. CASE \E w \in DOMAIN W : Placed(W[w], X[x], p)
    <3>1. PICK w \in DOMAIN W : Placed(W[w], X[x], p)
      BY <2>2
    <3>2. /\ X[x].public_pane_numbers[p] = W[w].next_public_pane_number
          /\ X[x].next_public_pane_number = W[w].next_public_pane_number + 1
          /\ W[w].id = id.workspace
      BY <1>2, <1>3, <3>1 DEF Placed
    <3>3. id.number < W[w].next_public_pane_number
      BY <3>2 DEF Reserved
    <3> QED
      BY <1>2, <3>2, <3>3
  <2> QED
    BY <1>1, <1>3, <2>1, <2>2 DEF Gains
<1>4. WorkspacesSound(X) /\ p \in AllPanes(X)
  BY DEF Gains
<1>5. PICK x \in DOMAIN X : p \in PanesOf(X[x])
  BY <1>4 DEF AllPanes
<1>6. Name(X, p) = [workspace |-> X[x].id, number |-> X[x].public_pane_numbers[p]]
  BY <1>4, <1>5, NameIs
<1> QED
  BY <1>1, <1>3, <1>5, <1>6 DEF Reserved

\* Nothing changes, or one change follows another.
LEMMA SameItself ==
  ASSUME NEW W, WorkspacesSound(W)
  PROVE  Same(W, W, {})
<1>1. \A w \in DOMAIN W : Left(W[w], W[w], {})
  BY DEF WorkspacesSound, Left
<1> QED
  BY <1>1 DEF Same

\* Two steps in which panes keep their names or go are one.
LEMMA SameThenSame ==
  ASSUME NEW W, NEW X, NEW Y, NEW g, NEW h, Same(W, X, g), Same(X, Y, h)
  PROVE  Same(W, Y, g \cup h)
<1>1. ASSUME NEW y \in DOMAIN Y PROVE \E w \in DOMAIN W : Left(W[w], Y[y], g \cup h)
  <2>1. PICK x \in DOMAIN X : Left(X[x], Y[y], h)
    BY DEF Same
  <2>2. PICK w \in DOMAIN W : Left(W[w], X[x], g)
    BY DEF Same
  <2>3. PanesOf(Y[y]) = PanesOf(W[w]) \ (g \cup h)
    BY <2>1, <2>2 DEF Left
  <2>4. Left(W[w], Y[y], g \cup h)
    BY <2>1, <2>2, <2>3 DEF Left
  <2> QED
    BY <2>4
<1> QED
  BY <1>1 DEF Same

\* A pane arrives, then panes keep their names.
LEMMA GainsThenSame ==
  ASSUME NEW W, NEW X, NEW Y, NEW p, NEW n, Gains(W, X, p, n), Same(X, Y, {})
  PROVE  Gains(W, Y, p, n)
<1>1. ASSUME NEW y \in DOMAIN Y
      PROVE  \/ \E w \in DOMAIN W : Left(W[w], Y[y], {})
             \/ \E w \in DOMAIN W : Placed(W[w], Y[y], p)
             \/ Y[y].id = n /\ PanesOf(Y[y]) = {p}
  <2>1. PICK x \in DOMAIN X : Left(X[x], Y[y], {})
    BY DEF Same
  <2>2. ASSUME NEW w \in DOMAIN W, Left(W[w], X[x], {}) PROVE Left(W[w], Y[y], {})
    BY <2>1, <2>2 DEF Left
  <2>3. ASSUME NEW w \in DOMAIN W, Placed(W[w], X[x], p) PROVE Placed(W[w], Y[y], p)
    BY <2>1, <2>3, PlacedThenLeft
  <2>4. X[x].id = n /\ PanesOf(X[x]) = {p} => Y[y].id = n /\ PanesOf(Y[y]) = {p}
    BY <2>1 DEF Left
  <2> QED
    BY <2>2, <2>3, <2>4 DEF Gains
<1> QED
  BY <1>1 DEF Gains, Same

\* Some of the workspaces, in any order.
LEMMA WorkspacesPicked ==
  ASSUME NEW W, WorkspacesSound(W), NEW X \in Seq(WorkspaceSet), NEW m, Picks(X, W, m)
  PROVE  Same(W, X, UNION {PanesOf(W[v]) : v \in DOMAIN W \ Range(m)})
<1> DEFINE gone == UNION {PanesOf(W[v]) : v \in DOMAIN W \ Range(m)}
<1>1. \A x \in DOMAIN X : m[x] \in DOMAIN W /\ X[x] = W[m[x]] /\ m[x] \in Range(m)
  BY DEF Picks, Range
<1>2. \A x, y \in DOMAIN X : x # y => m[x] # m[y]
  BY DEF Picks, IsInjective
<1>3. WorkspacesSound(X)
  <2>1. \A x \in DOMAIN X : Good(X[x])
    BY <1>1 DEF WorkspacesSound
  <2>2. ASSUME NEW x \in DOMAIN X, NEW y \in DOMAIN X, x # y
        PROVE  X[x].id # X[y].id /\ PanesOf(X[x]) \cap PanesOf(X[y]) = {}
    <3>1. m[x] \in DOMAIN W /\ m[y] \in DOMAIN W /\ m[x] # m[y]
      BY <1>1, <1>2, <2>2
    <3> QED
      BY <1>1, <3>1 DEF WorkspacesSound
  <2> QED
    BY <2>1, <2>2 DEF WorkspacesSound
<1>4. \A v \in Range(m) : v \in DOMAIN W /\ \E x \in DOMAIN X : m[x] = v
  BY DEF Picks, Range
<1>5. \A v \in Range(m) : PanesOf(W[v]) \cap gone = {}
  BY <1>4 DEF WorkspacesSound
<1>6. ASSUME NEW x \in DOMAIN X PROVE \E w \in DOMAIN W : Left(W[w], X[x], gone)
  <2>1. PanesOf(X[x]) \cap gone = {} /\ Good(X[x])
    BY <1>1, <1>3, <1>5 DEF WorkspacesSound
  <2> HIDE DEF gone
  <2>2. PanesOf(X[x]) = PanesOf(W[m[x]]) \ gone
    BY <1>1, <2>1
  <2>3. Left(W[m[x]], X[x], gone)
    BY <1>1, <2>1, <2>2 DEF Left
  <2> QED
    BY <1>1, <2>3
<1>7. AllPanes(X) = AllPanes(W) \ gone
  <2>1. ASSUME NEW p \in AllPanes(X) PROVE p \in AllPanes(W) \ gone
    <3>1. PICK x \in DOMAIN X : p \in PanesOf(X[x])
      BY DEF AllPanes
    <3> QED
      BY <1>1, <1>5, <3>1 DEF AllPanes
  <2>2. ASSUME NEW p \in AllPanes(W) \ gone PROVE p \in AllPanes(X)
    <3>1. PICK w \in DOMAIN W : p \in PanesOf(W[w])
      BY DEF AllPanes
    <3>2. w \in Range(m)
      BY <3>1
    <3>3. PICK x \in DOMAIN X : m[x] = w
      BY <1>4, <3>2
    <3> QED
      BY <1>1, <3>1, <3>3 DEF AllPanes
  <2> QED
    BY <2>1, <2>2
<1> QED
  BY <1>3, <1>6, <1>7 DEF Same

\* One workspace is closed, or moved to another place.
LEMMA RemovedSame ==
  ASSUME NEW W, WorkspacesSound(W), NEW w \in DOMAIN W
  PROVE  Same(W, RemoveAt(W, w), PanesOf(W[w])) /\ Len(RemoveAt(W, w)) = Len(W) - 1
<1>1. W \in Seq(WorkspaceSet) /\ w \in 1..Len(W)
  BY LenProperties DEF WorkspacesSound
<1>2. RemoveAt(W, w) \in Seq(WorkspaceSet) /\ Len(RemoveAt(W, w)) = Len(W) - 1
  BY <1>1, ElementRemoved
<1>3. PICK m : Picks(RemoveAt(W, w), W, m) /\ Range(m) = DOMAIN W \ {w}
  BY <1>1, RemovedPicks
<1>4. UNION {PanesOf(W[v]) : v \in DOMAIN W \ Range(m)} = PanesOf(W[w])
  BY <1>3
<1>5. Same(W, RemoveAt(W, w), UNION {PanesOf(W[v]) : v \in DOMAIN W \ Range(m)})
  BY <1>2, <1>3, WorkspacesPicked
<1> QED
  BY <1>2, <1>4, <1>5

\* Moving a workspace to another place keeps every name.
LEMMA MovedSame ==
  ASSUME NEW W, WorkspacesSound(W), NEW i \in DOMAIN W, NEW j \in DOMAIN W
  PROVE  LET X == InsertAt(RemoveAt(W, i), j, W[i])
         IN  /\ Same(W, X, {}) /\ Len(X) = Len(W)
             /\ \A w \in DOMAIN W : \E x \in DOMAIN X : X[x] = W[w]
<1> DEFINE X == InsertAt(RemoveAt(W, i), j, W[i])
<1>1. W \in Seq(WorkspaceSet) /\ i \in 1..Len(W) /\ j \in 1..Len(W)
  BY LenProperties DEF WorkspacesSound
<1>2. /\ X \in Seq(WorkspaceSet) /\ Len(X) = Len(W)
      /\ \E m : Picks(X, W, m) /\ Range(m) = DOMAIN W
  BY <1>1, MovedPicks
<1> HIDE DEF X
<1>3. PICK m : Picks(X, W, m) /\ Range(m) = DOMAIN W
  BY <1>2
<1>4. UNION {PanesOf(W[v]) : v \in DOMAIN W \ Range(m)} = {}
  BY <1>3
<1>5. Same(W, X, UNION {PanesOf(W[v]) : v \in DOMAIN W \ Range(m)})
  BY <1>2, <1>3, WorkspacesPicked
<1>6. \A w \in DOMAIN W : \E x \in DOMAIN X : X[x] = W[w]
  <2> TAKE w \in DOMAIN W
  <2>1. PICK x \in DOMAIN m : m[x] = w
    BY <1>3 DEF Range
  <2> QED
    BY <1>3, <2>1 DEF Picks
<1> QED
  BY <1>2, <1>4, <1>5, <1>6 DEF X

\* What the recursion of Kept says.
LEMMA KeptIs ==
  ASSUME NEW S, NEW s \in Seq(S), NEW gone
  PROVE  /\ Kept(s, gone)[0] = <<>>
         /\ \A n \in 1..Len(s) :
              Kept(s, gone)[n] = IF n \in gone THEN Kept(s, gone)[n - 1]
                                 ELSE Append(Kept(s, gone)[n - 1], s[n])
<1> DEFINE N == Len(s)
           V == Seq(S)
           Turns(f) == f = [n \in 0..N |-> IF n = 0 THEN <<>>
                                           ELSE IF n \in gone THEN f[n - 1]
                                           ELSE Append(f[n - 1], s[n])]
           F == [n \in 1..N |-> [v \in V |-> IF n \in gone THEN v ELSE Append(v, s[n])]]
           zero == <<>>
<1>1. N \in Nat /\ zero \in V /\ \A n \in 1..N : s[n] \in S
  BY LenProperties
<1>2. F \in [1..N -> [V -> V]]
  <2>1. ASSUME NEW n \in 1..N, NEW v \in V
        PROVE  (IF n \in gone THEN v ELSE Append(v, s[n])) \in V
    BY <1>1, AppendProperties
  <2> QED
    BY <2>1
<1>3. PICK f \in [0..N -> V] : f[0] = zero /\ \A n \in 1..N : f[n] = F[n][f[n - 1]]
  <2>1. zero \in V /\ N \in Nat /\ F \in [1..N -> [V -> V]]
    BY <1>1, <1>2
  <2> HIDE DEF F, N, V, zero
  <2> QED
    BY ONLY <2>1, FunctionByRecursion
<1>4. ASSUME NEW n \in 1..N
      PROVE  f[n] = IF n \in gone THEN f[n - 1] ELSE Append(f[n - 1], s[n])
  <2>1. n - 1 \in 0..N
    BY <1>1
  <2>2. f[n - 1] \in V
    BY <2>1
  <2> QED
    BY <1>3, <2>2
<1>5. Turns(f)
  <2> DEFINE g == [n \in 0..N |-> IF n = 0 THEN <<>> ELSE IF n \in gone THEN f[n - 1]
                                  ELSE Append(f[n - 1], s[n])]
  <2>1. ASSUME NEW n \in 0..N PROVE f[n] = g[n]
    <3>1. CASE n = 0
      BY <1>3, <3>1
    <3>2. CASE n # 0
      <4>1. n \in 1..N
        BY <1>1, <3>2
      <4> QED
        BY <1>4, <3>2, <4>1
    <3> QED
      BY <3>1, <3>2
  <2>2. DOMAIN g = 0..N /\ g = [n \in 0..N |-> g[n]] /\ f = [n \in 0..N |-> f[n]]
    OBVIOUS
  <2> HIDE DEF g
  <2>3. f = g
    BY <2>1, <2>2
  <2> QED
    BY <2>3 DEF g
<1>6. Kept(s, gone) = CHOOSE g : Turns(g)
  BY DEF Kept
<1>7. Turns(Kept(s, gone))
  <2> HIDE DEF Turns
  <2> QED
    BY <1>5, <1>6
<1> DEFINE K == Kept(s, gone)
<1> HIDE DEF K
<1>8. K = [n \in 0..N |-> IF n = 0 THEN <<>> ELSE IF n \in gone THEN K[n - 1]
                          ELSE Append(K[n - 1], s[n])]
  BY <1>7 DEF K
<1>9. 0 \in 0..N /\ \A n \in 1..N : n \in 0..N /\ n # 0
  BY <1>1
<1>10. K[0] = <<>>
  BY <1>8, <1>9
<1>11. \A n \in 1..N : K[n] = IF n \in gone THEN K[n - 1] ELSE Append(K[n - 1], s[n])
  <2> TAKE n \in 1..N
  <2> QED
    BY <1>8, <1>9
<1> QED
  BY <1>10, <1>11 DEF K

\* close_workspace keeps the workspaces that do not close, in their order.
LEMMA KeptPicks ==
  ASSUME NEW S, NEW s \in Seq(S), NEW gone
  PROVE  LET left == Kept(s, gone)[Len(s)]
         IN  left \in Seq(S) /\ \E m : Picks(left, s, m) /\ Range(m) = DOMAIN s \ gone
<1> DEFINE K == Kept(s, gone)
           Sofar(n) == /\ K[n] \in Seq(S)
                       /\ \E m \in [DOMAIN K[n] -> 1..n] :
                            /\ IsInjective(m) /\ Range(m) = (1..n) \ gone
                            /\ \A k \in DOMAIN K[n] : K[n][k] = s[m[k]]
           Reached == {n \in Nat : n <= Len(s) => Sofar(n)}
<1>1. /\ Len(s) \in Nat /\ DOMAIN s = 1..Len(s) /\ \A n \in 1..Len(s) : s[n] \in S
      /\ K[0] = <<>>
      /\ \A n \in 1..Len(s) : K[n] = IF n \in gone THEN K[n - 1] ELSE Append(K[n - 1], s[n])
  BY KeptIs, LenProperties
<1> HIDE DEF K
<1>2. 0 \in Reached
  <2> DEFINE m == [k \in {} |-> 0]
  <2>1. m \in [{} -> 1..0] /\ IsInjective(m) /\ Range(m) = {} /\ DOMAIN <<>> = {}
    BY DEF IsInjective, Range
  <2>2. <<>> \in Seq(S)
    OBVIOUS
  <2> HIDE DEF m
  <2>3. (1..0) \ gone = {}
    OBVIOUS
  <2>4. Sofar(0)
    BY <1>1, <2>1, <2>2, <2>3
  <2> QED
    BY <2>4
<1>3. ASSUME NEW n \in Nat, n \in Reached, n + 1 <= Len(s) PROVE Sofar(n + 1)
  <2>1. n + 1 \in 1..Len(s) /\ (n + 1) - 1 = n
    BY <1>1, <1>3
  <2>2. K[n] \in Seq(S)
    BY <1>1, <1>3
  <2>3. PICK m \in [DOMAIN K[n] -> 1..n] :
          /\ IsInjective(m) /\ Range(m) = (1..n) \ gone
          /\ \A k \in DOMAIN K[n] : K[n][k] = s[m[k]]
    BY <1>1, <1>3
  <2>4. CASE n + 1 \in gone
    <3>1. K[n + 1] = K[n]
      BY <1>1, <2>1, <2>4
    <3>2. m \in [DOMAIN K[n] -> 1..(n + 1)]
      BY <2>3
    <3>3. (1..n) \ gone = (1..(n + 1)) \ gone
      BY <2>4
    <3> QED
      BY <2>2, <2>3, <3>1, <3>2, <3>3
  <2>5. CASE n + 1 \notin gone
    <3> DEFINE l == Len(K[n]) + 1
               h == [k \in DOMAIN K[n] \cup {l} |-> IF k = l THEN n + 1 ELSE m[k]]
    <3>1. K[n + 1] = Append(K[n], s[n + 1])
      BY <1>1, <2>1, <2>5
    <3>2. /\ K[n + 1] \in Seq(S) /\ Len(K[n + 1]) = l
          /\ \A k \in 1..Len(K[n]) : K[n + 1][k] = K[n][k]
          /\ K[n + 1][l] = s[n + 1]
      BY <1>1, <2>1, <2>2, <3>1, AppendProperties
    <3>3. DOMAIN K[n] = 1..Len(K[n]) /\ DOMAIN K[n + 1] = 1..l /\ Len(K[n]) \in Nat
      BY <2>2, <3>2, LenProperties
    <3>4. l \notin DOMAIN K[n] /\ DOMAIN K[n + 1] = DOMAIN K[n] \cup {l}
      BY <3>3
    <3> HIDE DEF l
    <3>5. \A k \in DOMAIN K[n] : m[k] \in 1..n /\ h[k] = m[k]
      BY <2>3, <3>4
    <3>6. h[l] = n + 1 /\ DOMAIN h = DOMAIN K[n + 1]
      BY <3>4
    <3>7. h \in [DOMAIN K[n + 1] -> 1..(n + 1)]
      BY <3>4, <3>5
    <3> HIDE DEF h
    <3>8. IsInjective(h)
      BY <2>3, <3>4, <3>5, <3>6 DEF IsInjective
    <3>9. Range(h) = (1..(n + 1)) \ gone
      <4>1. \A k \in DOMAIN K[n] : h[k] \in (1..n) \ gone
        BY <2>3, <3>5 DEF Range
      <4>2. \A x \in (1..n) \ gone : \E k \in DOMAIN K[n] : h[k] = x
        BY <2>3, <3>5 DEF Range
      <4>3. (1..(n + 1)) \ gone = ((1..n) \ gone) \cup {n + 1}
        BY <2>5
      <4> QED
        BY <3>4, <3>6, <4>1, <4>2, <4>3 DEF Range
    <3>10. \A k \in DOMAIN K[n + 1] : K[n + 1][k] = s[h[k]]
      BY <2>3, <3>2, <3>3, <3>4, <3>5, <3>6
    <3> QED
      BY <3>2, <3>7, <3>8, <3>9, <3>10
  <2> QED
    BY <2>4, <2>5
<1>4. \A n \in Nat : n \in Reached => n + 1 \in Reached
  <2> HIDE DEF Sofar
  <2> QED
    BY <1>3
<1>5. Nat \subseteq Reached
  <2> HIDE DEF Reached
  <2> QED
    BY <1>2, <1>4, SetInduction
<1>6. Sofar(Len(s))
  <2> HIDE DEF Sofar
  <2> QED
    BY <1>1, <1>5
<1> QED
  BY <1>1, <1>6 DEF Picks, K

\* The workspaces at some places are closed.
LEMMA KeptSame ==
  ASSUME NEW W, WorkspacesSound(W), NEW gone \in SUBSET DOMAIN W
  PROVE  Same(W, Kept(W, gone)[Len(W)], UNION {PanesOf(W[v]) : v \in gone})
<1> DEFINE left == Kept(W, gone)[Len(W)]
<1>1. W \in Seq(WorkspaceSet)
  BY DEF WorkspacesSound
<1>2. left \in Seq(WorkspaceSet) /\ \E m : Picks(left, W, m) /\ Range(m) = DOMAIN W \ gone
  BY <1>1, KeptPicks
<1> HIDE DEF left
<1>3. PICK m : Picks(left, W, m) /\ Range(m) = DOMAIN W \ gone
  BY <1>2
<1>4. DOMAIN W \ Range(m) = gone
  BY <1>3
<1>5. Same(W, left, UNION {PanesOf(W[v]) : v \in DOMAIN W \ Range(m)})
  BY <1>2, <1>3, WorkspacesPicked
<1> QED
  BY <1>4, <1>5 DEF left

\* Another workspace in the place of one, with the same id.
LEMMA WorkspaceReplaced ==
  ASSUME NEW W, WorkspacesSound(W), NEW w \in DOMAIN W, NEW x, Good(x), x.id = W[w].id,
         \A v \in DOMAIN W \ {w} : PanesOf(x) \cap PanesOf(W[v]) = {}
  PROVE  LET X == Replaced(W, w, x)
         IN  /\ WorkspacesSound(X) /\ DOMAIN X = DOMAIN W /\ X[w] = x
             /\ \A v \in DOMAIN W \ {w} : X[v] = W[v]
             /\ AllPanes(X) = (AllPanes(W) \ PanesOf(W[w])) \cup PanesOf(x)
<1> DEFINE X == Replaced(W, w, x)
<1>1. W \in Seq(WorkspaceSet) /\ DOMAIN W = 1..Len(W) /\ x \in WorkspaceSet
  BY LenProperties DEF WorkspacesSound, Good, Half
<1>2. /\ X \in Seq(WorkspaceSet) /\ DOMAIN X = DOMAIN W
      /\ X[w] = x /\ \A v \in DOMAIN W \ {w} : X[v] = W[v]
  BY <1>1, ExceptSeq DEF Replaced
<1> HIDE DEF X
<1>3. WorkspacesSound(X)
  BY <1>2 DEF WorkspacesSound
<1>4. AllPanes(X) = (AllPanes(W) \ PanesOf(W[w])) \cup PanesOf(x)
  <2>1. AllPanes(W) = PanesOf(W[w]) \cup UNION {PanesOf(W[v]) : v \in DOMAIN W \ {w}}
    BY DEF AllPanes
  <2>2. AllPanes(X) = PanesOf(x) \cup UNION {PanesOf(X[v]) : v \in DOMAIN W \ {w}}
    BY <1>2 DEF AllPanes
  <2>3. UNION {PanesOf(X[v]) : v \in DOMAIN W \ {w}} = UNION {PanesOf(W[v]) : v \in DOMAIN W \ {w}}
    BY <1>2
  <2>4. PanesOf(W[w]) \cap UNION {PanesOf(W[v]) : v \in DOMAIN W \ {w}} = {}
    BY DEF WorkspacesSound
  <2> QED
    BY <2>1, <2>2, <2>3, <2>4
<1> QED
  BY <1>2, <1>3, <1>4 DEF X

\* Some panes of one workspace go.
LEMMA ReplacedSame ==
  ASSUME NEW W, WorkspacesSound(W), NEW w \in DOMAIN W, NEW x,
         NEW gone \in SUBSET PanesOf(W[w]), Left(W[w], x, gone)
  PROVE  LET X == Replaced(W, w, x)
         IN  /\ Same(W, X, gone) /\ DOMAIN X = DOMAIN W /\ X[w] = x
             /\ \A v \in DOMAIN W \ {w} : X[v] = W[v]
<1> DEFINE X == Replaced(W, w, x)
<1>1. Good(x) /\ x.id = W[w].id /\ PanesOf(x) = PanesOf(W[w]) \ gone
  BY DEF Left
<1>2. \A v \in DOMAIN W \ {w} : PanesOf(x) \cap PanesOf(W[v]) = {}
  BY <1>1 DEF WorkspacesSound
<1>3. /\ WorkspacesSound(X) /\ DOMAIN X = DOMAIN W /\ X[w] = x
      /\ \A v \in DOMAIN W \ {w} : X[v] = W[v]
      /\ AllPanes(X) = (AllPanes(W) \ PanesOf(W[w])) \cup PanesOf(x)
  BY <1>1, <1>2, WorkspaceReplaced
<1> HIDE DEF X
<1>4. PanesOf(W[w]) \subseteq AllPanes(W)
  BY DEF AllPanes
<1>5. AllPanes(X) = AllPanes(W) \ gone
  BY <1>1, <1>3, <1>4
<1>6. ASSUME NEW v \in DOMAIN X PROVE \E u \in DOMAIN W : Left(W[u], X[v], gone)
  <2>1. CASE v = w
    BY <1>3, <2>1
  <2>2. CASE v # w
    <3>1. X[v] = W[v] /\ PanesOf(W[v]) = PanesOf(W[v]) \ gone /\ Good(W[v])
      BY <1>3, <2>2 DEF WorkspacesSound
    <3>2. Left(W[v], X[v], gone)
      BY <3>1 DEF Left
    <3> QED
      BY <1>3, <3>2
  <2> QED
    BY <2>1, <2>2
<1> QED
  BY <1>3, <1>5, <1>6 DEF Same, X

\* A pane is placed in a workspace, or comes with one.
LEMMA ReplacedGains ==
  ASSUME NEW W, WorkspacesSound(W), NEW w \in DOMAIN W, NEW x, NEW n,
         NEW p, p \notin AllPanes(W), Placed(W[w], x, p)
  PROVE  LET X == Replaced(W, w, x)
         IN  /\ Gains(W, X, p, n) /\ DOMAIN X = DOMAIN W /\ X[w] = x
             /\ \A v \in DOMAIN W \ {w} : X[v] = W[v]
<1> DEFINE X == Replaced(W, w, x)
<1>1. Good(x) /\ x.id = W[w].id /\ PanesOf(x) = PanesOf(W[w]) \cup {p}
  BY DEF Placed
<1>2. \A v \in DOMAIN W \ {w} : PanesOf(x) \cap PanesOf(W[v]) = {}
  BY <1>1 DEF WorkspacesSound, AllPanes
<1>3. /\ WorkspacesSound(X) /\ DOMAIN X = DOMAIN W /\ X[w] = x
      /\ \A v \in DOMAIN W \ {w} : X[v] = W[v]
      /\ AllPanes(X) = (AllPanes(W) \ PanesOf(W[w])) \cup PanesOf(x)
  BY <1>1, <1>2, WorkspaceReplaced
<1> HIDE DEF X
<1>4. PanesOf(W[w]) \subseteq AllPanes(W)
  BY DEF AllPanes
<1>5. AllPanes(X) = AllPanes(W) \cup {p}
  BY <1>1, <1>3, <1>4
<1>6. ASSUME NEW v \in DOMAIN X
      PROVE  \/ \E u \in DOMAIN W : Left(W[u], X[v], {})
             \/ \E u \in DOMAIN W : Placed(W[u], X[v], p)
  <2>1. CASE v = w
    BY <1>3, <2>1
  <2>2. CASE v # w
    <3>1. X[v] = W[v] /\ Good(W[v])
      BY <1>3, <2>2 DEF WorkspacesSound
    <3>2. Left(W[v], X[v], {})
      BY <3>1 DEF Left
    <3> QED
      BY <1>3, <3>2
  <2> QED
    BY <2>1, <2>2
<1> QED
  BY <1>3, <1>5, <1>6 DEF Gains, X

\* A workspace is added at the end, for one new pane.
LEMMA AppendedGains ==
  ASSUME NEW W, WorkspacesSound(W), NEW x, Good(x), NEW p, PanesOf(x) = {p},
         p \notin AllPanes(W), \A w \in DOMAIN W : W[w].id # x.id
  PROVE  LET X == Append(W, x)
         IN  /\ Gains(W, X, p, x.id) /\ Len(X) = Len(W) + 1 /\ Len(X) \in DOMAIN X
             /\ X[Len(X)] = x /\ \A w \in DOMAIN W : w \in DOMAIN X /\ X[w] = W[w]
<1> DEFINE X == Append(W, x)
           l == Len(W) + 1
<1>1. /\ W \in Seq(WorkspaceSet) /\ DOMAIN W = 1..Len(W) /\ Len(W) \in Nat /\ x \in WorkspaceSet
  BY LenProperties DEF WorkspacesSound, Good, Half
<1>2. /\ X \in Seq(WorkspaceSet) /\ Len(X) = l /\ X[l] = x /\ \A w \in 1..Len(W) : X[w] = W[w]
  BY <1>1, AppendProperties
<1> HIDE DEF X
<1>3. DOMAIN X = 1..l
  BY <1>2, LenProperties
<1>4. DOMAIN X = DOMAIN W \cup {l} /\ l \notin DOMAIN W
  BY <1>1, <1>3
<1> HIDE DEF l
<1>5. \A w \in DOMAIN W : X[w] = W[w]
  BY <1>1, <1>2
<1>6. \A w \in DOMAIN W : PanesOf(x) \cap PanesOf(W[w]) = {}
  BY DEF AllPanes
<1>7. WorkspacesSound(X)
  <2>1. \A v \in DOMAIN X : Good(X[v])
    BY <1>2, <1>4, <1>5 DEF WorkspacesSound
  <2>2. ASSUME NEW v \in DOMAIN X, NEW w \in DOMAIN X, v # w
        PROVE  X[v].id # X[w].id /\ PanesOf(X[v]) \cap PanesOf(X[w]) = {}
    <3>1. CASE v \in DOMAIN W /\ w \in DOMAIN W
      BY <1>5, <2>2, <3>1 DEF WorkspacesSound
    <3>2. CASE v = l /\ w \in DOMAIN W
      BY <1>2, <1>5, <1>6, <3>2
    <3>3. CASE v \in DOMAIN W /\ w = l
      BY <1>2, <1>5, <1>6, <3>3
    <3> QED
      BY <1>4, <2>2, <3>1, <3>2, <3>3
  <2> QED
    BY <1>2, <2>1, <2>2 DEF WorkspacesSound
<1>8. AllPanes(X) = AllPanes(W) \cup {p}
  BY <1>2, <1>4, <1>5 DEF AllPanes
<1>9. ASSUME NEW v \in DOMAIN X
      PROVE  \/ \E u \in DOMAIN W : Left(W[u], X[v], {})
             \/ X[v].id = x.id /\ PanesOf(X[v]) = {p}
  <2>1. CASE v = l
    BY <1>2, <2>1
  <2>2. CASE v # l
    <3>1. v \in DOMAIN W /\ X[v] = W[v] /\ Good(W[v])
      BY <1>4, <1>5, <2>2 DEF WorkspacesSound
    <3>2. Left(W[v], X[v], {})
      BY <3>1 DEF Left
    <3> QED
      BY <3>1, <3>2
  <2> QED
    BY <2>1, <2>2
<1> QED
  BY <1>2, <1>4, <1>5, <1>7, <1>8, <1>9 DEF Gains, X, l

-----------------------------------------------------------------------------
(* The inductive invariant.                                                *)

Targets(W, n) == {NoTarget} \cup [workspace : 1..(n - 1), pane : AllPanes(W)]

IsApp(a) ==
  a = [workspaces |-> a.workspaces, active |-> a.active, selected |-> a.selected,
       previous_pane_focus |-> a.previous_pane_focus,
       public_pane_id_aliases |-> a.public_pane_id_aliases, mail |-> a.mail]

\* The session, with workspace ids below n; there may be no active workspace.
Sound(a, n) ==
  /\ IsApp(a) /\ WorkspacesSound(a.workspaces)
  /\ \A w \in DOMAIN a.workspaces : a.workspaces[w].id \in 1..(n - 1)
  /\ a.active \in {None} \cup DOMAIN a.workspaces
  /\ a.selected \in {1} \cup DOMAIN a.workspaces
  /\ a.previous_pane_focus \in Targets(a.workspaces, n)

\* An empty session that gets a workspace makes it the active one; a restored
\* session, one that is not fresh, may have workspaces and none active.
Settled(fresh, a) == fresh /\ a.active = None => a.workspaces = <<>>

PaneIds(n) == 1..(n - 1)

\* Every id belongs to one pane, and every pane has one.
OwnerSound(W, n, pn, own) ==
  /\ \A id \in DOMAIN own :
       /\ id = [workspace |-> id.workspace, number |-> id.number]
       /\ id.number \in Nat \ {0} /\ Reserved(W, n, id) /\ own[id] \in PaneIds(pn)
  /\ \A p \in AllPanes(W) : Name(W, p) \in DOMAIN own /\ own[Name(W, p)] = p

\* The aliases say the same, and have every id that is not the name of a pane
\* that lives.
AliasesSound(W, own, aliases) ==
  /\ \A id \in DOMAIN aliases : id \in DOMAIN own /\ aliases[id] = own[id]
  /\ \A id \in DOMAIN own :
       own[id] \in AllPanes(W) /\ id # Name(W, own[id]) => id \in DOMAIN aliases

\* Who was told something has a mailbox under its name.
MailSound(W, mail, to) ==
  /\ mail = [id \in DOMAIN mail |-> mail[id]]
  /\ DOMAIN mail = {Name(W, p) : p \in to \cap AllPanes(W)}
  /\ \A p \in to \cap AllPanes(W) : mail[Name(W, p)] = p

Counters ==
  /\ next_workspace_id \in Nat \ {0} /\ next_pane_id \in Nat \ {0}
  /\ AllPanes(app.workspaces) \subseteq PaneIds(next_pane_id)
  /\ told \subseteq PaneIds(next_pane_id)

IInv(fresh) ==
  /\ Counters /\ Sound(app, next_workspace_id) /\ Settled(fresh, app)
  /\ OwnerSound(app.workspaces, next_workspace_id, next_pane_id, owner)
  /\ AliasesSound(app.workspaces, owner, app.public_pane_id_aliases)
  /\ MailSound(app.workspaces, app.mail, told)

-----------------------------------------------------------------------------
(* The operators of the model by names and places.                         *)

\* What the model reads from the session, by the names of this module.
LEMMA Reading ==
  ASSUME NEW a
  PROVE  /\ Indices(a) = DOMAIN a.workspaces /\ Live(a) = AllPanes(a.workspaces)
         /\ \A p : public_pane_id(a, p) = Name(a.workspaces, p)
BY DEF Indices, Live, AllPanes, public_pane_id, Name, WorkspaceOf

\* A pane's workspace has it.
LEMMA WorkspaceOfIs ==
  ASSUME NEW a, NEW p \in AllPanes(a.workspaces)
  PROVE  /\ WorkspaceOf(a, p) \in DOMAIN a.workspaces
         /\ p \in PanesOf(a.workspaces[WorkspaceOf(a, p)])
BY DEF AllPanes, WorkspaceOf, Indices

\* pane_with_id finds the pane by its name, and nothing by any other id.
LEMMA PaneWithId ==
  ASSUME NEW a, WorkspacesSound(a.workspaces)
  PROVE  /\ \A p \in AllPanes(a.workspaces) : pane_with_id(a, Name(a.workspaces, p)) = p
         /\ \A id : \/ \E p \in AllPanes(a.workspaces) : id = Name(a.workspaces, p)
                    \/ pane_with_id(a, id) = None
<1> DEFINE W == a.workspaces
           Named(id) == {p \in Live(a) : public_pane_id(a, p) = id}
<1>1. \A id : pane_with_id(a, id) = IF Named(id) = {} THEN None
                                    ELSE CHOOSE p \in Named(id) : TRUE
  BY DEF pane_with_id
<1>2. ASSUME NEW p \in AllPanes(W) PROVE pane_with_id(a, Name(W, p)) = p
  <2>1. Named(Name(W, p)) = {p}
    BY NamesDiffer, Reading
  <2> HIDE DEF Named
  <2> QED
    BY <1>1, <2>1
<1>3. \A id : Named(id) # {} => \E p \in AllPanes(W) : id = Name(W, p)
  BY Reading
<1> QED
  BY <1>1, <1>2, <1>3

\* The public ids are the names of the panes.
LEMMA PublicIds ==
  ASSUME NEW a, WorkspacesSound(a.workspaces)
  PROVE  public_pane_ids(a) = {Name(a.workspaces, p) : p \in AllPanes(a.workspaces)}
<1> DEFINE W == a.workspaces
           names == {Name(W, p) : p \in AllPanes(W)}
<1>1. ASSUME NEW id \in public_pane_ids(a) PROVE id \in names
  <2>1. PICK ws \in ToSet(W) : \E p \in PanesOf(ws) :
          id = [workspace |-> ws.id, number |-> ws.public_pane_numbers[p]]
    BY DEF public_pane_ids
  <2>2. PICK w \in DOMAIN W : ws = W[w]
    BY DEF ToSet
  <2>3. PICK p \in PanesOf(W[w]) :
          id = [workspace |-> W[w].id, number |-> W[w].public_pane_numbers[p]]
    BY <2>1, <2>2
  <2>4. p \in AllPanes(W) /\ id = Name(W, p)
    BY <2>3, NameIs DEF AllPanes
  <2> QED
    BY <2>4
<1>2. ASSUME NEW p \in AllPanes(W) PROVE Name(W, p) \in public_pane_ids(a)
  <2>1. PICK w \in DOMAIN W : p \in PanesOf(W[w])
    BY DEF AllPanes
  <2>2. W[w] \in ToSet(W)
    BY DEF ToSet
  <2>3. Name(W, p) = [workspace |-> W[w].id, number |-> W[w].public_pane_numbers[p]]
    BY <2>1, NameIs
  <2> QED
    BY <2>1, <2>2, <2>3 DEF public_pane_ids
<1> QED
  BY <1>1, <1>2

\* The history of the ids.
LEMMA OwnerBecomes ==
  ASSUME NEW a, WorkspacesSound(a.workspaces), Becomes(a)
  PROVE  /\ app' = a
         /\ DOMAIN owner' = DOMAIN owner \cup {Name(a.workspaces, p) : p \in AllPanes(a.workspaces)}
         /\ \A id \in DOMAIN owner : owner'[id] = owner[id]
         /\ \A p \in AllPanes(a.workspaces) : Name(a.workspaces, p) \notin DOMAIN owner =>
              owner'[Name(a.workspaces, p)] = p
<1> DEFINE W == a.workspaces
           names == {Name(W, p) : p \in AllPanes(W)}
<1>1. public_pane_ids(a) = names
  BY PublicIds
<1>2. app' = a /\ owner' = [id \in DOMAIN owner \cup names |-> Get(owner, id, pane_with_id(a, id))]
  BY <1>1 DEF Becomes
<1>3. \A id \in DOMAIN owner : owner'[id] = owner[id]
  BY <1>2 DEF Get
<1>4. \A p \in AllPanes(W) : Name(W, p) \notin DOMAIN owner => owner'[Name(W, p)] = p
  BY <1>2, PaneWithId DEF Get
<1> QED
  BY <1>2, <1>3, <1>4

-----------------------------------------------------------------------------
(* What a step must do to keep the invariant.                              *)

\* A step keeps it, and a pane it makes has the next raw id.
Keeps(fresh) ==
  /\ IInv(fresh)' /\ next_pane_id <= next_pane_id'
  /\ AllPanes(app'.workspaces) \subseteq AllPanes(app.workspaces) \cup {next_pane_id}

\* What the new session must satisfy, against the ids handed out so far.
LEMMA StepKeeps ==
  ASSUME NEW fresh \in BOOLEAN, IInv(fresh), NEW a, Becomes(a),
         next_workspace_id' \in Nat \ {0}, next_pane_id' \in Nat \ {0},
         next_pane_id <= next_pane_id', told' \subseteq PaneIds(next_pane_id'),
         AllPanes(a.workspaces) \subseteq PaneIds(next_pane_id'),
         Sound(a, next_workspace_id'), Settled(fresh, a),
         \A id \in DOMAIN owner : Reserved(a.workspaces, next_workspace_id', id),
         \A p \in AllPanes(a.workspaces) : Name(a.workspaces, p) \in DOMAIN owner =>
           owner[Name(a.workspaces, p)] = p,
         AllPanes(a.workspaces) \subseteq AllPanes(app.workspaces) \cup {next_pane_id},
         AliasesSound(a.workspaces, owner, a.public_pane_id_aliases),
         MailSound(a.workspaces, a.mail, told')
  PROVE  Keeps(fresh)
<1> DEFINE X == a.workspaces
           n == next_workspace_id'
<1>1. WorkspacesSound(X) /\ n \in Nat /\ \A w \in DOMAIN X : X[w].id \in 1..(n - 1)
  BY DEF Sound
<1>2. /\ app' = a /\ DOMAIN owner' = DOMAIN owner \cup {Name(X, p) : p \in AllPanes(X)}
      /\ \A id \in DOMAIN owner : owner'[id] = owner[id]
      /\ \A p \in AllPanes(X) : Name(X, p) \notin DOMAIN owner => owner'[Name(X, p)] = p
  BY <1>1, OwnerBecomes
<1>3. \A p \in AllPanes(X) : Name(X, p) \in DOMAIN owner' /\ owner'[Name(X, p)] = p
  BY <1>2
<1>4. \A p \in AllPanes(X) :
        /\ Reserved(X, n, Name(X, p)) /\ Name(X, p).number \in Nat \ {0}
        /\ Name(X, p) = [workspace |-> Name(X, p).workspace, number |-> Name(X, p).number]
  <2>1. \A p : Name(X, p) = [workspace |-> Name(X, p).workspace, number |-> Name(X, p).number]
    BY DEF Name
  <2> QED
    BY <1>1, <2>1, NameReserved
<1>5. ASSUME NEW id \in DOMAIN owner'
      PROVE  /\ id = [workspace |-> id.workspace, number |-> id.number]
             /\ id.number \in Nat \ {0} /\ Reserved(X, n, id) /\ owner'[id] \in PaneIds(next_pane_id')
  <2>1. CASE id \in DOMAIN owner
    <3>1. /\ id = [workspace |-> id.workspace, number |-> id.number]
          /\ id.number \in Nat \ {0} /\ owner[id] \in PaneIds(next_pane_id)
      BY <2>1 DEF IInv, OwnerSound
    <3>2. PaneIds(next_pane_id) \subseteq PaneIds(next_pane_id')
      <4>1. next_pane_id \in Nat
        BY DEF IInv, Counters
      <4>2. \A m, k \in Nat : m <= k => 1..(m - 1) \subseteq 1..(k - 1)
        OBVIOUS
      <4> QED
        BY <4>1, <4>2 DEF PaneIds
    <3> QED
      BY <1>2, <2>1, <3>1, <3>2
  <2>2. CASE id \notin DOMAIN owner
    <3>1. PICK p \in AllPanes(X) : id = Name(X, p)
      BY <1>2, <2>2
    <3> QED
      BY <1>3, <1>4, <3>1
  <2> QED
    BY <2>1, <2>2
<1>6. OwnerSound(X, n, next_pane_id', owner')
  BY <1>3, <1>5 DEF OwnerSound
<1>7. AliasesSound(X, owner', a.public_pane_id_aliases)
  BY <1>2, <1>3 DEF AliasesSound
<1> QED
  BY <1>2, <1>6, <1>7 DEF IInv, Counters, Keeps

\* Mailboxes of some panes go.
MailLess(W, mail, left, gone) ==
  /\ left = [id \in DOMAIN left |-> left[id]]
  /\ DOMAIN left = DOMAIN mail \ {Name(W, p) : p \in gone}
  /\ \A id \in DOMAIN left : left[id] = mail[id]

\* Aliases of some panes may go.
AliasesLess(aliases, left, gone) ==
  /\ \A id \in DOMAIN left : id \in DOMAIN aliases /\ left[id] = aliases[id]
  /\ \A id \in DOMAIN aliases : id \in DOMAIN left \/ aliases[id] \in gone

\* Panes go, or none, and no pane gets another name.
LEMMA SameKeeps ==
  ASSUME NEW fresh \in BOOLEAN, IInv(fresh), NEW a, Becomes(a),
         UNCHANGED <<next_workspace_id, next_pane_id, told>>,
         Sound(a, next_workspace_id), Settled(fresh, a),
         NEW gone \in SUBSET AllPanes(app.workspaces), Same(app.workspaces, a.workspaces, gone),
         AliasesLess(app.public_pane_id_aliases, a.public_pane_id_aliases, gone),
         MailLess(app.workspaces, app.mail, a.mail, gone)
  PROVE  Keeps(fresh)
<1> DEFINE W == app.workspaces
           X == a.workspaces
           n == next_workspace_id
<1>1. /\ WorkspacesSound(W) /\ n \in Nat \ {0} /\ next_pane_id \in Nat \ {0}
      /\ AllPanes(W) \subseteq PaneIds(next_pane_id) /\ told \subseteq PaneIds(next_pane_id)
  BY DEF IInv, Sound, Counters
<1>2. AllPanes(X) = AllPanes(W) \ gone
  BY DEF Same
<1>3. \A p \in AllPanes(X) : Name(X, p) = Name(W, p)
  BY <1>1, SameNames
<1>4. \A id \in DOMAIN owner : Reserved(X, n, id)
  BY <1>1, SameReserved DEF IInv, OwnerSound
<1>5. \A p \in AllPanes(X) : Name(X, p) \in DOMAIN owner /\ owner[Name(X, p)] = p
  BY <1>2, <1>3 DEF IInv, OwnerSound
<1>6. AliasesSound(X, owner, a.public_pane_id_aliases)
  BY <1>2, <1>3 DEF AliasesSound, AliasesLess, IInv
<1>7. MailSound(X, a.mail, told)
  <2>1. MailSound(W, app.mail, told)
    BY DEF IInv
  <2>2. ASSUME NEW id \in DOMAIN a.mail PROVE \E p \in told \cap AllPanes(X) : id = Name(X, p)
    <3>1. id \in DOMAIN app.mail /\ \A q \in gone : id # Name(W, q)
      BY DEF MailLess
    <3>2. PICK p \in told \cap AllPanes(W) : id = Name(W, p)
      BY <2>1, <3>1 DEF MailSound
    <3>3. p \in AllPanes(X)
      BY <1>2, <3>1, <3>2
    <3> QED
      BY <1>3, <3>2, <3>3
  <2>3. ASSUME NEW p \in told \cap AllPanes(X)
        PROVE  Name(X, p) \in DOMAIN a.mail /\ a.mail[Name(X, p)] = p
    <3>1. p \in AllPanes(W) \ gone /\ Name(X, p) = Name(W, p)
      BY <1>2, <1>3
    <3>2. \A q \in gone : Name(W, q) # Name(W, p)
      BY <1>1, <3>1, NamesDiffer
    <3>3. Name(W, p) \in DOMAIN app.mail /\ app.mail[Name(W, p)] = p
      BY <2>1, <3>1 DEF MailSound
    <3> QED
      BY <3>1, <3>2, <3>3 DEF MailLess
  <2> QED
    BY <2>2, <2>3 DEF MailSound, MailLess
<1> QED
  BY <1>1, <1>2, <1>4, <1>5, <1>6, <1>7, StepKeeps

\* A pane is made.
LEMMA NewKeeps ==
  ASSUME NEW fresh \in BOOLEAN, IInv(fresh), NEW a, Becomes(a),
         next_pane_id' = next_pane_id + 1, UNCHANGED told,
         next_workspace_id' \in {next_workspace_id, next_workspace_id + 1},
         Sound(a, next_workspace_id'), Settled(fresh, a),
         Gains(app.workspaces, a.workspaces, next_pane_id, next_workspace_id),
         a.public_pane_id_aliases = app.public_pane_id_aliases, a.mail = app.mail
  PROVE  Keeps(fresh)
<1> DEFINE W == app.workspaces
           X == a.workspaces
           n == next_workspace_id
           p == next_pane_id
<1>1. /\ WorkspacesSound(W) /\ n \in Nat \ {0} /\ p \in Nat \ {0}
      /\ AllPanes(W) \subseteq PaneIds(p) /\ told \subseteq PaneIds(p)
  BY DEF IInv, Sound, Counters
<1>2. AllPanes(X) = AllPanes(W) \cup {p}
  BY DEF Gains
<1>3. p \notin PaneIds(p) /\ PaneIds(p + 1) = PaneIds(p) \cup {p}
  BY <1>1 DEF PaneIds
<1>4. p \notin AllPanes(W) /\ p \notin told
  BY <1>1, <1>3
<1>5. \A q \in AllPanes(W) : Name(X, q) = Name(W, q)
  BY <1>1, <1>4, GainsNames
<1>6. next_workspace_id' \in Nat \ {0} /\ n <= next_workspace_id'
  BY <1>1
<1>7. \A id \in DOMAIN owner : Reserved(X, next_workspace_id', id) /\ Name(X, p) # id
  <2>1. \A id \in DOMAIN owner : Reserved(W, n, id) /\ id.number \in Nat
    BY DEF IInv, OwnerSound
  <2> QED
    BY <1>1, <1>4, <1>6, <2>1, GainsReserved
<1>8. \A q \in AllPanes(X) : Name(X, q) \in DOMAIN owner => owner[Name(X, q)] = q
  BY <1>2, <1>5, <1>7 DEF IInv, OwnerSound
<1>9. AliasesSound(X, owner, a.public_pane_id_aliases)
  <2>1. \A id \in DOMAIN owner : owner[id] # p
    BY <1>3 DEF IInv, OwnerSound
  <2> QED
    BY <1>2, <1>5, <2>1 DEF IInv, AliasesSound
<1>10. MailSound(X, a.mail, told)
  <2>1. told \cap AllPanes(X) = told \cap AllPanes(W)
    BY <1>2, <1>4
  <2>2. \A q \in told \cap AllPanes(W) : Name(X, q) = Name(W, q)
    BY <1>5
  <2>3. MailSound(W, app.mail, told)
    BY DEF IInv
  <2> QED
    BY <2>1, <2>2, <2>3 DEF MailSound
<1>11. AllPanes(X) \subseteq PaneIds(p + 1) /\ told \subseteq PaneIds(p + 1)
  BY <1>1, <1>2, <1>3
<1>12. p + 1 \in Nat \ {0} /\ p <= p + 1
  BY <1>1
<1> HIDE DEF X
<1> QED
  BY <1>2, <1>6, <1>7, <1>8, <1>9, <1>10, <1>11, <1>12, StepKeeps DEF X

\* A pane moves to another workspace, W to V without it and on to X.
LEMMA MovedKeeps ==
  ASSUME NEW fresh \in BOOLEAN, IInv(fresh), NEW a, Becomes(a), UNCHANGED <<next_pane_id, told>>,
         next_workspace_id' \in {next_workspace_id, next_workspace_id + 1},
         Sound(a, next_workspace_id'), Settled(fresh, a),
         NEW p \in AllPanes(app.workspaces), NEW V, Same(app.workspaces, V, {p}),
         Gains(V, a.workspaces, p, next_workspace_id),
         a.public_pane_id_aliases =
           Put(app.public_pane_id_aliases, Name(app.workspaces, p), p),
         a.mail = MoveKey(Without(app.mail, Name(a.workspaces, p)),
                          Name(app.workspaces, p), Name(a.workspaces, p))
  PROVE  Keeps(fresh)
<1> DEFINE W == app.workspaces
           X == a.workspaces
           n == next_workspace_id
           old == Name(W, p)
           new == Name(X, p)
<1>1. /\ WorkspacesSound(W) /\ n \in Nat \ {0} /\ next_pane_id \in Nat \ {0}
      /\ AllPanes(W) \subseteq PaneIds(next_pane_id) /\ told \subseteq PaneIds(next_pane_id)
  BY DEF IInv, Sound, Counters
<1>2. /\ WorkspacesSound(V) /\ AllPanes(V) = AllPanes(W) \ {p}
      /\ AllPanes(X) = AllPanes(V) \cup {p}
  BY DEF Gains, Same
<1>3. AllPanes(X) = AllPanes(W) /\ p \notin AllPanes(V)
  BY <1>2
<1>4. \A q \in AllPanes(W) \ {p} : Name(X, q) = Name(W, q)
  <2> TAKE q \in AllPanes(W) \ {p}
  <2>1. q \in AllPanes(V) /\ q # p
    BY <1>2
  <2>2. Name(X, q) = Name(V, q)
    BY <1>2, <2>1, GainsNames
  <2>3. Name(V, q) = Name(W, q)
    BY <1>1, <2>1, SameNames
  <2> QED
    BY <2>2, <2>3
<1>5. next_workspace_id' \in Nat \ {0} /\ n <= next_workspace_id'
  BY <1>1
<1>6. \A id \in DOMAIN owner : Reserved(X, next_workspace_id', id) /\ new # id
  <2>1. \A id \in DOMAIN owner : Reserved(W, n, id) /\ id.number \in Nat
    BY DEF IInv, OwnerSound
  <2>2. \A id \in DOMAIN owner : Reserved(V, n, id)
    BY <1>1, <2>1, SameReserved
  <2> QED
    BY <1>1, <1>2, <1>3, <1>5, <2>1, <2>2, GainsReserved
<1>7. \A q \in AllPanes(X) : Name(X, q) \in DOMAIN owner => owner[Name(X, q)] = q
  BY <1>3, <1>4, <1>6 DEF IInv, OwnerSound
<1>8. old \in DOMAIN owner /\ owner[old] = p /\ new \notin DOMAIN owner
  BY <1>6 DEF IInv, OwnerSound
<1>9. AliasesSound(X, owner, a.public_pane_id_aliases)
  <2> DEFINE al == app.public_pane_id_aliases
             am == a.public_pane_id_aliases
  <2>1. AliasesSound(W, owner, al)
    BY DEF IInv
  <2>2. /\ DOMAIN am = DOMAIN al \cup {old} /\ am[old] = p
        /\ \A id \in DOMAIN al \ {old} : am[id] = al[id]
    <3>1. am = Put(al, old, p)
      OBVIOUS
    <3> HIDE DEF al, am, old
    <3> QED
      BY <3>1 DEF Put
  <2> HIDE DEF al, am, old
  <2>3. \A id \in DOMAIN am : id \in DOMAIN owner /\ am[id] = owner[id]
    BY <1>8, <2>1, <2>2 DEF AliasesSound
  <2>4. ASSUME NEW id \in DOMAIN owner, owner[id] \in AllPanes(X), id # Name(X, owner[id])
        PROVE  id \in DOMAIN am
    <3>1. CASE owner[id] = p
      <4>1. id = old \/ id \in DOMAIN al
        BY <1>3, <2>1, <2>4, <3>1 DEF AliasesSound, old
      <4> QED
        BY <2>2, <4>1
    <3>2. CASE owner[id] # p
      BY <1>3, <1>4, <2>1, <2>2, <2>4, <3>2 DEF AliasesSound
    <3> QED
      BY <3>1, <3>2
  <2> QED
    BY <2>3, <2>4 DEF AliasesSound, am
<1>10. MailSound(X, a.mail, told)
  <2> DEFINE mail == app.mail
             to == told \cap AllPanes(W)
             rest == Without(mail, new)
  <2>1. MailSound(W, mail, told)
    BY DEF IInv
  <2>2. new \notin DOMAIN mail
    <3>1. \A id \in DOMAIN mail : id \in DOMAIN owner
      BY <2>1 DEF MailSound, IInv, OwnerSound
    <3> QED
      BY <1>8, <3>1
  <2>3. rest = mail
    BY <2>1, <2>2 DEF Without, MailSound
  <2>4. a.mail = IF old \in DOMAIN mail THEN Put(Without(mail, old), new, mail[old]) ELSE mail
    <3>1. a.mail = MoveKey(rest, old, new)
      OBVIOUS
    <3> QED
      BY <2>3, <3>1 DEF MoveKey
  <2>5. old \in DOMAIN mail <=> p \in told
    <3>1. \A q \in AllPanes(W) : Name(W, q) = old => q = p
      BY <1>1, NamesDiffer
    <3> QED
      BY <2>1, <3>1 DEF MailSound
  <2>6. \A q \in to \ {p} : Name(X, q) = Name(W, q) /\ Name(W, q) # old
    BY <1>1, <1>4, NamesDiffer
  <2>7. DOMAIN mail = {Name(W, q) : q \in to} /\ \A q \in to : mail[Name(W, q)] = q
    BY <2>1 DEF MailSound
  <2>8. told \cap AllPanes(X) = to
    BY <1>3
  <2>9. CASE p \in told
    <3> DEFINE without == Without(mail, old)
    <3>1. a.mail = Put(without, new, p) /\ p \in to
      BY <2>4, <2>5, <2>7, <2>9
    <3>2. DOMAIN without = DOMAIN mail \ {old} /\ \A id \in DOMAIN without : without[id] = mail[id]
      BY DEF Without
    <3> HIDE DEF without, mail
    <3>3. /\ a.mail = [id \in DOMAIN without \cup {new} |-> IF id = new THEN p ELSE without[id]]
          /\ new \notin DOMAIN without
      BY <2>2, <3>1, <3>2 DEF Put
    <3>4. DOMAIN without = {Name(W, q) : q \in to \ {p}}
      BY <2>6, <2>7, <3>1, <3>2
    <3>5. \A q \in to \ {p} : Name(X, q) \in DOMAIN without /\ without[Name(X, q)] = q
      BY <2>6, <2>7, <3>2, <3>4
    <3>6. DOMAIN a.mail = {Name(X, q) : q \in to}
      <4>1. DOMAIN a.mail = DOMAIN without \cup {new}
        BY <3>3
      <4>2. DOMAIN without = {Name(X, q) : q \in to \ {p}}
        BY <2>6, <3>4
      <4>3. to = (to \ {p}) \cup {p}
        BY <3>1
      <4> HIDE DEF to
      <4> QED
        BY <4>1, <4>2, <4>3
    <3>7. \A q \in to : a.mail[Name(X, q)] = q
      <4>1. a.mail[new] = p
        BY <3>3
      <4>2. \A q \in to \ {p} : a.mail[Name(X, q)] = q
        BY <3>3, <3>5
      <4> QED
        BY <4>1, <4>2
    <3>8. a.mail = [id \in DOMAIN a.mail |-> a.mail[id]]
      BY <3>3
    <3> HIDE DEF to
    <3> QED
      BY <2>8, <3>6, <3>7, <3>8 DEF MailSound
  <2>10. CASE p \notin told
    <3>1. a.mail = mail /\ \A q \in to : q # p
      BY <2>4, <2>5, <2>10
    <3>2. \A q \in to : Name(X, q) = Name(W, q)
      BY <2>6, <3>1
    <3> HIDE DEF to
    <3> QED
      BY <2>1, <2>7, <2>8, <3>1, <3>2 DEF MailSound
  <2> QED
    BY <2>9, <2>10
<1> HIDE DEF X
<1> QED
  BY <1>1, <1>3, <1>5, <1>6, <1>7, <1>9, <1>10, StepKeeps DEF X

-----------------------------------------------------------------------------
(* Focus.                                                                  *)

\* The same session with the focus elsewhere.
Refocused(fresh, a, b, n) ==
  /\ Sound(b, n) /\ Settled(fresh, b) /\ Same(a.workspaces, b.workspaces, {})
  /\ b.public_pane_id_aliases = a.public_pane_id_aliases /\ b.mail = a.mail

\* Where the focus is there is a pane.
LEMMA CurrentTarget ==
  ASSUME NEW n, NEW a, Sound(a, n)
  PROVE  current_pane_focus_target(a) \in Targets(a.workspaces, n)
<1>1. CASE a.active = None
  BY <1>1 DEF current_pane_focus_target, Targets
<1>2. CASE a.active # None
  <2> DEFINE ws == a.workspaces[a.active]
             tab == ws.tabs[ws.active_tab]
  <2>1. a.active \in DOMAIN a.workspaces /\ ws.id \in 1..(n - 1) /\ Good(ws)
    BY <1>2 DEF Sound, WorkspacesSound
  <2>2. ws.active_tab \in DOMAIN ws.tabs /\ TabSound(tab)
    BY <2>1 DEF Good, Half, TabsSound
  <2>3. tab.focused \in AllPanes(a.workspaces)
    <3>1. tab.focused \in PanesOf(ws)
      BY <2>2, Zenon DEF TabSound, PanesOf
    <3> QED
      BY <2>1, <3>1 DEF AllPanes
  <2>4. current_pane_focus_target(a) = [workspace |-> ws.id, pane |-> tab.focused]
    BY <1>2 DEF current_pane_focus_target, focused_pane_id
  <2> HIDE DEF ws, tab
  <2> QED
    BY <2>1, <2>3, <2>4 DEF Targets
<1> QED
  BY <1>1, <1>2

\* When no pane goes, what may be focused stays.
LEMMA SameTargets ==
  ASSUME NEW W, NEW X, NEW n, Same(W, X, {})
  PROVE  AllPanes(X) = AllPanes(W) /\ Targets(X, n) = Targets(W, n)
BY DEF Same, Targets

\* Workspace ids are as low as they were.
LEMMA SameIds ==
  ASSUME NEW W, NEW X, NEW g, NEW n, Same(W, X, g), \A w \in DOMAIN W : W[w].id \in 1..(n - 1)
  PROVE  \A x \in DOMAIN X : X[x].id \in 1..(n - 1)
BY DEF Same, Left

\* record_pane_focus remembers where the focus was.
LEMMA RecordSound ==
  ASSUME NEW n, NEW a, Sound(a, n), NEW previous \in Targets(a.workspaces, n), NEW target
  PROVE  LET b == record_pane_focus(a, previous, target)
         IN  /\ Sound(b, n) /\ b.workspaces = a.workspaces /\ b.active = a.active
             /\ b.selected = a.selected /\ b.mail = a.mail
             /\ b.public_pane_id_aliases = a.public_pane_id_aliases
BY DEF record_pane_focus, Sound, IsApp

\* switch_workspace_tab focuses a tab that exists.
LEMMA SwitchSound ==
  ASSUME NEW fresh \in BOOLEAN, NEW n, NEW a, Sound(a, n), NEW w \in DOMAIN a.workspaces,
         NEW t \in DOMAIN a.workspaces[w].tabs
  PROVE  LET b == switch_workspace_tab(a, w, t)
         IN  /\ Refocused(fresh, a, b, n) /\ DOMAIN b.workspaces = DOMAIN a.workspaces
             /\ b.workspaces[w].tabs = a.workspaces[w].tabs
<1> DEFINE W == a.workspaces
           ws == switch_tab(W[w], t)
           X == Replaced(W, w, ws)
           s == [a EXCEPT !.active = w, !.selected = w, !.workspaces[w] = switch_tab(@, t)]
           previous == current_pane_focus_target(a)
           b == switch_workspace_tab(a, w, t)
<1>1. WorkspacesSound(W) /\ Good(W[w]) /\ IsApp(a)
  BY DEF Sound, WorkspacesSound
<1>2. Left(W[w], ws, {}) /\ ws.tabs = W[w].tabs
  BY <1>1, SwitchTabLeft
<1>3. s = [a EXCEPT !.active = w, !.selected = w, !.workspaces = X]
  BY DEF Replaced
<1>4. b = record_pane_focus(s, previous, current_pane_focus_target(s))
  BY DEF switch_workspace_tab
<1>5. previous \in Targets(W, n)
  BY CurrentTarget
<1> HIDE DEF ws, s, previous, b
<1>6. Same(W, X, {}) /\ DOMAIN X = DOMAIN W /\ X[w] = ws
  <2>1. {} \in SUBSET PanesOf(W[w]) /\ w \in DOMAIN W
    OBVIOUS
  <2> HIDE DEF W
  <2> QED
    BY <1>1, <1>2, <2>1, ReplacedSame
<1> HIDE DEF X
<1>7. /\ IsApp(s) /\ s.workspaces = X /\ s.active = w /\ s.selected = w
      /\ s.previous_pane_focus = a.previous_pane_focus /\ s.mail = a.mail
      /\ s.public_pane_id_aliases = a.public_pane_id_aliases
  BY <1>1, <1>3 DEF IsApp
<1>8. Targets(X, n) = Targets(W, n)
  BY <1>6, SameTargets
<1>9. Sound(s, n)
  <2>1. \A x \in DOMAIN X : X[x].id \in 1..(n - 1)
    BY <1>6, SameIds DEF Sound
  <2> QED
    BY <1>6, <1>7, <1>8, <2>1 DEF Sound, Same
<1>10. /\ Sound(b, n) /\ b.workspaces = X /\ b.active = w /\ b.mail = a.mail
       /\ b.public_pane_id_aliases = a.public_pane_id_aliases
  BY <1>4, <1>5, <1>7, <1>8, <1>9, RecordSound
<1>11. w # None
  BY <1>1, LenProperties DEF WorkspacesSound, None
<1>12. Settled(fresh, b)
  BY <1>10, <1>11 DEF Settled
<1> QED
  BY <1>2, <1>6, <1>10, <1>12 DEF Refocused, b

\* The focus on a pane that has just come.
LEMMA NewcomerSound ==
  ASSUME NEW fresh \in BOOLEAN, NEW n, NEW a, Sound(a, n), NEW w \in DOMAIN a.workspaces,
         NEW t \in DOMAIN a.workspaces[w].tabs,
         NEW previous \in Targets(a.workspaces, n), NEW p
  PROVE  Refocused(fresh, a, focus_newcomer(a, previous, w, t, p), n)
<1> DEFINE s == switch_workspace_tab(a, w, t)
           target == [workspace |-> a.workspaces[w].id, pane |-> p]
           b == focus_newcomer(a, previous, w, t, p)
<1>1. Refocused(fresh, a, s, n)
  BY SwitchSound
<1>2. b = record_pane_focus(s, previous, target)
  BY DEF focus_newcomer
<1> HIDE DEF s, target, b
<1>3. previous \in Targets(s.workspaces, n)
  BY <1>1, SameTargets DEF Refocused
<1>4. /\ Sound(b, n) /\ b.workspaces = s.workspaces /\ b.active = s.active
      /\ b.mail = s.mail /\ b.public_pane_id_aliases = s.public_pane_id_aliases
  BY <1>1, <1>2, <1>3, RecordSound DEF Refocused
<1> QED
  BY <1>1, <1>4 DEF Refocused, Settled, b

\* focus_pane_in_workspace focuses a pane that exists.
LEMMA FocusPaneSound ==
  ASSUME NEW fresh \in BOOLEAN, NEW n, NEW a, Sound(a, n), Settled(fresh, a),
         NEW p \in AllPanes(a.workspaces)
  PROVE  Refocused(fresh, a, focus_pane_in_workspace(a, p), n)
<1> DEFINE W == a.workspaces
           w == WorkspaceOf(a, p)
           t == find_tab_index_for_pane(W[w], p)
           previous == current_pane_focus_target(a)
           s == switch_workspace_tab(a, w, t)
           ws == layout_focus(s.workspaces[w], t, p)
           X == Replaced(s.workspaces, w, ws)
           b == focus_pane_in_workspace(a, p)
<1>1. w \in DOMAIN W /\ p \in PanesOf(W[w])
  BY WorkspaceOfIs
<1> HIDE DEF w
<1>2. t \in DOMAIN W[w].tabs /\ p \in ToSet(W[w].tabs[t].panes)
  BY <1>1 DEF PanesOf, find_tab_index_for_pane
<1> HIDE DEF t
<1>3. b = IF previous.pane = p THEN a
          ELSE [s EXCEPT !.workspaces = X, !.previous_pane_focus = previous]
  BY DEF focus_pane_in_workspace, Replaced, w, t
<1>4. /\ Refocused(fresh, a, s, n) /\ DOMAIN s.workspaces = DOMAIN W
      /\ s.workspaces[w].tabs = W[w].tabs
  BY <1>1, <1>2, SwitchSound
<1>5. previous \in Targets(W, n)
  BY CurrentTarget
<1> HIDE DEF s, b, previous
<1>6. WorkspacesSound(s.workspaces) /\ Good(s.workspaces[w])
  BY <1>1, <1>4 DEF Refocused, Sound, WorkspacesSound
<1>7. Left(s.workspaces[w], ws, {})
  BY <1>2, <1>4, <1>6, LayoutFocusLeft
<1> HIDE DEF ws
<1>8. Same(s.workspaces, X, {}) /\ DOMAIN X = DOMAIN s.workspaces
  <2>1. {} \in SUBSET PanesOf(s.workspaces[w]) /\ w \in DOMAIN s.workspaces
    BY <1>1, <1>4
  <2> QED
    BY <1>6, <1>7, <2>1, ReplacedSame
<1> HIDE DEF X
<1>9. Same(W, X, {})
  <2>1. Same(W, X, {} \cup {})
    BY <1>4, <1>8, SameThenSame DEF Refocused
  <2> QED
    BY <2>1
<1>10. CASE previous.pane = p
  <2>1. Same(W, W, {})
    BY SameItself DEF Sound
  <2> QED
    BY <1>3, <1>10, <2>1 DEF Refocused, b
<1>11. CASE previous.pane # p
  <2>1. b = [s EXCEPT !.workspaces = X, !.previous_pane_focus = previous]
    BY <1>3, <1>11
  <2>2. IsApp(s)
    BY <1>4 DEF Refocused, Sound
  <2>3. /\ IsApp(b) /\ b.workspaces = X /\ b.previous_pane_focus = previous
        /\ b.active = s.active /\ b.selected = s.selected /\ b.mail = s.mail
        /\ b.public_pane_id_aliases = s.public_pane_id_aliases
    BY <2>1, <2>2 DEF IsApp
  <2>4. Targets(X, n) = Targets(W, n)
    BY <1>9, SameTargets
  <2>5. \A x \in DOMAIN X : X[x].id \in 1..(n - 1)
    BY <1>9, SameIds DEF Sound
  <2>6. Sound(b, n)
    BY <1>4, <1>5, <1>8, <2>3, <2>4, <2>5 DEF Sound, Refocused, Same
  <2>7. Settled(fresh, b)
    <3>1. s.workspaces # <<>>
      <4>1. DOMAIN <<>> = {}
        OBVIOUS
      <4> QED
        BY <1>1, <1>4, <4>1
    <3> QED
      BY <1>4, <2>3, <3>1 DEF Refocused, Settled
  <2> QED
    BY <1>4, <1>9, <2>3, <2>6, <2>7 DEF Refocused, b
<1> QED
  BY <1>10, <1>11

\* An operation that only moves the focus keeps the invariant.
LEMMA RefocusKeeps ==
  ASSUME NEW fresh \in BOOLEAN, IInv(fresh), NEW a, Becomes(a),
         UNCHANGED <<next_workspace_id, next_pane_id, told>>,
         Refocused(fresh, app, a, next_workspace_id)
  PROVE  Keeps(fresh)
<1>1. AliasesLess(app.public_pane_id_aliases, a.public_pane_id_aliases, {})
  BY DEF AliasesLess, Refocused
<1>2. MailLess(app.workspaces, app.mail, a.mail, {})
  <2>1. {Name(app.workspaces, p) : p \in {}} = {}
    OBVIOUS
  <2> QED
    BY <2>1 DEF MailLess, Refocused, IInv, MailSound
<1> QED
  BY <1>1, <1>2, SameKeeps DEF Refocused

\* pane.focus keeps the invariant.
LEMMA FocusPaneKeeps ==
  ASSUME NEW fresh \in BOOLEAN, IInv(fresh), NEW p \in AllPanes(app.workspaces), FocusPane(p)
  PROVE  Keeps(fresh)
BY RefocusKeeps, FocusPaneSound DEF FocusPane, IInv

\* tab.focus keeps the invariant.
LEMMA FocusTabKeeps ==
  ASSUME NEW fresh \in BOOLEAN, IInv(fresh), NEW w \in DOMAIN app.workspaces,
         NEW t \in DOMAIN app.workspaces[w].tabs,
         FocusTab(w, t)
  PROVE  Keeps(fresh)
BY RefocusKeeps, SwitchSound DEF FocusTab, IInv

\* Every workspace has an active tab.
LEMMA ActiveTab ==
  ASSUME NEW n, NEW a, Sound(a, n), NEW w \in DOMAIN a.workspaces
  PROVE  a.workspaces[w].active_tab \in DOMAIN a.workspaces[w].tabs
BY DEF Sound, WorkspacesSound, Good, Half

\* workspace.focus keeps the invariant.
LEMMA FocusWorkspaceKeeps ==
  ASSUME NEW fresh \in BOOLEAN, IInv(fresh), NEW w \in DOMAIN app.workspaces, FocusWorkspace(w)
  PROVE  Keeps(fresh)
BY RefocusKeeps, SwitchSound, ActiveTab DEF FocusWorkspace, switch_workspace, IInv

\* Going back to the previous pane keeps the invariant.
LEMMA GoToLastPaneKeeps ==
  ASSUME NEW fresh \in BOOLEAN, IInv(fresh), GoToLastPane
  PROVE  Keeps(fresh)
<1> DEFINE n == next_workspace_id
           target == app.previous_pane_focus
           none == [app EXCEPT !.previous_pane_focus = NoTarget]
<1>1. PICK a : /\ Becomes(a) /\ UNCHANGED <<next_workspace_id, next_pane_id, told>>
               /\ \/ a = none
                  \/ target.pane \in Live(app) /\ a = focus_pane_in_workspace(app, target.pane)
  BY DEF GoToLastPane
<1>2. Sound(app, n) /\ Settled(fresh, app)
  BY DEF IInv
<1>3. Refocused(fresh, app, none, n)
  <2>1. /\ IsApp(none) /\ none.workspaces = app.workspaces /\ none.active = app.active
        /\ none.selected = app.selected /\ none.previous_pane_focus = NoTarget
        /\ none.mail = app.mail /\ none.public_pane_id_aliases = app.public_pane_id_aliases
    BY <1>2 DEF Sound, IsApp
  <2> HIDE DEF none
  <2>2. Same(app.workspaces, app.workspaces, {})
    BY <1>2, SameItself DEF Sound
  <2> QED
    BY <1>2, <2>1, <2>2 DEF Refocused, Sound, Settled, Targets
<1> HIDE DEF none
<1>4. Refocused(fresh, app, a, n)
  BY <1>1, <1>2, <1>3, FocusPaneSound, Reading
<1> QED
  BY <1>1, <1>4, RefocusKeeps

-----------------------------------------------------------------------------
(* Creation.                                                               *)

\* Sound, but that the previous focus may be a pane that is away.
SoundBut(a, n, away) ==
  /\ IsApp(a) /\ WorkspacesSound(a.workspaces)
  /\ \A w \in DOMAIN a.workspaces : a.workspaces[w].id \in 1..(n - 1)
  /\ a.active \in {None} \cup DOMAIN a.workspaces
  /\ a.selected \in {1} \cup DOMAIN a.workspaces
  /\ a.previous_pane_focus \in
       {NoTarget} \cup [workspace : 1..(n - 1), pane : AllPanes(a.workspaces) \cup {away}]

\* A sound session is sound with any pane on its way.
LEMMA SoundIsSoundBut ==
  ASSUME NEW n, NEW a, Sound(a, n), NEW p
  PROVE  SoundBut(a, n, p)
BY DEF Sound, SoundBut, Targets

WithWorkspace(a, w, x) == [a EXCEPT !.workspaces[w] = x]
Pushed(a, x) == [a EXCEPT !.workspaces = Append(@, x)]

\* A pane is placed in a workspace.
LEMMA PlaceSound ==
  ASSUME NEW n, NEW a, NEW p, SoundBut(a, n, p), p \notin AllPanes(a.workspaces),
         NEW w \in DOMAIN a.workspaces, NEW x, Placed(a.workspaces[w], x, p), NEW m
  PROVE  LET b == WithWorkspace(a, w, x)
         IN  /\ Sound(b, n) /\ Gains(a.workspaces, b.workspaces, p, m)
             /\ b.workspaces[w] = x /\ DOMAIN b.workspaces = DOMAIN a.workspaces
             /\ b.public_pane_id_aliases = a.public_pane_id_aliases /\ b.mail = a.mail
             /\ b.active = a.active
<1> DEFINE W == a.workspaces
           X == Replaced(W, w, x)
           b == WithWorkspace(a, w, x)
<1>1. /\ WorkspacesSound(W) /\ IsApp(a) /\ w \in DOMAIN W /\ p \notin AllPanes(W)
      /\ Placed(W[w], x, p)
  BY DEF SoundBut
<1>2. b = [a EXCEPT !.workspaces = X]
  BY DEF Replaced, WithWorkspace
<1> HIDE DEF b
<1>3. /\ Gains(W, X, p, m) /\ DOMAIN X = DOMAIN W /\ X[w] = x
      /\ \A v \in DOMAIN W \ {w} : X[v] = W[v]
  <2> HIDE DEF W
  <2> QED
    BY <1>1, ReplacedGains
<1> HIDE DEF X
<1>4. /\ IsApp(b) /\ b.workspaces = X /\ b.active = a.active /\ b.selected = a.selected
      /\ b.previous_pane_focus = a.previous_pane_focus /\ b.mail = a.mail
      /\ b.public_pane_id_aliases = a.public_pane_id_aliases
  BY <1>1, <1>2 DEF IsApp
<1>5. \A v \in DOMAIN X : X[v].id \in 1..(n - 1)
  BY <1>3 DEF SoundBut, Placed
<1>6. AllPanes(X) = AllPanes(W) \cup {p}
  BY <1>3 DEF Gains
<1>7. b.previous_pane_focus \in Targets(X, n)
  BY <1>4, <1>6 DEF SoundBut, Targets
<1>8. Sound(b, n)
  BY <1>3, <1>4, <1>5, <1>7 DEF Sound, SoundBut, Gains
<1> QED
  BY <1>3, <1>4, <1>8 DEF b

\* A workspace comes with a pane.
LEMMA AppendSound ==
  ASSUME NEW n \in Nat \ {0}, NEW a, NEW p, SoundBut(a, n, p),
         p \notin AllPanes(a.workspaces), NEW x, Good(x), x.id = n, PanesOf(x) = {p}
  PROVE  LET b == Pushed(a, x)
         IN  /\ Sound(b, n + 1) /\ Gains(a.workspaces, b.workspaces, p, n)
             /\ Len(b.workspaces) \in DOMAIN b.workspaces
             /\ b.workspaces[Len(b.workspaces)] = x
             /\ b.public_pane_id_aliases = a.public_pane_id_aliases /\ b.mail = a.mail
             /\ b.active = a.active
<1> DEFINE W == a.workspaces
           X == Append(W, x)
           b == Pushed(a, x)
<1>1. WorkspacesSound(W) /\ IsApp(a) /\ p \notin AllPanes(W)
  BY DEF SoundBut
<1>2. b = [a EXCEPT !.workspaces = X]
  BY DEF Pushed
<1>3. \A w \in DOMAIN W : W[w].id \in 1..(n - 1) /\ W[w].id # x.id
  BY DEF SoundBut
<1> HIDE DEF b
<1>4. /\ Gains(W, X, p, x.id) /\ Len(X) \in DOMAIN X /\ X[Len(X)] = x
      /\ \A w \in DOMAIN W : w \in DOMAIN X /\ X[w] = W[w]
  BY <1>1, <1>3, AppendedGains
<1>5. Len(X) = Len(W) + 1 /\ DOMAIN X = 1..Len(X) /\ DOMAIN W = 1..Len(W) /\ Len(W) \in Nat
  <2>1. X \in Seq(WorkspaceSet) /\ W \in Seq(WorkspaceSet)
    BY <1>4 DEF Gains, WorkspacesSound, SoundBut
  <2>2. Len(X) = Len(W) + 1
    BY <1>1, <1>3, AppendedGains
  <2> HIDE DEF X
  <2> QED
    BY <2>1, <2>2, LenProperties
<1> HIDE DEF X
<1>6. /\ IsApp(b) /\ b.workspaces = X /\ b.active = a.active /\ b.selected = a.selected
      /\ b.previous_pane_focus = a.previous_pane_focus /\ b.mail = a.mail
      /\ b.public_pane_id_aliases = a.public_pane_id_aliases
  BY <1>1, <1>2 DEF IsApp
<1>7. \A v \in DOMAIN X : X[v].id \in 1..((n + 1) - 1)
  <2>1. DOMAIN X = DOMAIN W \cup {Len(X)}
    BY <1>5
  <2>2. n \in 1..((n + 1) - 1) /\ 1..(n - 1) \subseteq 1..((n + 1) - 1)
    OBVIOUS
  <2>3. X[Len(X)].id = n /\ \A w \in DOMAIN W : X[w].id \in 1..(n - 1)
    BY <1>3, <1>4
  <2> QED
    BY <2>1, <2>2, <2>3, Zenon
<1>8. AllPanes(X) = AllPanes(W) \cup {p}
  BY <1>4 DEF Gains
<1>9. b.previous_pane_focus \in Targets(X, n + 1)
  <2>1. 1..(n - 1) \subseteq 1..((n + 1) - 1)
    OBVIOUS
  <2> QED
    BY <1>6, <1>8, <2>1 DEF SoundBut, Targets
<1>10. Sound(b, n + 1)
  BY <1>4, <1>6, <1>7, <1>9 DEF Sound, SoundBut, Gains
<1> QED
  BY <1>4, <1>6, <1>10 DEF b

\* ... and may get the focus.
LEMMA PushSound ==
  ASSUME NEW fresh \in BOOLEAN, NEW n \in Nat \ {0}, NEW a, Sound(a, n), NEW p,
         p \notin AllPanes(a.workspaces),
         NEW x, Good(x), x.id = n, PanesOf(x) = {p}, NEW focus \in BOOLEAN
  PROVE  LET b == push_workspace(a, x, focus)
         IN  /\ Sound(b, n + 1) /\ Settled(fresh, b) /\ Gains(a.workspaces, b.workspaces, p, n)
             /\ b.public_pane_id_aliases = a.public_pane_id_aliases /\ b.mail = a.mail
<1> DEFINE pushed == Pushed(a, x)
           w == Len(pushed.workspaces)
           t == pushed.workspaces[w].active_tab
           s == switch_workspace_tab(pushed, w, t)
           b == push_workspace(a, x, focus)
<1>1. b = IF focus \/ a.active = None THEN s ELSE pushed
  BY DEF push_workspace, switch_workspace, Pushed
<1>2. SoundBut(a, n, p)
  BY SoundIsSoundBut
<1>3. /\ Sound(pushed, n + 1) /\ Gains(a.workspaces, pushed.workspaces, p, n)
      /\ w \in DOMAIN pushed.workspaces
      /\ pushed.public_pane_id_aliases = a.public_pane_id_aliases /\ pushed.mail = a.mail
      /\ pushed.active = a.active
  <2>1. p \notin AllPanes(a.workspaces) /\ Good(x) /\ x.id = n /\ PanesOf(x) = {p}
    OBVIOUS
  <2> HIDE DEF s, b, t
  <2> QED
    BY ONLY n \in Nat \ {0}, <1>2, <2>1, AppendSound
<1> HIDE DEF pushed, b
<1>4. t \in DOMAIN pushed.workspaces[w].tabs
  BY <1>3, ActiveTab
<1>5. Refocused(fresh, pushed, s, n + 1)
  BY <1>3, <1>4, SwitchSound
<1> HIDE DEF s
<1>6. Gains(a.workspaces, s.workspaces, p, n)
  BY <1>3, <1>5, GainsThenSame DEF Refocused
<1> QED
  BY <1>1, <1>3, <1>5, <1>6 DEF Refocused, Settled, b

\* Panes keep their names, then one arrives.
LEMMA SameThenGains ==
  ASSUME NEW W, NEW V, NEW X, NEW p, NEW n, WorkspacesSound(W), Same(W, V, {}), Gains(V, X, p, n)
  PROVE  Gains(W, X, p, n)
<1>1. ASSUME NEW x \in DOMAIN X
      PROVE  \/ \E w \in DOMAIN W : Left(W[w], X[x], {})
             \/ \E w \in DOMAIN W : Placed(W[w], X[x], p)
             \/ X[x].id = n /\ PanesOf(X[x]) = {p}
  <2>1. ASSUME NEW v \in DOMAIN V, Left(V[v], X[x], {})
        PROVE  \E w \in DOMAIN W : Left(W[w], X[x], {})
    <3>1. PICK w \in DOMAIN W : Left(W[w], V[v], {})
      BY DEF Same
    <3>2. Left(W[w], X[x], {})
      BY <2>1, <3>1 DEF Left
    <3> QED
      BY <3>2
  <2>2. ASSUME NEW v \in DOMAIN V, Placed(V[v], X[x], p)
        PROVE  \E w \in DOMAIN W : Placed(W[w], X[x], p)
    <3>1. PICK w \in DOMAIN W : Left(W[w], V[v], {})
      BY DEF Same
    <3>2. /\ DOMAIN V[v].public_pane_numbers = PanesOf(V[v])
          /\ DOMAIN W[w].public_pane_numbers = PanesOf(W[w])
          /\ PanesOf(V[v]) = PanesOf(W[w])
      BY <3>1 DEF Left, Good, WorkspacesSound
    <3>3. Placed(W[w], X[x], p)
      BY <2>2, <3>1, <3>2 DEF Left, Placed
    <3> QED
      BY <3>3
  <2> QED
    BY <2>1, <2>2 DEF Gains
<1> QED
  BY <1>1 DEF Gains, Same

\* The next pane is nowhere yet.
LEMMA NextPaneIsNew ==
  ASSUME NEW fresh \in BOOLEAN, IInv(fresh)
  PROVE  /\ next_pane_id \in Nat \ {0} /\ next_pane_id \notin AllPanes(app.workspaces)
         /\ next_workspace_id \in Nat \ {0}
<1>1. next_pane_id \notin PaneIds(next_pane_id) /\ next_pane_id \in Nat \ {0}
  BY DEF PaneIds, IInv, Counters
<1> QED
  BY <1>1 DEF IInv, Counters

\* workspace.create keeps the invariant.
LEMMA CreateWorkspaceKeeps ==
  ASSUME NEW fresh \in BOOLEAN, IInv(fresh), NEW focus \in BOOLEAN, CreateWorkspace(focus)
  PROVE  Keeps(fresh)
<1> DEFINE n == next_workspace_id
           p == next_pane_id
           x == new_workspace(n, p)
           a == push_workspace(app, x, focus)
<1>1. /\ Becomes(a) /\ next_workspace_id' = n + 1 /\ next_pane_id' = p + 1 /\ told' = told
  BY DEF CreateWorkspace
<1>2. p \in Nat \ {0} /\ p \notin AllPanes(app.workspaces) /\ n \in Nat \ {0} /\ Sound(app, n)
  BY NextPaneIsNew DEF IInv
<1>3. Good(x) /\ x.id = n /\ PanesOf(x) = {p}
  BY <1>2, NewWorkspaceGood
<1> HIDE DEF x
<1>4. /\ Sound(a, n + 1) /\ Settled(fresh, a) /\ Gains(app.workspaces, a.workspaces, p, n)
      /\ a.public_pane_id_aliases = app.public_pane_id_aliases /\ a.mail = app.mail
  BY <1>2, <1>3, PushSound
<1> HIDE DEF a
<1> QED
  BY <1>1, <1>4, NewKeeps

\* Opening a worktree, which groups its workspace with the source's, keeps
\* the invariant.
LEMMA OpenWorktreeKeeps ==
  ASSUME NEW fresh \in BOOLEAN, IInv(fresh), NEW w \in DOMAIN app.workspaces,
         NEW focus \in BOOLEAN, OpenWorktree(w, focus)
  PROVE  Keeps(fresh)
<1> DEFINE n == next_workspace_id
           p == next_pane_id
           W == app.workspaces
           main == [W[w] EXCEPT !.space = "main"]
           V == Replaced(W, w, main)
           source == [app EXCEPT !.workspaces = V]
           new == new_workspace(n, p)
           linked == [new EXCEPT !.space = "linked"]
           a == push_workspace(source, linked, focus)
<1>1. /\ Becomes(a) /\ next_workspace_id' = n + 1 /\ next_pane_id' = p + 1 /\ told' = told
  BY DEF OpenWorktree, Replaced
<1>2. /\ p \in Nat \ {0} /\ p \notin AllPanes(W) /\ n \in Nat \ {0}
      /\ Sound(app, n) /\ WorkspacesSound(W) /\ Good(W[w])
  BY NextPaneIsNew DEF IInv, Sound, WorkspacesSound
<1>3. Good(new) /\ new.id = n /\ PanesOf(new) = {p}
  BY <1>2, NewWorkspaceGood
<1> HIDE DEF new
<1>4. Left(new, linked, {})
  BY <1>3, SpaceGood
<1>5. Good(linked) /\ linked.id = n /\ PanesOf(linked) = {p}
  BY <1>3, <1>4 DEF Left
<1> HIDE DEF linked
<1>6. Left(W[w], main, {})
  BY <1>2, SpaceGood
<1> HIDE DEF main
<1>7. Same(W, V, {}) /\ DOMAIN V = DOMAIN W
  <2>1. {} \in SUBSET PanesOf(W[w]) /\ w \in DOMAIN W
    OBVIOUS
  <2> HIDE DEF W
  <2> QED
    BY <1>2, <1>6, <2>1, ReplacedSame
<1> HIDE DEF V
<1>8. /\ IsApp(source) /\ source.workspaces = V /\ source.active = app.active
      /\ source.selected = app.selected /\ source.mail = app.mail
      /\ source.previous_pane_focus = app.previous_pane_focus
      /\ source.public_pane_id_aliases = app.public_pane_id_aliases
  BY <1>2 DEF Sound, IsApp
<1> HIDE DEF source
<1>9. Sound(source, n)
  <2>1. Targets(V, n) = Targets(W, n)
    BY <1>7, SameTargets
  <2>2. \A v \in DOMAIN V : V[v].id \in 1..(n - 1)
    BY <1>2, <1>7, SameIds DEF Sound
  <2> QED
    BY <1>2, <1>7, <1>8, <2>1, <2>2 DEF Sound, Same
<1>10. p \notin AllPanes(source.workspaces)
  BY <1>2, <1>7, <1>8 DEF Same
<1>11. /\ Sound(a, n + 1) /\ Settled(fresh, a) /\ Gains(V, a.workspaces, p, n)
       /\ a.public_pane_id_aliases = app.public_pane_id_aliases /\ a.mail = app.mail
  <2> HIDE DEF W, n, p
  <2> QED
    BY <1>2, <1>5, <1>8, <1>9, <1>10, PushSound
<1> HIDE DEF a
<1>12. Gains(W, a.workspaces, p, n)
  BY <1>2, <1>7, <1>11, SameThenGains
<1> QED
  BY <1>1, <1>11, <1>12, NewKeeps

\* A fresh session with a workspace has an active one.
LEMMA ActiveWorkspace ==
  ASSUME NEW fresh \in BOOLEAN, NEW a, Settled(fresh, a), NEW w \in DOMAIN a.workspaces
  PROVE  fresh => a.active # None
<1>1. DOMAIN <<>> = {}
  OBVIOUS
<1> QED
  BY <1>1 DEF Settled

\* tab.create keeps the invariant.
LEMMA CreateTabKeeps ==
  ASSUME NEW fresh \in BOOLEAN, IInv(fresh), NEW w \in DOMAIN app.workspaces,
         NEW focus \in BOOLEAN, CreateTab(w, focus)
  PROVE  Keeps(fresh)
<1> DEFINE n == next_workspace_id
           p == next_pane_id
           W == app.workspaces
           x == create_tab(W[w], p)
           created == WithWorkspace(app, w, x)
           t == Len(created.workspaces[w].tabs)
           s == switch_workspace_tab(created, w, t)
<1>1. PICK a : /\ Becomes(a) /\ a = IF focus THEN s ELSE created
               /\ next_workspace_id' = n /\ next_pane_id' = p + 1 /\ told' = told
  BY DEF CreateTab, WithWorkspace
<1>2. /\ p \in Nat \ {0} /\ p \notin AllPanes(W) /\ n \in Nat \ {0}
      /\ Sound(app, n) /\ Settled(fresh, app) /\ Good(W[w])
  BY NextPaneIsNew DEF IInv, Sound, WorkspacesSound
<1>3. p \in Nat \ PanesOf(W[w]) /\ DOMAIN W[w].public_pane_numbers \ {p} = PanesOf(W[w]) /\ Half(W[w])
  BY <1>2 DEF AllPanes, Good
<1>4. Placed(W[w], x, p) /\ Len(x.tabs) \in DOMAIN x.tabs
  BY <1>3, CreateTabPlaced
<1> HIDE DEF x
<1>5. SoundBut(app, n, p)
  BY <1>2, SoundIsSoundBut
<1>6. /\ Sound(created, n) /\ Gains(W, created.workspaces, p, n)
      /\ created.workspaces[w] = x /\ DOMAIN created.workspaces = DOMAIN W
      /\ created.public_pane_id_aliases = app.public_pane_id_aliases
      /\ created.mail = app.mail /\ created.active = app.active
  <2>1. w \in DOMAIN app.workspaces /\ p \notin AllPanes(app.workspaces)
    BY <1>2
  <2>2. Placed(app.workspaces[w], x, p)
    BY <1>4
  <2> HIDE DEF s, t, p
  <2> QED
    BY ONLY <1>5, <2>1, <2>2, PlaceSound
<1> HIDE DEF created
<1>7. t \in DOMAIN created.workspaces[w].tabs /\ w \in DOMAIN created.workspaces
  BY <1>4, <1>6
<1> HIDE DEF t
<1>8. Refocused(fresh, created, s, n)
  BY <1>6, <1>7, SwitchSound
<1> HIDE DEF s
<1>9. Gains(W, s.workspaces, p, n)
  BY <1>6, <1>8, GainsThenSame DEF Refocused
<1>10. Settled(fresh, created)
  BY <1>2, <1>6, ActiveWorkspace DEF Settled
<1>11. /\ Sound(a, n) /\ Settled(fresh, a) /\ Gains(W, a.workspaces, p, n)
       /\ a.public_pane_id_aliases = app.public_pane_id_aliases /\ a.mail = app.mail
  BY <1>1, <1>6, <1>8, <1>9, <1>10 DEF Refocused
<1> QED
  BY <1>1, <1>11, NewKeeps

\* pane.split keeps the invariant.
LEMMA SplitPaneKeeps ==
  ASSUME NEW fresh \in BOOLEAN, IInv(fresh), NEW target \in AllPanes(app.workspaces),
         NEW focus \in BOOLEAN,
         SplitPane(target, focus)
  PROVE  Keeps(fresh)
<1> DEFINE n == next_workspace_id
           p == next_pane_id
           W == app.workspaces
           w == WorkspaceOf(app, target)
           t == find_tab_index_for_pane(W[w], target)
           x == split_pane(W[w], t, target, p, focus)
           split == WithWorkspace(app, w, x)
           previous == current_pane_focus_target(app)
           s == focus_newcomer(split, previous, w, t, p)
<1>1. PICK a : /\ Becomes(a) /\ a = IF focus THEN s ELSE split
               /\ next_workspace_id' = n /\ next_pane_id' = p + 1 /\ told' = told
  BY DEF SplitPane, WithWorkspace
<1>2. w \in DOMAIN W /\ target \in PanesOf(W[w])
  BY WorkspaceOfIs
<1> HIDE DEF w
<1>3. t \in DOMAIN W[w].tabs /\ target \in ToSet(W[w].tabs[t].panes)
  BY <1>2 DEF PanesOf, find_tab_index_for_pane
<1> HIDE DEF t
<1>4. /\ p \in Nat \ {0} /\ p \notin AllPanes(W) /\ n \in Nat \ {0}
      /\ Sound(app, n) /\ Settled(fresh, app) /\ Good(W[w])
  BY <1>2, NextPaneIsNew DEF IInv, Sound, WorkspacesSound
<1>5. p \in Nat \ PanesOf(W[w]) /\ DOMAIN W[w].public_pane_numbers \ {p} = PanesOf(W[w]) /\ Half(W[w])
  BY <1>2, <1>4 DEF AllPanes, Good
<1>6. Placed(W[w], x, p) /\ t \in DOMAIN x.tabs
  BY <1>3, <1>5, SplitPlaced
<1> HIDE DEF x
<1>7. SoundBut(app, n, p)
  BY <1>4, SoundIsSoundBut
<1>8. /\ Sound(split, n) /\ Gains(W, split.workspaces, p, n)
      /\ split.workspaces[w] = x /\ DOMAIN split.workspaces = DOMAIN W
      /\ split.public_pane_id_aliases = app.public_pane_id_aliases
      /\ split.mail = app.mail /\ split.active = app.active
  <2>1. w \in DOMAIN app.workspaces /\ p \notin AllPanes(app.workspaces)
    BY <1>2, <1>4
  <2>2. Placed(app.workspaces[w], x, p)
    BY <1>6
  <2> HIDE DEF s, p
  <2> QED
    BY ONLY <1>7, <2>1, <2>2, PlaceSound
<1> HIDE DEF split
<1>9. previous \in Targets(split.workspaces, n)
  <2>1. previous \in Targets(W, n)
    BY <1>4, CurrentTarget
  <2>2. AllPanes(W) \subseteq AllPanes(split.workspaces)
    BY <1>8 DEF Gains
  <2> HIDE DEF previous
  <2> QED
    BY <2>1, <2>2 DEF Targets
<1> HIDE DEF previous
<1>10. Refocused(fresh, split, s, n)
  BY <1>2, <1>6, <1>8, <1>9, NewcomerSound
<1> HIDE DEF s
<1>11. Gains(W, s.workspaces, p, n)
  BY <1>8, <1>10, GainsThenSame DEF Refocused
<1>12. Settled(fresh, split)
  BY <1>2, <1>4, <1>8, ActiveWorkspace DEF Settled
<1>13. /\ Sound(a, n) /\ Settled(fresh, a) /\ Gains(W, a.workspaces, p, n)
       /\ a.public_pane_id_aliases = app.public_pane_id_aliases /\ a.mail = app.mail
  BY <1>1, <1>8, <1>10, <1>11, <1>12 DEF Refocused
<1> QED
  BY <1>1, <1>13, NewKeeps

-----------------------------------------------------------------------------
(* Closing.                                                                *)

\* The records of some panes go.
Cleaned(a, b, gone) ==
  /\ IsApp(b) /\ b.workspaces = a.workspaces
  /\ b.active = a.active /\ b.selected = a.selected
  /\ b.public_pane_id_aliases = a.public_pane_id_aliases
  /\ b.previous_pane_focus \in {a.previous_pane_focus, NoTarget}
  /\ b.previous_pane_focus.pane \notin gone
  /\ MailLess(a.workspaces, a.mail, b.mail, gone)

\* What is left of the records of panes that go: no previous focus on them
\* and no mailbox of theirs.
LEMMA CleanedIs ==
  ASSUME NEW a, IsApp(a), NEW gone, None \notin gone
  PROVE  Cleaned(a, remove_mail(remove_pane_records(a, gone), gone), gone)
<1> DEFINE r == remove_pane_records(a, gone)
           names == {Name(a.workspaces, p) : p \in gone}
           mail == [id \in DOMAIN r.mail \ names |-> r.mail[id]]
           b == remove_mail(r, gone)
<1>1. r = IF a.previous_pane_focus.pane \in gone
          THEN [a EXCEPT !.previous_pane_focus = NoTarget] ELSE a
  BY DEF remove_pane_records
<1> HIDE DEF r
<1>2. /\ IsApp(r) /\ r.workspaces = a.workspaces /\ r.mail = a.mail
      /\ r.active = a.active /\ r.selected = a.selected
      /\ r.public_pane_id_aliases = a.public_pane_id_aliases
      /\ r.previous_pane_focus \in {a.previous_pane_focus, NoTarget}
      /\ r.previous_pane_focus.pane \notin gone
  BY <1>1 DEF IsApp, NoTarget
<1>3. {public_pane_id(r, p) : p \in gone} = names
  BY <1>2, Reading
<1>4. b = [r EXCEPT !.mail = mail]
  BY <1>3 DEF remove_mail
<1>5. /\ mail = [id \in DOMAIN mail |-> mail[id]] /\ DOMAIN mail = DOMAIN a.mail \ names
      /\ \A id \in DOMAIN mail : mail[id] = a.mail[id]
  BY <1>2
<1> HIDE DEF mail, b
<1>6. /\ IsApp(b) /\ b.workspaces = r.workspaces /\ b.mail = mail
      /\ b.active = r.active /\ b.selected = r.selected
      /\ b.public_pane_id_aliases = r.public_pane_id_aliases
      /\ b.previous_pane_focus = r.previous_pane_focus
  BY <1>2, <1>4 DEF IsApp
<1> QED
  BY <1>2, <1>5, <1>6 DEF Cleaned, MailLess, b, r

\* Forgetting some panes, then others, forgets both.
LEMMA CleanedTwice ==
  ASSUME NEW a, NEW b, NEW c, NEW g, NEW h, Cleaned(a, b, g), Cleaned(b, c, h), None \notin g
  PROVE  Cleaned(a, c, g \cup h)
<1>1. c.previous_pane_focus.pane \notin g
  BY DEF Cleaned, NoTarget
<1>2. {Name(a.workspaces, p) : p \in g \cup h} =
        {Name(a.workspaces, p) : p \in g} \cup {Name(a.workspaces, p) : p \in h}
  OBVIOUS
<1>3. MailLess(a.workspaces, a.mail, c.mail, g \cup h)
  BY <1>2 DEF Cleaned, MailLess
<1> QED
  BY <1>1, <1>3 DEF Cleaned

Shown(c, X, active, selected) ==
  [c EXCEPT !.workspaces = X, !.active = active, !.selected = selected]
Closed(c, X, active, selected, aliases) ==
  [Shown(c, X, active, selected) EXCEPT !.public_pane_id_aliases = aliases]

\* The parts of a session with other workspaces and another focus.
LEMMA ShownIs ==
  ASSUME NEW c, IsApp(c), NEW X, NEW active, NEW selected
  PROVE  LET b == Shown(c, X, active, selected)
         IN  /\ IsApp(b) /\ b.workspaces = X /\ b.active = active /\ b.selected = selected
             /\ b.previous_pane_focus = c.previous_pane_focus /\ b.mail = c.mail
             /\ b.public_pane_id_aliases = c.public_pane_id_aliases
<1> DEFINE b1 == [c EXCEPT !.workspaces = X]
           b2 == [b1 EXCEPT !.active = active]
           b == Shown(c, X, active, selected)
<1>1. b = [b2 EXCEPT !.selected = selected]
  BY DEF Shown
<1> HIDE DEF b
<1>2. /\ IsApp(b1) /\ b1.workspaces = X /\ b1.mail = c.mail
      /\ b1.previous_pane_focus = c.previous_pane_focus
      /\ b1.public_pane_id_aliases = c.public_pane_id_aliases
  BY DEF IsApp
<1> HIDE DEF b1
<1>3. /\ IsApp(b2) /\ b2.workspaces = X /\ b2.active = active /\ b2.mail = b1.mail
      /\ b2.previous_pane_focus = b1.previous_pane_focus
      /\ b2.public_pane_id_aliases = b1.public_pane_id_aliases
  BY <1>2 DEF IsApp
<1> HIDE DEF b2
<1>4. /\ IsApp(b) /\ b.workspaces = X /\ b.active = active /\ b.selected = selected
      /\ b.previous_pane_focus = c.previous_pane_focus /\ b.mail = c.mail
      /\ b.public_pane_id_aliases = c.public_pane_id_aliases
  BY <1>1, <1>2, <1>3 DEF IsApp
<1> QED
  BY <1>4 DEF b

\* The parts of a session with other workspaces, focus and aliases.
LEMMA ClosedIs ==
  ASSUME NEW c, IsApp(c), NEW X, NEW active, NEW selected, NEW aliases
  PROVE  LET b == Closed(c, X, active, selected, aliases)
         IN  /\ IsApp(b) /\ b.workspaces = X /\ b.active = active /\ b.selected = selected
             /\ b.previous_pane_focus = c.previous_pane_focus /\ b.mail = c.mail
             /\ b.public_pane_id_aliases = aliases
<1> DEFINE s == Shown(c, X, active, selected)
           b == Closed(c, X, active, selected, aliases)
<1>1. /\ IsApp(s) /\ s.workspaces = X /\ s.active = active /\ s.selected = selected
      /\ s.previous_pane_focus = c.previous_pane_focus /\ s.mail = c.mail
  BY ShownIs
<1>2. b = [s EXCEPT !.public_pane_id_aliases = aliases]
  BY DEF Closed
<1> HIDE DEF s, b
<1>3. /\ IsApp(b) /\ b.workspaces = X /\ b.active = active /\ b.selected = selected
      /\ b.previous_pane_focus = c.previous_pane_focus /\ b.mail = c.mail
      /\ b.public_pane_id_aliases = aliases
  BY <1>1, <1>2 DEF IsApp
<1> QED
  BY <1>3 DEF b

\* A close keeps the invariant when it forgets exactly the panes that go,
\* moves the focus to something left, and drops at most their aliases.
LEMMA CloseKeeps ==
  ASSUME NEW fresh \in BOOLEAN, IInv(fresh), UNCHANGED <<next_workspace_id, next_pane_id, told>>,
         NEW gone \in SUBSET AllPanes(app.workspaces), NEW c, Cleaned(app, c, gone),
         NEW X, Same(app.workspaces, X, gone),
         NEW active \in {None} \cup DOMAIN X, fresh /\ active = None => X = <<>>,
         NEW selected \in {1} \cup DOMAIN X,
         NEW aliases, AliasesLess(app.public_pane_id_aliases, aliases, gone),
         Becomes(Closed(c, X, active, selected, aliases))
  PROVE  Keeps(fresh)
<1> DEFINE n == next_workspace_id
           W == app.workspaces
           b == Closed(c, X, active, selected, aliases)
<1>1. Sound(app, n)
  BY DEF IInv
<1>2. /\ IsApp(b) /\ b.workspaces = X /\ b.active = active /\ b.selected = selected
      /\ b.public_pane_id_aliases = aliases /\ b.mail = c.mail
      /\ b.previous_pane_focus = c.previous_pane_focus
  <2>1. IsApp(c)
    BY DEF Cleaned
  <2> QED
    BY <2>1, ClosedIs
<1>3. Becomes(b)
  OBVIOUS
<1> HIDE DEF b
<1>4. \A x \in DOMAIN X : X[x].id \in 1..(n - 1)
  BY <1>1, SameIds DEF Sound
<1>5. c.previous_pane_focus \in Targets(X, n)
  <2>1. c.previous_pane_focus \in Targets(W, n)
    BY <1>1 DEF Cleaned, Sound, Targets
  <2>2. AllPanes(X) = AllPanes(W) \ gone
    BY DEF Same
  <2>3. c.previous_pane_focus.pane \notin gone
    BY DEF Cleaned
  <2> QED
    BY <2>1, <2>2, <2>3 DEF Targets
<1>6. Sound(b, n) /\ Settled(fresh, b)
  BY <1>2, <1>4, <1>5 DEF Sound, Settled, Same
<1>7. MailLess(W, app.mail, b.mail, gone)
  BY <1>2 DEF Cleaned
<1> QED
  BY <1>2, <1>3, <1>6, <1>7, SameKeeps

\* No pane has the number that stands for none.
LEMMA NoneIsNoPane ==
  ASSUME NEW fresh \in BOOLEAN, IInv(fresh)
  PROVE  None \notin AllPanes(app.workspaces)
BY DEF IInv, Counters, PaneIds, None

\* A session with a workspace has a selected one, and a fresh one an active one.
LEMMA Focused ==
  ASSUME NEW fresh \in BOOLEAN, NEW n, NEW a, Sound(a, n), Settled(fresh, a),
         NEW w \in DOMAIN a.workspaces
  PROVE  /\ a.active \in {None} \cup DOMAIN a.workspaces
         /\ fresh => a.active # None
         /\ a.selected \in DOMAIN a.workspaces
         /\ DOMAIN a.workspaces = 1..Len(a.workspaces) /\ Len(a.workspaces) \in Nat
<1>1. fresh => a.active # None
  BY ActiveWorkspace
<1>2. DOMAIN a.workspaces = 1..Len(a.workspaces) /\ Len(a.workspaces) \in Nat
  BY LenProperties DEF Sound, WorkspacesSound
<1>3. 1 \in DOMAIN a.workspaces
  BY <1>2
<1> QED
  BY <1>1, <1>2, <1>3 DEF Sound

\* tab.close keeps the invariant, also when the tab was the last one.
LEMMA CloseTabKeeps ==
  ASSUME NEW fresh \in BOOLEAN, IInv(fresh), NEW w \in DOMAIN app.workspaces,
         NEW t \in DOMAIN app.workspaces[w].tabs,
         CloseTab(w, t)
  PROVE  Keeps(fresh)
<1> DEFINE n == next_workspace_id
           W == app.workspaces
           gone == ToSet(W[w].tabs[t].panes)
           c == remove_mail(remove_pane_records(app, gone), gone)
           x == close_tab(W[w], t)
           X == Replaced(W, w, x)
           al == app.public_pane_id_aliases
<1>1. /\ Len(W[w].tabs) > 1 /\ Becomes([c EXCEPT !.workspaces[w] = close_tab(@, t)])
      /\ UNCHANGED <<next_workspace_id, next_pane_id, told>>
  BY Zenon DEF CloseTab
<1>2. Sound(app, n) /\ Settled(fresh, app) /\ WorkspacesSound(W) /\ Good(W[w]) /\ IsApp(app)
  BY DEF IInv, Sound, WorkspacesSound
<1>3. gone \in SUBSET PanesOf(W[w]) /\ gone \in SUBSET AllPanes(W)
  BY DEF PanesOf, AllPanes
<1>4. Cleaned(app, c, gone)
  BY <1>2, <1>3, CleanedIs, NoneIsNoPane
<1>5. Left(W[w], x, gone)
  BY <1>1, <1>2, CloseTabLeft, Zenon
<1>6. [c EXCEPT !.workspaces[w] = close_tab(@, t)] = Closed(c, X, app.active, app.selected, al)
  <2> HIDE DEF c
  <2> QED
    BY <1>4 DEF Cleaned, Closed, Shown, IsApp, Replaced
<1> HIDE DEF c, x, gone
<1>7. Same(W, X, gone) /\ DOMAIN X = DOMAIN W
  <2>1. w \in DOMAIN W
    OBVIOUS
  <2> HIDE DEF W
  <2> QED
    BY <1>2, <1>3, <1>5, <2>1, ReplacedSame
<1> HIDE DEF X
<1>8. /\ app.active \in {None} \cup DOMAIN X /\ app.selected \in DOMAIN X
      /\ fresh => app.active # None
  <2>1. DOMAIN <<>> = {}
    OBVIOUS
  <2> QED
    BY <1>2, <1>7, <2>1, Focused
<1>9. AliasesLess(al, al, gone)
  BY DEF AliasesLess
<1>10. Becomes(Closed(c, X, app.active, app.selected, al))
  BY <1>1, <1>6
<1> QED
  BY <1>1, <1>3, <1>4, <1>7, <1>8, <1>9, <1>10, CloseKeeps

\* Closing a workspace removes it with all its panes.
LEMMA CloseWorkspaceIs ==
  ASSUME NEW a, IsApp(a), WorkspacesSound(a.workspaces), NEW w \in DOMAIN a.workspaces,
         None \notin AllPanes(a.workspaces)
  PROVE  \E gone \in SUBSET AllPanes(a.workspaces) : \E c, X, v, s :
           /\ close_workspace(a, w) = Closed(c, X, v, s, a.public_pane_id_aliases)
           /\ Cleaned(a, c, gone) /\ Same(a.workspaces, X, gone)
           /\ v \in {None} \cup DOMAIN X /\ (v = None => X = <<>>)
           /\ s \in {1} \cup DOMAIN X /\ PanesOf(a.workspaces[w]) \subseteq gone
<1> DEFINE W == a.workspaces
           at == close_indices(a, w)
           gone == UNION {PanesOf(W[v]) : v \in at}
           c == remove_mail(remove_pane_records(a, gone), gone)
           X == Kept(W, at)[Len(W)]
           s == IF X = <<>> THEN 1 ELSE Smaller(w, Len(X))
           v == IF X = <<>> THEN None ELSE s
           al == a.public_pane_id_aliases
<1>1. at \in SUBSET DOMAIN W /\ w \in at
  BY DEF close_indices, Indices
<1>2. close_workspace(a, w) = [c EXCEPT !.workspaces = X, !.selected = s, !.active = v]
  BY DEF close_workspace
<1> HIDE DEF at
<1>3. gone \in SUBSET AllPanes(W) /\ PanesOf(W[w]) \subseteq gone
  BY <1>1 DEF AllPanes
<1>4. Same(W, X, gone)
  <2>1. WorkspacesSound(W)
    OBVIOUS
  <2> HIDE DEF W
  <2> QED
    BY <1>1, <2>1, KeptSame
<1>5. Cleaned(a, c, gone)
  <2>1. None \notin gone
    BY <1>3
  <2> HIDE DEF gone
  <2> QED
    BY <2>1, CleanedIs
<1>6. close_workspace(a, w) = Closed(c, X, v, s, al)
  <2>1. IsApp(c) /\ c.public_pane_id_aliases = al
    BY <1>5 DEF Cleaned
  <2> HIDE DEF c, X, v, s, al
  <2> QED
    BY <1>2, <2>1 DEF Closed, Shown, IsApp
<1>7. w \in Nat \ {0}
  <2>1. DOMAIN W = 1..Len(W) /\ Len(W) \in Nat
    BY LenProperties DEF WorkspacesSound
  <2> QED
    BY <2>1
<1>8. (X = <<>> => s = 1 /\ v = None) /\ (X # <<>> => s \in DOMAIN X /\ v = s /\ v # None)
  <2> HIDE DEF X
  <2>1. DOMAIN X = 1..Len(X) /\ Len(X) \in Nat /\ (X # <<>> => Len(X) # 0)
    BY <1>4, LenProperties, EmptySeq DEF Same, WorkspacesSound
  <2> QED
    BY <1>7, <2>1 DEF Smaller, None
<1>9. /\ v \in {None} \cup DOMAIN X /\ (v = None => X = <<>>)
      /\ s \in {1} \cup DOMAIN X
  <2> HIDE DEF X, s, v
  <2> QED
    BY <1>8
<1> HIDE DEF c, X, v, s, gone, al
<1>10. Closed(c, X, v, s, al) = Closed(c, X, v, s, a.public_pane_id_aliases)
  BY DEF al
<1> QED
  BY <1>3, <1>4, <1>5, <1>6, <1>9, <1>10

\* Closing a workspace, with the group of a main worktree, keeps the
\* invariant.
LEMMA CloseWorkspaceKeeps ==
  ASSUME NEW fresh \in BOOLEAN, IInv(fresh), NEW w \in DOMAIN app.workspaces, CloseWorkspace(w)
  PROVE  Keeps(fresh)
<1>1. /\ Becomes(close_workspace(app, w))
      /\ UNCHANGED <<next_workspace_id, next_pane_id, told>>
  BY DEF CloseWorkspace
<1>2. IsApp(app) /\ WorkspacesSound(app.workspaces)
  BY DEF IInv, Sound
<1>3. PICK gone \in SUBSET AllPanes(app.workspaces) : \E c, X, v, s :
        /\ close_workspace(app, w) = Closed(c, X, v, s, app.public_pane_id_aliases)
        /\ Cleaned(app, c, gone) /\ Same(app.workspaces, X, gone)
        /\ v \in {None} \cup DOMAIN X /\ (v = None => X = <<>>)
        /\ s \in {1} \cup DOMAIN X /\ PanesOf(app.workspaces[w]) \subseteq gone
  BY <1>2, NoneIsNoPane, CloseWorkspaceIs
<1>4. PICK c, X, v, s :
        /\ close_workspace(app, w) = Closed(c, X, v, s, app.public_pane_id_aliases)
        /\ Cleaned(app, c, gone) /\ Same(app.workspaces, X, gone)
        /\ v \in {None} \cup DOMAIN X /\ (v = None => X = <<>>)
        /\ s \in {1} \cup DOMAIN X
  BY <1>3
<1>5. AliasesLess(app.public_pane_id_aliases, app.public_pane_id_aliases, gone)
  BY DEF AliasesLess
<1>6. Becomes(Closed(c, X, v, s, app.public_pane_id_aliases))
  BY <1>1, <1>4
<1> QED
  BY <1>1, <1>4, <1>5, <1>6, CloseKeeps

\* Left panes in one workspace: what closing a pane and its death share.
LEMMA ClosePaneSound ==
  ASSUME NEW W, WorkspacesSound(W), NEW w \in DOMAIN W, NEW p \in PanesOf(W[w]),
         ~LastPane(W[w], p)
  PROVE  LET X == Replaced(W, w, close_pane(W[w], p))
         IN  Same(W, X, {p}) /\ DOMAIN X = DOMAIN W
<1> DEFINE x == close_pane(W[w], p)
           gone == {p}
<1>1. Left(W[w], x, gone)
  BY ClosePaneLeft DEF WorkspacesSound
<1>2. gone \in SUBSET PanesOf(W[w])
  OBVIOUS
<1> HIDE DEF x, gone
<1>3. Same(W, Replaced(W, w, x), gone) /\ DOMAIN Replaced(W, w, x) = DOMAIN W
  BY <1>1, <1>2, ReplacedSame
<1> QED
  BY <1>3 DEF x, gone

\* The records of one pane go.
LEMMA OneCleaned ==
  ASSUME NEW fresh \in BOOLEAN, IInv(fresh), NEW p \in AllPanes(app.workspaces)
  PROVE  Cleaned(app, remove_mail(remove_pane_records(app, {p}), {p}), {p})
<1> DEFINE gone == {p}
<1>1. None \notin gone
  BY NoneIsNoPane
<1>2. IsApp(app)
  BY DEF IInv, Sound
<1> HIDE DEF gone
<1>3. Cleaned(app, remove_mail(remove_pane_records(app, gone), gone), gone)
  BY <1>1, <1>2, CleanedIs
<1> QED
  BY <1>3 DEF gone

\* pane.close keeps the invariant, confirmed or not.
LEMMA ClosePaneKeeps ==
  ASSUME NEW fresh \in BOOLEAN, IInv(fresh), NEW p \in AllPanes(app.workspaces),
         NEW confirm \in BOOLEAN,
         ClosePane(p, confirm)
  PROVE  Keeps(fresh)
<1> DEFINE n == next_workspace_id
           W == app.workspaces
           w == WorkspaceOf(app, p)
           gone == {p}
           c == remove_mail(remove_pane_records(app, gone), gone)
           al == app.public_pane_id_aliases
<1>1. /\ Becomes(IF confirm THEN [app EXCEPT !.selected = w]
                 ELSE IF LastPane(W[w], p) THEN close_workspace(c, w)
                 ELSE [c EXCEPT !.workspaces[w] = close_pane(@, p)])
      /\ UNCHANGED <<next_workspace_id, next_pane_id, told>>
  BY DEF ClosePane
<1>2. w \in DOMAIN W /\ p \in PanesOf(W[w])
  BY WorkspaceOfIs
<1> HIDE DEF w
<1>3. Sound(app, n) /\ Settled(fresh, app) /\ WorkspacesSound(W) /\ IsApp(app)
  BY DEF IInv, Sound
<1>4. Cleaned(app, c, gone)
  BY OneCleaned
<1>5. gone \in SUBSET AllPanes(W) /\ None \notin gone
  BY NoneIsNoPane
<1>6. CASE confirm
  <2> DEFINE b == [app EXCEPT !.selected = w]
  <2>1. Becomes(b)
    BY <1>1, <1>6
  <2>2. /\ IsApp(b) /\ b.workspaces = W /\ b.active = app.active /\ b.selected = w
        /\ b.previous_pane_focus = app.previous_pane_focus
        /\ b.public_pane_id_aliases = al /\ b.mail = app.mail
    BY ONLY <1>3 DEF IsApp
  <2> HIDE DEF b
  <2>3. Sound(b, n) /\ Settled(fresh, b)
    BY <1>2, <1>3, <2>2 DEF Sound, Settled
  <2>4. Same(W, b.workspaces, {})
    BY <1>3, <2>2, SameItself
  <2> QED
    BY <1>1, <2>1, <2>2, <2>3, <2>4, RefocusKeeps DEF Refocused
<1>7. CASE ~confirm /\ LastPane(W[w], p)
  <2>1. Becomes(close_workspace(c, w))
    BY <1>1, <1>7
  <2>2. IsApp(c) /\ c.workspaces = W /\ c.public_pane_id_aliases = al
    BY <1>4 DEF Cleaned
  <2> HIDE DEF c, gone
  <2>3. PICK more \in SUBSET AllPanes(W) : \E d, X, v, s :
          /\ close_workspace(c, w) = Closed(d, X, v, s, al)
          /\ Cleaned(c, d, more) /\ Same(W, X, more)
          /\ v \in {None} \cup DOMAIN X /\ (v = None => X = <<>>)
          /\ s \in {1} \cup DOMAIN X /\ PanesOf(W[w]) \subseteq more
    <3>1. IsApp(c) /\ WorkspacesSound(c.workspaces) /\ w \in DOMAIN c.workspaces
          /\ None \notin AllPanes(c.workspaces)
      BY <1>2, <1>3, <2>2, NoneIsNoPane
    <3> HIDE DEF w, W, al
    <3> QED
      BY ONLY <3>1, <2>2, CloseWorkspaceIs
  <2>4. PICK d, X, v, s :
          /\ close_workspace(c, w) = Closed(d, X, v, s, al)
          /\ Cleaned(c, d, more) /\ Same(W, X, more)
          /\ v \in {None} \cup DOMAIN X /\ (v = None => X = <<>>)
          /\ s \in {1} \cup DOMAIN X /\ PanesOf(W[w]) \subseteq more
    BY <2>3
  <2>5. gone \cup more = more
    BY <1>2, <2>4 DEF gone
  <2>6. Cleaned(app, d, gone \cup more)
    BY <1>4, <1>5, <2>4, CleanedTwice
  <2>7. Cleaned(app, d, more)
    BY <2>5, <2>6
  <2>8. AliasesLess(al, al, more)
    BY DEF AliasesLess
  <2>9. Becomes(Closed(d, X, v, s, al))
    BY <2>1, <2>4
  <2> QED
    BY <1>1, <2>4, <2>7, <2>8, <2>9, CloseKeeps
<1>8. CASE ~confirm /\ ~LastPane(W[w], p)
  <2> DEFINE X == Replaced(W, w, close_pane(W[w], p))
  <2>1. Becomes([c EXCEPT !.workspaces[w] = close_pane(@, p)])
    BY <1>1, <1>8
  <2> HIDE DEF c
  <2>2. [c EXCEPT !.workspaces[w] = close_pane(@, p)] = Closed(c, X, app.active, app.selected, al)
    BY <1>4 DEF Cleaned, Closed, Shown, IsApp, Replaced
  <2>3. Same(W, X, gone) /\ DOMAIN X = DOMAIN W
    <3> HIDE DEF W
    <3> QED
      BY <1>2, <1>3, <1>8, ClosePaneSound
  <2> HIDE DEF X
  <2>4. /\ app.active \in {None} \cup DOMAIN X /\ app.selected \in DOMAIN X
        /\ fresh => app.active # None
    <3>1. DOMAIN <<>> = {}
      OBVIOUS
    <3> QED
      BY <1>2, <1>3, <2>3, <3>1, Focused
  <2>5. AliasesLess(al, al, gone)
    BY DEF AliasesLess
  <2>6. Becomes(Closed(c, X, app.active, app.selected, al))
    BY <2>1, <2>2
  <2> HIDE DEF gone
  <2> QED
    BY <1>1, <1>4, <1>5, <2>3, <2>4, <2>5, <2>6, CloseKeeps
<1> QED
  BY <1>6, <1>7, <1>8

\* What is an index still is one when an element has gone.
LEMMA StillIndex ==
  ASSUME NEW n \in Nat, NEW i \in 1..n, n # 1
  PROVE  Smaller(i, n - 1) \in 1..(n - 1)
BY DEF Smaller

\* A pane whose process ended keeps the invariant.
LEMMA PaneDiedKeeps ==
  ASSUME NEW fresh \in BOOLEAN, IInv(fresh), NEW p \in AllPanes(app.workspaces), PaneDied(p)
  PROVE  Keeps(fresh)
<1> DEFINE n == next_workspace_id
           W == app.workspaces
           w == WorkspaceOf(app, p)
           gone == {p}
           c == remove_mail(remove_pane_records(app, gone), gone)
           al == app.public_pane_id_aliases
           less == [id \in {id \in DOMAIN al : al[id] # p} |-> al[id]]
           u == [c EXCEPT !.public_pane_id_aliases = less]
           left == Len(W) - 1
           b1 == [u EXCEPT !.workspaces[w] = close_pane(@, p)]
           b2 == [u EXCEPT !.workspaces = RemoveAt(@, w),
                           !.active = IF left = 0 THEN None ELSE Smaller(@, left),
                           !.selected = IF left = 0 THEN 1 ELSE Smaller(@, left)]
<1>1. Cleaned(app, c, gone)
  BY OneCleaned
<1>2. /\ Becomes(IF ~LastPane(W[w], p) THEN b1 ELSE b2)
      /\ UNCHANGED <<next_workspace_id, next_pane_id, told>>
  <2> DEFINE ual == [c EXCEPT !.public_pane_id_aliases =
                       [id \in {id \in DOMAIN al : al[id] # p} |-> @[id]]]
  <2>1. /\ Becomes(IF ~LastPane(W[w], p)
                   THEN [ual EXCEPT !.workspaces[w] = close_pane(@, p)]
                   ELSE [ual EXCEPT !.workspaces = RemoveAt(@, w),
                           !.active = IF left = 0 THEN None ELSE Smaller(@, left),
                           !.selected = IF left = 0 THEN 1 ELSE Smaller(@, left)])
        /\ UNCHANGED <<next_workspace_id, next_pane_id, told>>
    BY DEF PaneDied
  <2>2. ual = u
    BY <1>1 DEF Cleaned
  <2> HIDE DEF ual, u
  <2> QED
    BY <2>1, <2>2
<1>3. w \in DOMAIN W /\ p \in PanesOf(W[w])
  BY WorkspaceOfIs
<1> HIDE DEF w
<1>4. Sound(app, n) /\ Settled(fresh, app) /\ WorkspacesSound(W)
  BY DEF IInv, Sound
<1>5. gone \in SUBSET AllPanes(W)
  OBVIOUS
<1>6. AliasesLess(al, less, gone)
  BY DEF AliasesLess
<1> HIDE DEF less
<1>7. u = Closed(c, W, app.active, app.selected, less)
  <2> HIDE DEF c
  <2> QED
    BY <1>1 DEF Cleaned, Closed, Shown, IsApp
<1>8. IsApp(u) /\ u.workspaces = W /\ u.active = app.active /\ u.selected = app.selected
  <2>1. IsApp(c)
    BY <1>1 DEF Cleaned
  <2>2. /\ IsApp(Closed(c, W, app.active, app.selected, less))
        /\ Closed(c, W, app.active, app.selected, less).workspaces = W
        /\ Closed(c, W, app.active, app.selected, less).active = app.active
        /\ Closed(c, W, app.active, app.selected, less).selected = app.selected
    <3> HIDE DEF c, W
    <3> QED
      BY <2>1, ClosedIs
  <2> HIDE DEF c, u
  <2> QED
    BY <1>7, <2>2
<1> HIDE DEF c
<1>9. CASE ~LastPane(W[w], p)
  <2> DEFINE X == Replaced(W, w, close_pane(W[w], p))
  <2>1. b1 = Closed(c, X, app.active, app.selected, less)
    <3> HIDE DEF W
    <3> QED
      BY ONLY <1>7, <1>8 DEF Closed, Shown, Replaced
  <2>2. Same(W, X, gone) /\ DOMAIN X = DOMAIN W
    <3> HIDE DEF W
    <3> QED
      BY <1>3, <1>4, <1>9, ClosePaneSound
  <2> HIDE DEF X, b1
  <2>3. /\ app.active \in {None} \cup DOMAIN X /\ app.selected \in DOMAIN X
        /\ fresh => app.active # None
    <3>1. DOMAIN <<>> = {}
      OBVIOUS
    <3> QED
      BY <1>3, <1>4, <2>2, <3>1, Focused
  <2>4. Becomes(Closed(c, X, app.active, app.selected, less))
    BY <1>2, <1>9, <2>1
  <2> HIDE DEF gone
  <2> QED
    BY <1>1, <1>2, <1>5, <1>6, <2>2, <2>3, <2>4, CloseKeeps
<1>10. CASE LastPane(W[w], p)
  <2> DEFINE X == RemoveAt(W, w)
             v == IF left = 0 THEN None ELSE Smaller(app.active, left)
             s == IF left = 0 THEN 1 ELSE Smaller(app.selected, left)
  <2>1. b2 = Closed(c, X, v, s, less)
    <3>1. b2 = [u EXCEPT !.workspaces = X, !.active = v, !.selected = s]
      <4> HIDE DEF W, u, left
      <4> QED
        BY ONLY <1>8 DEF b2, X, v, s
    <3> HIDE DEF X, v, s
    <3> QED
      BY ONLY <1>7, <3>1 DEF Closed, Shown
  <2>2. Same(W, X, gone) /\ Len(X) = left
    <3>1. PanesOf(W[w]) = gone
      BY <1>10 DEF LastPane
    <3> HIDE DEF W
    <3> QED
      BY <1>3, <1>4, <3>1, RemovedSame
  <2>3. /\ app.active \in {None} \cup 1..Len(W) /\ app.selected \in 1..Len(W)
        /\ Len(W) \in Nat /\ (fresh => app.active # None)
    BY <1>3, <1>4, Focused
  <2> HIDE DEF b2, X
  <2>4. DOMAIN X = 1..left /\ left \in Nat /\ (X = <<>> <=> left = 0)
    BY <2>2, LenProperties, EmptySeq DEF Same, WorkspacesSound
  <2>5. v \in {None} \cup DOMAIN X /\ s \in {1} \cup DOMAIN X /\ (v = None => X = <<>> \/ ~fresh)
    <3>1. left # 0 => /\ Smaller(app.selected, left) \in 1..left
                      /\ app.active # None => Smaller(app.active, left) \in 1..left
      <4>1. \A k, i \in Nat : i \in 1..k /\ k - 1 # 0 => Smaller(i, k - 1) \in 1..(k - 1)
        BY StillIndex
      <4>2. app.selected \in Nat /\ (app.active # None => app.active \in Nat)
        BY <2>3
      <4> QED
        BY <2>3, <4>1, <4>2
    <3>2. Smaller(None, left) = None
      BY <2>4 DEF Smaller, None
    <3> HIDE DEF left
    <3> QED
      BY <2>3, <2>4, <3>1, <3>2 DEF None
  <2>6. Becomes(Closed(c, X, v, s, less))
    BY <1>2, <1>10, <2>1
  <2> HIDE DEF gone, v, s
  <2> QED
    BY <1>1, <1>2, <1>5, <1>6, <2>2, <2>5, <2>6, CloseKeeps
<1> QED
  BY <1>9, <1>10

-----------------------------------------------------------------------------
(* Reordering.                                                             *)

\* A new order of the workspaces, with the focus moved along, is sound.
LEMMA ShownSound ==
  ASSUME NEW fresh \in BOOLEAN, NEW n, NEW a, Sound(a, n), NEW X, Same(a.workspaces, X, {}),
         NEW active \in {None} \cup DOMAIN X, NEW selected \in {1} \cup DOMAIN X,
         fresh /\ active = None => X = <<>>
  PROVE  Refocused(fresh, a, Shown(a, X, active, selected), n)
<1> DEFINE b == Shown(a, X, active, selected)
<1>1. /\ IsApp(b) /\ b.workspaces = X /\ b.active = active /\ b.selected = selected
      /\ b.previous_pane_focus = a.previous_pane_focus /\ b.mail = a.mail
      /\ b.public_pane_id_aliases = a.public_pane_id_aliases
  BY ShownIs DEF Sound
<1> HIDE DEF b
<1>2. Targets(X, n) = Targets(a.workspaces, n)
  BY SameTargets
<1>3. \A x \in DOMAIN X : X[x].id \in 1..(n - 1)
  BY SameIds DEF Sound
<1>4. WorkspacesSound(X)
  BY DEF Same
<1>5. Sound(b, n) /\ Settled(fresh, b)
  BY <1>1, <1>2, <1>3, <1>4 DEF Sound, Settled
<1>6. Refocused(fresh, a, b, n)
  BY <1>1, <1>5 DEF Refocused
<1> QED
  BY <1>6 DEF b

\* tab.move keeps the invariant.
LEMMA MoveTabKeeps ==
  ASSUME NEW fresh \in BOOLEAN, IInv(fresh), NEW w \in DOMAIN app.workspaces,
         NEW t \in DOMAIN app.workspaces[w].tabs,
         NEW insert \in 1..(Len(app.workspaces[w].tabs) + 1), MoveTab(w, t, insert)
  PROVE  Keeps(fresh)
<1> DEFINE n == next_workspace_id
           W == app.workspaces
           x == move_tab(W[w], t, insert)
           X == Replaced(W, w, x)
           a == Shown(app, X, app.active, app.selected)
<1>1. /\ insert \notin {t, t + 1} /\ Becomes([app EXCEPT !.workspaces = X])
      /\ UNCHANGED <<next_workspace_id, next_pane_id, told>>
  BY DEF MoveTab, Replaced
<1>2. Sound(app, n) /\ Settled(fresh, app) /\ WorkspacesSound(W) /\ Good(W[w])
  BY DEF IInv, Sound, WorkspacesSound
<1>3. Left(W[w], x, {})
  BY <1>1, <1>2, MoveTabLeft
<1> HIDE DEF x
<1>4. Same(W, X, {}) /\ DOMAIN X = DOMAIN W
  <2>1. {} \in SUBSET PanesOf(W[w]) /\ w \in DOMAIN W
    OBVIOUS
  <2> HIDE DEF W
  <2> QED
    BY <1>2, <1>3, <2>1, ReplacedSame
<1> HIDE DEF X
<1>5. [app EXCEPT !.workspaces = X] = a
  BY <1>2 DEF Sound, IsApp, Shown
<1>6. /\ app.active \in {None} \cup DOMAIN X /\ app.selected \in DOMAIN X
      /\ fresh => app.active # None
  BY <1>2, <1>4, Focused
<1>7. Refocused(fresh, app, a, n)
  <2> HIDE DEF a
  <2> QED
    BY <1>2, <1>4, <1>6, ShownSound DEF a
<1> QED
  BY <1>1, <1>5, <1>7, RefocusKeeps

\* workspace.move keeps the invariant.
LEMMA MoveWorkspaceKeeps ==
  ASSUME NEW fresh \in BOOLEAN, IInv(fresh), NEW w \in DOMAIN app.workspaces,
         NEW insert \in 1..(Len(app.workspaces) + 1), MoveWorkspace(w, insert)
  PROVE  Keeps(fresh)
<1> DEFINE n == next_workspace_id
           W == app.workspaces
           target == IF w < insert THEN insert - 1 ELSE insert
           X == InsertAt(RemoveAt(W, w), target, W[w])
           after(index) == IndexOfWorkspace([workspaces |-> X], W[index].id)
           v == IF app.active = None THEN None ELSE after(app.active)
           s == after(app.selected)
           a == Shown(app, X, v, s)
<1>1. /\ insert \notin {w, w + 1}
      /\ Becomes([app EXCEPT !.workspaces = X,
                             !.active = IF @ = None THEN None ELSE after(@),
                             !.selected = after(@)])
      /\ UNCHANGED <<next_workspace_id, next_pane_id, told>>
  BY DEF MoveWorkspace
<1>2. Sound(app, n) /\ Settled(fresh, app) /\ WorkspacesSound(W)
  BY DEF IInv, Sound
<1>3. /\ app.active \in {None} \cup DOMAIN W /\ app.selected \in DOMAIN W
      /\ DOMAIN W = 1..Len(W) /\ Len(W) \in Nat /\ (fresh => app.active # None)
  BY <1>2, Focused
<1>4. target \in DOMAIN W
  BY <1>1, <1>3
<1> HIDE DEF target
<1>5. Same(W, X, {}) /\ \A i \in DOMAIN W : \E x \in DOMAIN X : X[x] = W[i]
  <2>1. w \in DOMAIN W
    OBVIOUS
  <2> HIDE DEF W
  <2> QED
    BY <1>2, <1>4, <2>1, MovedSame
<1> HIDE DEF X
<1>6. \A i \in DOMAIN W : after(i) \in DOMAIN X
  BY <1>5 DEF IndexOfWorkspace, Indices
<1>7. v \in {None} \cup DOMAIN X /\ s \in DOMAIN X
  BY <1>3, <1>6
<1>8. [app EXCEPT !.workspaces = X,
                  !.active = IF @ = None THEN None ELSE after(@),
                  !.selected = after(@)] = a
  <2> HIDE DEF after
  <2> QED
    BY <1>2, <1>3 DEF Sound, IsApp, Shown
<1>9. fresh => v # None
  <2>1. DOMAIN X = 1..Len(X) /\ Len(X) \in Nat
    BY <1>5, LenProperties DEF Same, WorkspacesSound
  <2> HIDE DEF after
  <2> QED
    BY <1>3, <1>6, <2>1 DEF None
<1> HIDE DEF after, v, s
<1>10. Refocused(fresh, app, a, n)
  <2> HIDE DEF a
  <2> QED
    BY <1>2, <1>5, <1>7, <1>9, ShownSound DEF a
<1> QED
  BY <1>1, <1>8, <1>10, RefocusKeeps

-----------------------------------------------------------------------------
(* Mail.                                                                   *)

\* A message that arrives in a mailbox keeps the invariant: it is put under
\* the current name of the pane the id stands for.
LEMMA SendKeeps ==
  ASSUME NEW fresh \in BOOLEAN, IInv(fresh), NEW id \in DOMAIN owner, Send(id)
  PROVE  Keeps(fresh)
<1> DEFINE n == next_workspace_id
           W == app.workspaces
           p == pane_with_id(app, id)
           mail == Put(app.mail, id, Get(app.mail, id, p))
           a == [app EXCEPT !.mail = mail]
<1>1. /\ p # None /\ Becomes(a) /\ told' = told \cup {p}
      /\ UNCHANGED <<next_workspace_id, next_pane_id>>
  BY DEF Send, msg_target
<1>2. /\ Sound(app, n) /\ Settled(fresh, app) /\ WorkspacesSound(W)
      /\ MailSound(W, app.mail, told) /\ Counters
      /\ OwnerSound(W, n, next_pane_id, owner)
      /\ AliasesSound(W, owner, app.public_pane_id_aliases)
  BY DEF IInv, Sound
<1>3. p \in AllPanes(W) /\ id = Name(W, p)
  BY <1>1, <1>2, PaneWithId
<1> HIDE DEF p
<1>4. /\ IsApp(a) /\ a.workspaces = W /\ a.active = app.active /\ a.selected = app.selected
      /\ a.previous_pane_focus = app.previous_pane_focus /\ a.mail = mail
      /\ a.public_pane_id_aliases = app.public_pane_id_aliases
  BY <1>2 DEF Sound, IsApp
<1> HIDE DEF a
<1>5. Get(app.mail, id, p) = p
  <2>1. CASE id \in DOMAIN app.mail
    <3>1. PICK q \in told \cap AllPanes(W) : id = Name(W, q) /\ app.mail[id] = q
      BY <1>2, <2>1 DEF MailSound
    <3>2. q = p
      BY <1>2, <1>3, <3>1, NamesDiffer
    <3> QED
      BY <2>1, <3>1, <3>2 DEF Get
  <2>2. CASE id \notin DOMAIN app.mail
    BY <2>2 DEF Get
  <2> QED
    BY <2>1, <2>2
<1>6. /\ mail = [x \in DOMAIN mail |-> mail[x]] /\ DOMAIN mail = DOMAIN app.mail \cup {id}
      /\ mail[id] = p /\ \A x \in DOMAIN app.mail \ {id} : mail[x] = app.mail[x]
  BY <1>5 DEF Put
<1> HIDE DEF mail
<1>7. MailSound(W, mail, told \cup {p})
  <2>1. DOMAIN mail = {Name(W, q) : q \in (told \cup {p}) \cap AllPanes(W)}
    BY <1>2, <1>3, <1>6 DEF MailSound
  <2>2. ASSUME NEW q \in (told \cup {p}) \cap AllPanes(W)
        PROVE  mail[Name(W, q)] = q
    <3>1. CASE q = p
      BY <1>3, <1>6, <3>1
    <3>2. CASE q # p
      <4>1. Name(W, q) # id
        BY <1>2, <1>3, <3>2, NamesDiffer
      <4>2. Name(W, q) \in DOMAIN app.mail /\ app.mail[Name(W, q)] = q
        BY <1>2, <3>2 DEF MailSound
      <4> QED
        BY <1>6, <4>1, <4>2
    <3> QED
      BY <3>1, <3>2
  <2> QED
    BY <1>6, <2>1, <2>2 DEF MailSound
<1>8. Sound(a, n) /\ Settled(fresh, a)
  BY <1>2, <1>4 DEF Sound, Settled
<1>9. /\ told' \subseteq PaneIds(next_pane_id) /\ AllPanes(a.workspaces) \subseteq PaneIds(next_pane_id)
      /\ next_pane_id \in Nat \ {0} /\ n \in Nat \ {0}
  BY <1>1, <1>2, <1>3, <1>4 DEF Counters
<1>10. next_pane_id <= next_pane_id
  BY <1>9
<1>11. /\ \A x \in DOMAIN owner : Reserved(a.workspaces, n, x)
       /\ \A q \in AllPanes(a.workspaces) : owner[Name(a.workspaces, q)] = q
  BY <1>2, <1>4 DEF OwnerSound
<1> QED
  BY <1>1, <1>2, <1>4, <1>7, <1>8, <1>9, <1>10, <1>11, StepKeeps

-----------------------------------------------------------------------------
(* Moving a pane.                                                          *)

\* Out of its place: what was there before does not matter.
LEMMA RemovedReplaced ==
  ASSUME NEW S, NEW s \in Seq(S), NEW i \in 1..Len(s), NEW x \in S
  PROVE  RemoveAt(Replaced(s, i, x), i) = RemoveAt(s, i)
<1> DEFINE r == Replaced(s, i, x)
           a == RemoveAt(r, i)
           b == RemoveAt(s, i)
<1>1. r \in Seq(S) /\ Len(r) = Len(s) /\ \A k \in 1..Len(s) : k # i => r[k] = s[k]
  BY DEF Replaced
<1> HIDE DEF r
<1>2. Len(s) \in Nat /\ i \in 1..Len(r)
  BY <1>1
<1>3. /\ a \in Seq(S) /\ Len(a) = Len(s) - 1
      /\ \A k \in 1..(Len(s) - 1) : a[k] = IF k < i THEN r[k] ELSE r[k + 1]
  BY <1>1, <1>2, ElementRemoved
<1>4. /\ b \in Seq(S) /\ Len(b) = Len(s) - 1
      /\ \A k \in 1..(Len(s) - 1) : b[k] = IF k < i THEN s[k] ELSE s[k + 1]
  BY ElementRemoved
<1> HIDE DEF a, b
<1>5. ASSUME NEW k \in 1..(Len(s) - 1) PROVE a[k] = b[k]
  BY <1>1, <1>2, <1>3, <1>4
<1>6. a = b
  BY <1>3, <1>4, <1>5, SeqEqual
<1> QED
  BY <1>6 DEF a, b, r

\* The others stay when one workspace goes.
LEMMA RemovedLeaves ==
  ASSUME NEW W, WorkspacesSound(W), NEW i \in DOMAIN W, NEW w \in DOMAIN W, w # i
  PROVE  \E x \in DOMAIN RemoveAt(W, i) : RemoveAt(W, i)[x] = W[w]
<1> DEFINE R == RemoveAt(W, i)
           x == IF w < i THEN w ELSE w - 1
<1>1. W \in Seq(WorkspaceSet) /\ i \in 1..Len(W) /\ w \in 1..Len(W) /\ Len(W) \in Nat
  BY LenProperties DEF WorkspacesSound
<1>2. /\ R \in Seq(WorkspaceSet) /\ Len(R) = Len(W) - 1
      /\ \A k \in 1..(Len(W) - 1) : R[k] = IF k < i THEN W[k] ELSE W[k + 1]
  BY <1>1, ElementRemoved
<1>3. DOMAIN R = 1..Len(R)
  BY <1>2, LenProperties
<1> HIDE DEF R
<1>4. x \in 1..(Len(W) - 1) /\ (IF x < i THEN x = w ELSE x + 1 = w)
  BY <1>1
<1>5. R[x] = W[w]
  BY <1>2, <1>4
<1>6. x \in DOMAIN R
  BY <1>2, <1>3, <1>4
<1> QED
  BY <1>5, <1>6 DEF R

\* After a pane has left its workspace all the rest of the session is sound.
LEMMA AwaySound ==
  ASSUME NEW n, NEW a, Sound(a, n), NEW p \in AllPanes(a.workspaces),
         NEW gone, gone = {p}, NEW out, IsApp(out), Same(a.workspaces, out.workspaces, gone),
         out.active \in {None} \cup DOMAIN out.workspaces,
         out.selected \in {1} \cup DOMAIN out.workspaces,
         out.previous_pane_focus = a.previous_pane_focus
  PROVE  SoundBut(out, n, p)
<1> DEFINE X == out.workspaces
<1>1. \A x \in DOMAIN X : X[x].id \in 1..(n - 1)
  BY SameIds DEF Sound
<1>2. AllPanes(X) = AllPanes(a.workspaces) \ {p} /\ WorkspacesSound(X)
  BY DEF Same
<1>3. a.previous_pane_focus \in
        {NoTarget} \cup [workspace : 1..(n - 1), pane : AllPanes(X) \cup {p}]
  BY <1>2 DEF Sound, Targets
<1> QED
  BY <1>1, <1>2, <1>3 DEF SoundBut

\* Where the indices point when a workspace has gone.
LEMMA ShiftedIndex ==
  ASSUME NEW n \in Nat, NEW w \in 1..n, NEW i \in 1..n, n # 1
  PROVE  shifted(i, w, n - 1) \in 1..(n - 1)
BY DEF shifted, Smaller

\* The workspaces without p are still there.
OthersStay(W, X, p) ==
  \A i \in DOMAIN W : p \notin PanesOf(W[i]) => \E x \in DOMAIN X : X[x] = W[i]

\* The session that p has left.
Departed(fresh, a, out, n, p) ==
  /\ SoundBut(out, n, p) /\ Settled(fresh, out) /\ Same(a.workspaces, out.workspaces, {p})
  /\ out.public_pane_id_aliases = Put(a.public_pane_id_aliases, Name(a.workspaces, p), p)
  /\ out.mail = a.mail /\ OthersStay(a.workspaces, out.workspaces, p)

\* A pane leaves its workspace, which goes with its last pane; all others stay.
LEMMA LeaveSound ==
  ASSUME NEW fresh \in BOOLEAN, NEW n, NEW a, Sound(a, n), Settled(fresh, a),
         NEW p \in AllPanes(a.workspaces)
  PROVE  Departed(fresh, a, leave_workspace(a, p, TRUE), n, p)
<1> DEFINE W == a.workspaces
           w == WorkspaceOf(a, p)
           taken == take_pane_for_move(W[w], p)
           x == unregister_pane(taken, p)
           al == Put(a.public_pane_id_aliases, Name(W, p), p)
           gone == {p}
           left == Len(W) - 1
           X == Replaced(W, w, x)
           o1 == [a EXCEPT !.workspaces = X, !.public_pane_id_aliases = al]
           o2 == [o1 EXCEPT !.workspaces = RemoveAt(@, w),
                            !.active = IF left = 0 THEN None ELSE shifted(@, w, left),
                            !.selected = IF left = 0 THEN 1 ELSE shifted(@, w, left)]
           out == leave_workspace(a, p, TRUE)
<1>1. out = IF taken.tabs # <<>> THEN o1 ELSE o2
  BY Reading DEF leave_workspace, Replaced
<1>2. w \in DOMAIN W /\ p \in PanesOf(W[w])
  BY WorkspaceOfIs
<1> HIDE DEF w, out
<1>3. WorkspacesSound(W) /\ Good(W[w]) /\ Half(W[w]) /\ IsApp(a)
  BY <1>2 DEF Sound, WorkspacesSound, Good
<1>4. /\ Half(taken) /\ OnlyTabs(W[w], taken) /\ PanesOf(taken) = PanesOf(W[w]) \ {p}
  BY <1>2, <1>3, TakeSound
<1> HIDE DEF taken
<1>5. /\ a.active \in {None} \cup 1..Len(W) /\ a.selected \in 1..Len(W)
      /\ Len(W) \in Nat /\ DOMAIN W = 1..Len(W) /\ (fresh => a.active # None)
  BY <1>2, Focused
<1>6. gone \in SUBSET PanesOf(W[w])
  BY <1>2
<1>7. CASE taken.tabs # <<>>
  <2>1. Left(W[w], x, gone)
    BY <1>2, <1>3, <1>4, <1>7, UnregisteredLeft
  <2> HIDE DEF gone, x
  <2>2. /\ Same(W, X, gone) /\ DOMAIN X = DOMAIN W
        /\ \A v \in DOMAIN W \ {w} : X[v] = W[v]
    <3> HIDE DEF W
    <3> QED
      BY <1>2, <1>3, <1>6, <2>1, ReplacedSame
  <2> HIDE DEF X, al
  <2>3. out = Closed(a, X, a.active, a.selected, al)
    BY <1>1, <1>3, <1>7 DEF IsApp, Closed, Shown
  <2>4. a.active \in {None} \cup DOMAIN X /\ a.selected \in {1} \cup DOMAIN X
    BY <1>5, <2>2
  <2>5. Same(a.workspaces, X, {p})
    BY <2>2 DEF gone
  <2>6. /\ SoundBut(out, n, p) /\ Settled(fresh, out) /\ out.workspaces = X
        /\ out.public_pane_id_aliases = al /\ out.mail = a.mail
    <3>1. LET b == Closed(a, X, a.active, a.selected, al)
          IN  /\ IsApp(b) /\ b.workspaces = X /\ b.active = a.active /\ b.selected = a.selected
              /\ b.previous_pane_focus = a.previous_pane_focus /\ b.mail = a.mail
              /\ b.public_pane_id_aliases = al
      BY <1>3, ClosedIs
    <3>2. /\ IsApp(out) /\ out.workspaces = X /\ out.active = a.active /\ out.selected = a.selected
          /\ out.previous_pane_focus = a.previous_pane_focus /\ out.mail = a.mail
          /\ out.public_pane_id_aliases = al
      BY <2>3, <3>1
    <3>3. gone = {p}
      BY DEF gone
    <3>4. Same(a.workspaces, out.workspaces, gone)
      BY <2>4, <2>2, <3>2
    <3> HIDE DEF gone
    <3>5. SoundBut(out, n, p)
      BY <3>2, <3>3, <3>4, <2>4, <2>2, AwaySound
    <3>6. Settled(fresh, out)
      BY <1>5, <3>2, <2>4, <2>2 DEF Settled
    <3> QED
      BY <3>2, <3>5, <3>6
  <2>7. ASSUME NEW i \in DOMAIN W, p \notin PanesOf(W[i])
        PROVE  \E v \in DOMAIN X : X[v] = W[i]
    <3>1. i # w
      BY <1>2, <2>7
    <3> QED
      BY <2>2, <3>1
  <2> QED
    BY <2>5, <2>6, <2>7 DEF out, al, OthersStay, Departed
<1>8. CASE taken.tabs = <<>>
  <2> DEFINE Y == RemoveAt(W, w)
             v == IF left = 0 THEN None ELSE shifted(a.active, w, left)
             s == IF left = 0 THEN 1 ELSE shifted(a.selected, w, left)
  <2>1. RemoveAt(X, w) = Y
    <3>1. p \in Nat
      BY <1>2, <1>3, TabsHavePanes
    <3>2. x \in WorkspaceSet
      BY <1>4, <3>1, UnregisterSound DEF Half
    <3>3. W \in Seq(WorkspaceSet) /\ w \in 1..Len(W)
      BY <1>2, <1>3, <1>5 DEF WorkspacesSound
    <3> HIDE DEF W, x
    <3> QED
      BY <3>2, <3>3, RemovedReplaced
  <2>2. o1.workspaces = X /\ o1.active = a.active /\ o1.selected = a.selected
    <3> HIDE DEF X, al
    <3> QED
      BY <1>3 DEF IsApp
  <2>3. out = [o1 EXCEPT !.workspaces = Y, !.active = v, !.selected = s]
    <3>1. o2 = [o1 EXCEPT !.workspaces = RemoveAt(X, w), !.active = v, !.selected = s]
      <4> HIDE DEF o1, X, W, left
      <4> QED
        BY ONLY <2>2 DEF o2, v, s
    <3> HIDE DEF o1, o2, X, Y, v, s
    <3> QED
      BY <1>1, <1>8, <2>1, <3>1
  <2>4. out = Closed(a, Y, v, s, al)
    <3> HIDE DEF X, Y, v, s, al
    <3> QED
      BY <2>3 DEF Closed, Shown
  <2>5. PanesOf(W[w]) = gone
    <3>1. PanesOf(taken) = {}
      BY <1>4, <1>8, TabsHavePanes
    <3> QED
      BY <1>2, <1>4, <3>1
  <2>6. Same(W, Y, gone) /\ Len(Y) = left
    <3> HIDE DEF W
    <3> QED
      BY <1>2, <1>3, <2>5, RemovedSame
  <2>7. ASSUME NEW i \in DOMAIN W, p \notin PanesOf(W[i])
        PROVE  \E k \in DOMAIN Y : Y[k] = W[i]
    <3>1. i # w
      BY <1>2, <2>7
    <3> HIDE DEF W
    <3> QED
      BY <1>2, <1>3, <3>1, RemovedLeaves
  <2> HIDE DEF Y
  <2>8. DOMAIN Y = 1..left /\ left \in Nat /\ (Y = <<>> <=> left = 0)
    BY <2>6, LenProperties, EmptySeq DEF Same, WorkspacesSound
  <2>9. v \in {None} \cup DOMAIN Y /\ s \in {1} \cup DOMAIN Y /\ (v = None => Y = <<>> \/ ~fresh)
    <3>1. left # 0 => /\ shifted(a.selected, w, left) \in 1..left
                      /\ a.active # None => shifted(a.active, w, left) \in 1..left
      <4>1. \A k \in Nat : \A j, i \in 1..k : k - 1 # 0 => shifted(i, j, k - 1) \in 1..(k - 1)
        BY ShiftedIndex
      <4> QED
        BY <1>2, <1>5, <4>1
    <3>2. shifted(None, w, left) = None
      BY <1>2, <1>5 DEF shifted, None
    <3> HIDE DEF left
    <3> QED
      BY <1>5, <2>8, <3>1, <3>2 DEF None
  <2> HIDE DEF v, s, al
  <2>10. Same(a.workspaces, Y, {p})
    BY <2>6 DEF gone
  <2>11. /\ SoundBut(out, n, p) /\ Settled(fresh, out) /\ out.workspaces = Y
         /\ out.public_pane_id_aliases = al /\ out.mail = a.mail
    <3>1. LET b == Closed(a, Y, v, s, al)
          IN  /\ IsApp(b) /\ b.workspaces = Y /\ b.active = v /\ b.selected = s
              /\ b.previous_pane_focus = a.previous_pane_focus /\ b.mail = a.mail
              /\ b.public_pane_id_aliases = al
      BY <1>3, ClosedIs
    <3>2. /\ IsApp(out) /\ out.workspaces = Y /\ out.active = v /\ out.selected = s
          /\ out.previous_pane_focus = a.previous_pane_focus /\ out.mail = a.mail
          /\ out.public_pane_id_aliases = al
      BY <2>4, <3>1
    <3>3. gone = {p}
      BY DEF gone
    <3>4. Same(a.workspaces, out.workspaces, gone)
      BY <2>9, <2>6, <3>2
    <3> HIDE DEF gone
    <3>5. SoundBut(out, n, p)
      BY <3>2, <3>3, <3>4, <2>9, <2>6, AwaySound
    <3>6. Settled(fresh, out)
      BY <1>5, <3>2, <2>9, <2>6 DEF Settled
    <3> QED
      BY <3>2, <3>5, <3>6
  <2> QED
    BY <2>7, <2>10, <2>11 DEF out, al, OthersStay, Departed
<1> QED
  BY <1>7, <1>8

\* A workspace that is looked up by its id is found where it now is.
LEMMA FoundAgain ==
  ASSUME NEW a, NEW id, NEW v \in DOMAIN a.workspaces,
         \A i \in DOMAIN a.workspaces : a.workspaces[i].id = id <=> i = v
  PROVE  IndexOfWorkspace(a, id) = v
BY DEF IndexOfWorkspace, Indices

\* A tab that is looked up by its number is found where it now is.
LEMMA TabFoundAgain ==
  ASSUME NEW ws, Half(ws), NEW t \in DOMAIN ws.tabs, NEW number, ws.tabs[t].number = number
  PROVE  (CHOOSE i \in DOMAIN ws.tabs : ws.tabs[i].number = number) = t
<1>1. \A i \in DOMAIN ws.tabs : ws.tabs[i].number = number <=> i = t
  BY DEF Half, TabsSound
<1> QED
  BY <1>1

\* The end of a move.
LEMMA Arrived ==
  ASSUME NEW fresh \in BOOLEAN, NEW n \in Nat, Sound(app, n), NEW m \in Nat,
         n <= m, NEW b, Sound(b, m),
         AllPanes(app.workspaces) \subseteq AllPanes(b.workspaces),
         NEW w \in DOMAIN b.workspaces, NEW t \in DOMAIN b.workspaces[w].tabs,
         NEW p, NEW focus \in BOOLEAN, arrive(b, p, w, t, focus)
  PROVE  \E s : /\ Refocused(fresh, b, s, m)
                /\ Becomes(rekey_pane(s, Name(app.workspaces, p), Name(b.workspaces, p)))
<1> DEFINE previous == current_pane_focus_target(app)
           s == IF focus \/ b.active = None
                THEN focus_newcomer(b, previous, w, t, p) ELSE b
<1>1. Becomes(rekey_pane(s, Name(app.workspaces, p), Name(b.workspaces, p)))
  BY Reading DEF arrive
<1>2. previous \in Targets(b.workspaces, m)
  <2>1. previous \in Targets(app.workspaces, n)
    BY CurrentTarget
  <2>2. 1..(n - 1) \subseteq 1..(m - 1)
    OBVIOUS
  <2> HIDE DEF previous
  <2> QED
    BY <2>1, <2>2 DEF Targets
<1> HIDE DEF previous
<1>3. Refocused(fresh, b, focus_newcomer(b, previous, w, t, p), m)
  BY <1>2, NewcomerSound
<1>4. b.active # None => Refocused(fresh, b, b, m)
  <2>1. Same(b.workspaces, b.workspaces, {})
    BY SameItself DEF Sound
  <2> QED
    BY <2>1 DEF Refocused, Settled
<1>5. Refocused(fresh, b, s, m)
  BY <1>3, <1>4
<1> QED
  BY <1>1, <1>5

\* From elsewhere in the same workspace.
LEMMA ArrivesInSame ==
  ASSUME NEW fresh \in BOOLEAN, IInv(fresh), UNCHANGED <<next_workspace_id, next_pane_id, told>>,
         NEW p \in AllPanes(app.workspaces), NEW b, Refocused(fresh, app, b, next_workspace_id),
         NEW w \in DOMAIN b.workspaces, NEW t \in DOMAIN b.workspaces[w].tabs,
         NEW focus \in BOOLEAN, arrive(b, p, w, t, focus)
  PROVE  Keeps(fresh)
<1> DEFINE n == next_workspace_id
           W == app.workspaces
<1>1. Sound(app, n) /\ WorkspacesSound(W) /\ n \in Nat
  BY DEF IInv, Sound, Counters
<1>2. Sound(b, n) /\ Same(W, b.workspaces, {}) /\ AllPanes(b.workspaces) = AllPanes(W)
  BY SameTargets DEF Refocused
<1>3. PICK s : Refocused(fresh, b, s, n) /\ Becomes(rekey_pane(s, Name(W, p), Name(b.workspaces, p)))
  <2>1. n <= n /\ AllPanes(app.workspaces) \subseteq AllPanes(b.workspaces)
    BY <1>1, <1>2
  <2> HIDE DEF n
  <2> QED
    BY <1>1, <1>2, <2>1, Arrived
<1>4. Name(b.workspaces, p) = Name(W, p)
  BY <1>1, <1>2, SameNames
<1>5. Becomes(s)
  BY <1>3, <1>4 DEF rekey_pane
<1>6. Same(W, s.workspaces, {})
  <2> DEFINE none == {}
  <2>1. Same(W, b.workspaces, none) /\ Same(b.workspaces, s.workspaces, none)
    BY <1>2, <1>3 DEF Refocused
  <2>2. none \cup none = none
    OBVIOUS
  <2> HIDE DEF none
  <2>3. Same(W, s.workspaces, none \cup none)
    BY <2>1, SameThenSame
  <2> QED
    BY <2>2, <2>3 DEF none
<1>7. Refocused(fresh, app, s, n)
  BY <1>3, <1>6 DEF Refocused
<1> QED
  BY <1>5, <1>7, RefocusKeeps

\* From another workspace: the pane has a new name and its mail follows.
LEMMA ArrivesInOther ==
  ASSUME NEW fresh \in BOOLEAN, IInv(fresh), UNCHANGED <<next_pane_id, told>>,
         next_workspace_id' \in {next_workspace_id, next_workspace_id + 1},
         NEW p \in AllPanes(app.workspaces), NEW V, NEW gone, gone = {p},
         Same(app.workspaces, V, gone),
         NEW b, Sound(b, next_workspace_id'), Gains(V, b.workspaces, p, next_workspace_id),
         b.public_pane_id_aliases =
           Put(app.public_pane_id_aliases, Name(app.workspaces, p), p),
         b.mail = app.mail,
         NEW w \in DOMAIN b.workspaces, NEW t \in DOMAIN b.workspaces[w].tabs,
         NEW focus \in BOOLEAN, arrive(b, p, w, t, focus)
  PROVE  Keeps(fresh)
<1> DEFINE n == next_workspace_id
           m == next_workspace_id'
           W == app.workspaces
           X == b.workspaces
           old == Name(W, p)
           new == Name(X, p)
<1>1. /\ Sound(app, n) /\ WorkspacesSound(W) /\ n \in Nat \ {0} /\ WorkspacesSound(V)
      /\ WorkspacesSound(X) /\ \A i \in DOMAIN W : W[i].id \in 1..(n - 1)
  BY DEF IInv, Sound, Counters, Same
<1>2. m \in Nat /\ n <= m
  <2> DEFINE k == next_workspace_id'
  <2>1. k \in {n, n + 1}
    OBVIOUS
  <2> HIDE DEF k
  <2>2. k \in Nat /\ n <= k
    BY <1>1, <2>1
  <2> QED
    BY <2>2 DEF k
<1>3. /\ AllPanes(V) = AllPanes(W) \ {p} /\ AllPanes(X) = AllPanes(V) \cup {p}
      /\ AllPanes(W) \subseteq AllPanes(X) /\ p \in AllPanes(X)
  BY DEF Same, Gains
<1>4. PICK s : Refocused(fresh, b, s, m) /\ Becomes(rekey_pane(s, old, new))
  <2>1. n \in Nat /\ Sound(b, m)
    BY <1>1
  <2> HIDE DEF n, m
  <2> QED
    BY <1>1, <1>2, <1>3, <2>1, Arrived
<1>5. new # old
  <2>1. Reserved(W, n, old) /\ old.number \in Nat
    BY <1>1, NameReserved
  <2> HIDE DEF old
  <2>2. n <= n /\ n \in Nat
    BY <1>1
  <2>3. Reserved(V, n, old)
    BY <1>1, <2>1, <2>2, SameReserved
  <2>4. p \notin AllPanes(V)
    BY <1>3
  <2> HIDE DEF n
  <2>5. Gains(V, X, p, n)
    BY DEF n
  <2> QED
    BY <1>1, <2>1, <2>2, <2>3, <2>4, <2>5, GainsReserved
<1> HIDE DEF n, m
<1>6. Name(s.workspaces, p) = new
  BY <1>1, <1>3, <1>4, SameNames, SameTargets DEF Refocused
<1> HIDE DEF old, new
<1> DEFINE mail == MoveKey(Without(app.mail, new), old, new)
           a == [s EXCEPT !.mail = mail]
<1>7. /\ Sound(s, m) /\ Settled(fresh, s) /\ s.mail = app.mail
      /\ s.public_pane_id_aliases = Put(app.public_pane_id_aliases, old, p)
  BY <1>4 DEF Refocused, old
<1>8. Becomes(a)
  BY <1>4, <1>5, <1>7 DEF rekey_pane
<1> HIDE DEF mail
<1>9. /\ IsApp(a) /\ a.workspaces = s.workspaces /\ a.active = s.active
      /\ a.selected = s.selected /\ a.previous_pane_focus = s.previous_pane_focus
      /\ a.public_pane_id_aliases = s.public_pane_id_aliases /\ a.mail = mail
  <2>1. IsApp(s)
    BY <1>7 DEF Sound
  <2> QED
    BY ONLY <2>1 DEF IsApp, a
<1> HIDE DEF a
<1>10. Sound(a, m) /\ Settled(fresh, a)
  BY <1>7, <1>9 DEF Sound, Settled
<1>11. Gains(V, a.workspaces, p, n)
  <2>1. Gains(V, b.workspaces, p, n)
    BY DEF n
  <2> QED
    BY <1>4, <1>9, <2>1, GainsThenSame DEF Refocused
<1>12. Same(W, V, {p})
  OBVIOUS
<1>13. /\ Name(a.workspaces, p) = new
       /\ a.public_pane_id_aliases = Put(app.public_pane_id_aliases, Name(app.workspaces, p), p)
       /\ a.mail = MoveKey(Without(app.mail, Name(a.workspaces, p)),
                           Name(app.workspaces, p), Name(a.workspaces, p))
  BY <1>6, <1>7, <1>9 DEF mail, old
<1> QED
  BY <1>8, <1>10, <1>11, <1>12, <1>13, MovedKeeps DEF n, m

\* Out of its workspace for another one, or for another place in it.
LEMMA LeavesFor ==
  ASSUME NEW a, NEW p, NEW cross \in BOOLEAN
  PROVE  /\ cross => leave_workspace(a, p, cross) = leave_workspace(a, p, TRUE)
         /\ ~cross => LET w == WorkspaceOf(a, p)
                      IN  leave_workspace(a, p, cross) =
                            WithWorkspace(a, w, take_pane_for_move(a.workspaces[w], p))
BY DEF leave_workspace, WithWorkspace

\* The workspace to move to, found again.
LEMMA OtherFoundAgain ==
  ASSUME NEW fresh \in BOOLEAN, IInv(fresh), NEW p \in AllPanes(app.workspaces),
         NEW w \in DOMAIN app.workspaces,
         WorkspaceOf(app, p) # w
  PROVE  LET out == leave_workspace(app, p, TRUE)
             v == IndexOfWorkspace(out, app.workspaces[w].id)
         IN  v \in DOMAIN out.workspaces /\ out.workspaces[v] = app.workspaces[w]
<1> DEFINE out == leave_workspace(app, p, TRUE)
           W == app.workspaces
           X == out.workspaces
<1>1. Sound(app, next_workspace_id) /\ Settled(fresh, app) /\ WorkspacesSound(W)
  BY DEF IInv, Sound
<1>0. out = leave_workspace(app, p, TRUE)
  OBVIOUS
<1> HIDE DEF out
<1>2. Same(W, X, {p}) /\ \A i \in DOMAIN W : p \notin PanesOf(W[i]) =>
                             \E v \in DOMAIN X : X[v] = W[i]
  <2>1. Departed(fresh, app, out, next_workspace_id, p)
    BY <1>0, <1>1, LeaveSound
  <2> QED
    BY <2>1 DEF Departed, OthersStay
<1>3. p \notin PanesOf(W[w])
  <2>1. WorkspaceOf(app, p) \in DOMAIN W /\ p \in PanesOf(W[WorkspaceOf(app, p)])
    BY WorkspaceOfIs
  <2> QED
    BY <1>1, <2>1 DEF WorkspacesSound
<1>4. PICK v \in DOMAIN X : X[v] = W[w]
  BY <1>2, <1>3
<1>5. \A i \in DOMAIN X : X[i].id = W[w].id <=> i = v
  BY <1>2, <1>4 DEF Same, WorkspacesSound
<1>6. IndexOfWorkspace(out, W[w].id) = v
  BY <1>4, <1>5 DEF IndexOfWorkspace, Indices
<1> QED
  BY <1>4, <1>6 DEF out

\* A pane that has left its workspace and is placed in another keeps the
\* invariant: its old id becomes an alias and its mailbox moves to the new one.
LEMMA PlacedInOther ==
  ASSUME NEW fresh \in BOOLEAN, IInv(fresh), UNCHANGED <<next_workspace_id, next_pane_id, told>>,
         NEW p \in AllPanes(app.workspaces), NEW focus \in BOOLEAN,
         NEW out, out = leave_workspace(app, p, TRUE),
         NEW v \in DOMAIN out.workspaces, NEW x, Placed(out.workspaces[v], x, p),
         NEW t \in DOMAIN x.tabs, arrive(WithWorkspace(out, v, x), p, v, t, focus)
  PROVE  Keeps(fresh)
<1> DEFINE n == next_workspace_id
           W == app.workspaces
           gone == {p}
           b == WithWorkspace(out, v, x)
<1>1. Sound(app, n) /\ Settled(fresh, app)
  BY DEF IInv
<1>2. /\ SoundBut(out, n, p) /\ Same(W, out.workspaces, gone)
      /\ out.public_pane_id_aliases = Put(app.public_pane_id_aliases, Name(W, p), p)
      /\ out.mail = app.mail
  <2>1. Departed(fresh, app, leave_workspace(app, p, TRUE), n, p)
    BY <1>1, LeaveSound
  <2> QED
    BY <2>1 DEF Departed
<1>3. p \notin AllPanes(out.workspaces)
  BY <1>2 DEF Same
<1>4. gone = {p}
  OBVIOUS
<1> HIDE DEF gone
<1>5. /\ Sound(b, n) /\ Gains(out.workspaces, b.workspaces, p, n)
      /\ b.workspaces[v] = x /\ DOMAIN b.workspaces = DOMAIN out.workspaces
      /\ b.public_pane_id_aliases = out.public_pane_id_aliases /\ b.mail = out.mail
  <2>1. v \in DOMAIN out.workspaces /\ Placed(out.workspaces[v], x, p)
    OBVIOUS
  <2> HIDE DEF n
  <2> QED
    BY ONLY <1>2, <1>3, <2>1, PlaceSound
<1>6. arrive(b, p, v, t, focus)
  OBVIOUS
<1> HIDE DEF b
<1>7. v \in DOMAIN b.workspaces /\ t \in DOMAIN b.workspaces[v].tabs
  BY <1>5
<1>8. Sound(b, next_workspace_id')
  BY <1>5
<1>9. /\ b.public_pane_id_aliases =
           Put(app.public_pane_id_aliases, Name(app.workspaces, p), p)
      /\ b.mail = app.mail
  BY <1>2, <1>5
<1>10. UNCHANGED <<next_pane_id, told>> /\
       next_workspace_id' \in {next_workspace_id, next_workspace_id + 1}
  OBVIOUS
<1> QED
  BY <1>2, <1>4, <1>5, <1>6, <1>7, <1>8, <1>9, <1>10, ArrivesInOther

\* The workspace a pane moves in.
LEMMA SameFoundAgain ==
  ASSUME NEW fresh \in BOOLEAN, IInv(fresh), NEW w \in DOMAIN app.workspaces, NEW taken,
         taken.id = app.workspaces[w].id
  PROVE  LET out == WithWorkspace(app, w, taken)
         IN  /\ IndexOfWorkspace(out, app.workspaces[w].id) = w
             /\ out.workspaces = Replaced(app.workspaces, w, taken)
             /\ out.workspaces[w] = taken
<1> DEFINE W == app.workspaces
           out == WithWorkspace(app, w, taken)
<1>1. WorkspacesSound(W) /\ IsApp(app)
  BY DEF IInv, Sound
<1>2. out.workspaces = Replaced(W, w, taken)
  BY <1>1 DEF IsApp, WithWorkspace, Replaced
<1> HIDE DEF out
<1>3. /\ DOMAIN out.workspaces = DOMAIN W /\ out.workspaces[w] = taken
      /\ \A i \in DOMAIN W \ {w} : out.workspaces[i] = W[i]
  <2>1. W \in Seq(WorkspaceSet)
    BY <1>1 DEF WorkspacesSound
  <2> QED
    BY <1>2, <2>1 DEF Replaced
<1>4. \A i \in DOMAIN out.workspaces : out.workspaces[i].id = W[w].id <=> i = w
  BY <1>1, <1>3 DEF WorkspacesSound
<1>5. IndexOfWorkspace(out, W[w].id) = w
  BY <1>3, <1>4, FoundAgain
<1> QED
  BY <1>2, <1>3, <1>5 DEF out

\* A pane placed again in its own workspace keeps its id and the invariant.
LEMMA PlacedInSame ==
  ASSUME NEW fresh \in BOOLEAN, IInv(fresh), UNCHANGED <<next_workspace_id, next_pane_id, told>>,
         NEW p \in AllPanes(app.workspaces), NEW focus \in BOOLEAN,
         NEW w \in DOMAIN app.workspaces, p \in PanesOf(app.workspaces[w]),
         NEW taken, OnlyTabs(app.workspaces[w], taken),
         PanesOf(taken) = PanesOf(app.workspaces[w]) \ {p},
         NEW x, Placed(taken, x, p), NEW t \in DOMAIN x.tabs,
         arrive(WithWorkspace(WithWorkspace(app, w, taken), w, x), p, w, t, focus)
  PROVE  Keeps(fresh)
<1> DEFINE n == next_workspace_id
           W == app.workspaces
           X == Replaced(W, w, x)
           b == WithWorkspace(WithWorkspace(app, w, taken), w, x)
           none == {}
<1>1. Sound(app, n) /\ Settled(fresh, app) /\ WorkspacesSound(W) /\ Good(W[w]) /\ IsApp(app)
  BY DEF IInv, Sound, WorkspacesSound
<1>2. Left(W[w], x, none)
  BY <1>1, BackIsLeft
<1>3. none \in SUBSET PanesOf(W[w])
  OBVIOUS
<1> HIDE DEF none
<1>4. Same(W, X, none) /\ DOMAIN X = DOMAIN W /\ X[w] = x
  <2>1. w \in DOMAIN W
    OBVIOUS
  <2> HIDE DEF W
  <2> QED
    BY <1>1, <1>2, <1>3, <2>1, ReplacedSame
<1>5. b = Shown(app, X, app.active, app.selected)
  <2>1. W \in Seq(WorkspaceSet)
    BY <1>1 DEF WorkspacesSound
  <2>2. Replaced(Replaced(W, w, taken), w, x) = X
    BY <2>1 DEF Replaced
  <2> DEFINE T == Replaced(W, w, taken)
             a == WithWorkspace(app, w, taken)
  <2>3. a = [app EXCEPT !.workspaces = T]
    BY DEF WithWorkspace, Replaced
  <2>4. b = [a EXCEPT !.workspaces = Replaced(a.workspaces, w, x)]
    BY DEF WithWorkspace, Replaced
  <2> HIDE DEF a, b, T
  <2>5. a.workspaces = T
    BY <1>1, <2>3 DEF IsApp
  <2>6. b = [[app EXCEPT !.workspaces = T] EXCEPT !.workspaces = X]
    BY <2>2, <2>3, <2>4, <2>5 DEF T
  <2> HIDE DEF X
  <2> QED
    BY <1>1, <2>6 DEF IsApp, Shown
<1> HIDE DEF X
<1>6. /\ app.active \in {None} \cup DOMAIN X /\ app.selected \in DOMAIN X
      /\ fresh => app.active # None
  BY <1>1, <1>4, Focused
<1>7. Refocused(fresh, app, b, n) /\ b.workspaces = X
  <2> DEFINE s == Shown(app, X, app.active, app.selected)
  <2>1. Same(W, X, {})
    BY <1>4 DEF none
  <2>2. Refocused(fresh, app, s, n)
    <3> HIDE DEF s
    <3> QED
      BY <1>1, <1>4, <1>6, <2>1, ShownSound DEF s
  <2>3. s.workspaces = X
    BY <1>1, ShownIs
  <2> HIDE DEF b, s
  <2> QED
    BY <1>5, <2>2, <2>3 DEF s
<1>8. arrive(b, p, w, t, focus)
  OBVIOUS
<1> HIDE DEF b
<1>9. w \in DOMAIN b.workspaces /\ t \in DOMAIN b.workspaces[w].tabs
  BY <1>4, <1>7
<1> QED
  BY <1>7, <1>8, <1>9, ArrivesInSame

\* A tab that p is not in is there when p has left its own.
LEMMA TakenIs ==
  ASSUME NEW fresh \in BOOLEAN, IInv(fresh), NEW w \in DOMAIN app.workspaces,
         NEW p \in PanesOf(app.workspaces[w])
  PROVE  LET taken == take_pane_for_move(app.workspaces[w], p)
         IN  /\ Half(taken) /\ OnlyTabs(app.workspaces[w], taken)
             /\ PanesOf(taken) = PanesOf(app.workspaces[w]) \ {p}
             /\ taken.id = app.workspaces[w].id
             /\ p \in Nat \ PanesOf(taken)
             /\ DOMAIN taken.public_pane_numbers \ {p} = PanesOf(taken)
             /\ \A u \in DOMAIN app.workspaces[w].tabs :
                  p \notin ToSet(app.workspaces[w].tabs[u].panes) =>
                    \E v \in DOMAIN taken.tabs : taken.tabs[v] = app.workspaces[w].tabs[u]
<1> DEFINE ws == app.workspaces[w]
           taken == take_pane_for_move(ws, p)
<1>1. Good(ws) /\ Half(ws) /\ DOMAIN ws.public_pane_numbers = PanesOf(ws)
  BY DEF IInv, Sound, WorkspacesSound, Good
<1>2. p \in Nat
  BY <1>1, TabsHavePanes
<1>3. /\ Half(taken) /\ OnlyTabs(ws, taken) /\ PanesOf(taken) = PanesOf(ws) \ {p}
      /\ \A u \in DOMAIN ws.tabs : p \notin ToSet(ws.tabs[u].panes) =>
           \E v \in DOMAIN taken.tabs : taken.tabs[v] = ws.tabs[u]
  BY <1>1, TakeSound
<1> HIDE DEF taken
<1> QED
  BY <1>1, <1>2, <1>3 DEF OnlyTabs, taken

\* pane.move to a new tab keeps the invariant.
LEMMA MovePaneToNewTabKeeps ==
  ASSUME NEW fresh \in BOOLEAN, IInv(fresh), NEW p \in AllPanes(app.workspaces),
         NEW w \in DOMAIN app.workspaces,
         NEW focus \in BOOLEAN, MovePaneToNewTab(p, w, focus)
  PROVE  Keeps(fresh)
<1> DEFINE W == app.workspaces
           source == WorkspaceOf(app, p)
           cross == source # w
           out == leave_workspace(app, p, cross)
           v == IndexOfWorkspace(out, W[w].id)
           b == WithWorkspace(out, v, create_tab(out.workspaces[v], p))
<1>1. /\ arrive(b, p, v, Len(b.workspaces[v].tabs), focus)
      /\ UNCHANGED <<next_workspace_id, next_pane_id, told>>
  BY DEF MovePaneToNewTab, WithWorkspace
<1>2. source \in DOMAIN W /\ p \in PanesOf(W[source])
  BY WorkspaceOfIs
<1>3. CASE source # w
  <2>1. out = leave_workspace(app, p, TRUE)
    <3>1. cross /\ cross \in BOOLEAN
      BY <1>3
    <3> HIDE DEF cross
    <3> QED
      BY <3>1, LeavesFor
  <2>2. v \in DOMAIN out.workspaces /\ out.workspaces[v] = W[w]
    <3> HIDE DEF out
    <3> QED
      BY <1>3, <2>1, OtherFoundAgain
  <2> DEFINE x == create_tab(W[w], p)
  <2>3. Placed(W[w], x, p) /\ Len(x.tabs) \in DOMAIN x.tabs
    <3>1. WorkspacesSound(W) /\ Good(W[w]) /\ Half(W[w])
      BY DEF IInv, Sound, WorkspacesSound, Good
    <3>2. p \notin PanesOf(W[w])
      BY <1>2, <1>3, <3>1 DEF WorkspacesSound
    <3>3. p \in Nat
      BY <1>2, TabsHavePanes DEF IInv, Sound, WorkspacesSound, Good
    <3>4. DOMAIN W[w].public_pane_numbers \ {p} = PanesOf(W[w])
      BY <3>1, <3>2 DEF Good
    <3> HIDE DEF W
    <3> QED
      BY <3>1, <3>2, <3>3, <3>4, CreateTabPlaced
  <2>4. b = WithWorkspace(out, v, x)
    <3> HIDE DEF out, v
    <3> QED
      BY <2>2
  <2> HIDE DEF x
  <2>5. b.workspaces[v] = x
    <3>1. IsApp(out) /\ out.workspaces \in Seq(WorkspaceSet)
      <4>1. Sound(app, next_workspace_id) /\ Settled(fresh, app)
        BY DEF IInv
      <4>2. SoundBut(out, next_workspace_id, p)
        <5>1. Departed(fresh, app, leave_workspace(app, p, TRUE), next_workspace_id, p)
          BY <4>1, LeaveSound
        <5> HIDE DEF out
        <5> QED
          BY <2>1, <5>1 DEF Departed
      <4> HIDE DEF out
      <4> QED
        BY <4>2 DEF SoundBut, WorkspacesSound
    <3> HIDE DEF out, v, b
    <3> QED
      BY <2>2, <2>4, <3>1 DEF WithWorkspace, IsApp
  <2> DEFINE t == Len(x.tabs)
  <2>6. arrive(WithWorkspace(out, v, x), p, v, t, focus)
    <3> HIDE DEF b, out, v
    <3> QED
      BY <1>1, <2>4, <2>5
  <2>7. Placed(out.workspaces[v], x, p) /\ t \in DOMAIN x.tabs
    BY <2>2, <2>3
  <2> HIDE DEF out, v, t
  <2> QED
    BY <1>1, <2>1, <2>2, <2>6, <2>7, PlacedInOther
<1>4. CASE source = w
  <2> DEFINE taken == take_pane_for_move(W[w], p)
             a == WithWorkspace(app, w, taken)
             x == create_tab(taken, p)
             t == Len(x.tabs)
  <2>1. out = a
    <3>1. ~cross /\ cross \in BOOLEAN
      BY <1>4
    <3>2. WorkspaceOf(app, p) = w
      BY <1>4
    <3> HIDE DEF cross, W
    <3> QED
      BY <3>1, <3>2, LeavesFor DEF W
  <2>2. p \in PanesOf(W[w])
    BY <1>2, <1>4
  <2>3. /\ Half(taken) /\ OnlyTabs(W[w], taken) /\ PanesOf(taken) = PanesOf(W[w]) \ {p}
        /\ taken.id = W[w].id /\ p \in Nat \ PanesOf(taken)
        /\ DOMAIN taken.public_pane_numbers \ {p} = PanesOf(taken)
    BY <2>2, TakenIs
  <2> HIDE DEF taken
  <2>4. v = w /\ a.workspaces[w] = taken /\ a.workspaces = Replaced(W, w, taken)
    <3>1. /\ IndexOfWorkspace(a, W[w].id) = w /\ a.workspaces = Replaced(W, w, taken)
          /\ a.workspaces[w] = taken
      BY <2>3, SameFoundAgain
    <3> HIDE DEF out, a
    <3> QED
      BY <2>1, <3>1
  <2>5. Placed(taken, x, p) /\ t \in DOMAIN x.tabs
    BY <2>3, CreateTabPlaced
  <2>6. b = WithWorkspace(a, w, x)
    <3> HIDE DEF out, a, v
    <3> QED
      BY <2>1, <2>4
  <2>7. b.workspaces[w] = x
    <3>1. W \in Seq(WorkspaceSet) /\ IsApp(app)
      BY DEF IInv, Sound, WorkspacesSound
    <3>2. IsApp(a)
      <4> HIDE DEF taken, W
      <4> QED
        BY <3>1 DEF IsApp, WithWorkspace
    <3>3. w \in DOMAIN a.workspaces
      BY <2>4, <3>1 DEF Replaced
    <3> HIDE DEF a, b, x
    <3> QED
      BY <2>6, <3>2, <3>3 DEF WithWorkspace, IsApp
  <2> HIDE DEF x
  <2>8. arrive(WithWorkspace(a, w, x), p, w, t, focus)
    <3> HIDE DEF a, b, v
    <3> QED
      BY <1>1, <2>4, <2>6, <2>7
  <2>9. t \in DOMAIN x.tabs
    BY <2>5
  <2> HIDE DEF t
  <2> QED
    BY <1>1, <2>2, <2>3, <2>5, <2>8, <2>9, PlacedInSame DEF a
<1> QED
  BY <1>3, <1>4

\* pane.move into a tab keeps the invariant.
LEMMA MovePaneToTabKeeps ==
  ASSUME NEW fresh \in BOOLEAN, IInv(fresh), NEW p \in AllPanes(app.workspaces),
         NEW w \in DOMAIN app.workspaces,
         NEW t \in DOMAIN app.workspaces[w].tabs,
         NEW target \in ToSet(app.workspaces[w].tabs[t].panes),
         NEW focus \in BOOLEAN, MovePaneToTab(p, w, t, target, focus)
  PROVE  Keeps(fresh)
<1> DEFINE W == app.workspaces
           source == WorkspaceOf(app, p)
           cross == source # w
           number == W[w].tabs[t].number
           out == leave_workspace(app, p, cross)
           v == IndexOfWorkspace(out, W[w].id)
           Again(tabs) == CHOOSE i \in DOMAIN tabs : tabs[i].number = number
           u == Again(out.workspaces[v].tabs)
           b == WithWorkspace(out, v, split_pane(out.workspaces[v], u, target, p, focus))
<1>1. /\ arrive(b, p, v, u, focus) /\ p \notin ToSet(W[w].tabs[t].panes)
      /\ UNCHANGED <<next_workspace_id, next_pane_id, told>>
  BY DEF MovePaneToTab, WithWorkspace
<1>2. source \in DOMAIN W /\ p \in PanesOf(W[source])
  BY WorkspaceOfIs
<1>3. CASE source # w
  <2>1. out = leave_workspace(app, p, TRUE)
    <3>1. cross /\ cross \in BOOLEAN
      BY <1>3
    <3> HIDE DEF cross
    <3> QED
      BY <3>1, LeavesFor
  <2>2. v \in DOMAIN out.workspaces /\ out.workspaces[v] = W[w]
    <3> HIDE DEF out
    <3> QED
      BY <1>3, <2>1, OtherFoundAgain
  <2> DEFINE x == split_pane(W[w], t, target, p, focus)
  <2>3. WorkspacesSound(W) /\ Good(W[w]) /\ Half(W[w])
    BY DEF IInv, Sound, WorkspacesSound, Good
  <2>4. Placed(W[w], x, p) /\ t \in DOMAIN x.tabs
    <3>1. p \notin PanesOf(W[w])
      BY <1>2, <1>3, <2>3 DEF WorkspacesSound
    <3>2. p \in Nat
      BY <1>2, TabsHavePanes DEF IInv, Sound, WorkspacesSound, Good
    <3>3. DOMAIN W[w].public_pane_numbers \ {p} = PanesOf(W[w])
      BY <2>3, <3>1 DEF Good
    <3>4. t \in DOMAIN W[w].tabs /\ target \in ToSet(W[w].tabs[t].panes)
      OBVIOUS
    <3> HIDE DEF W
    <3> QED
      BY <2>3, <3>1, <3>2, <3>3, <3>4, SplitPlaced
  <2>5. Again(W[w].tabs) = t
    BY <2>3, TabFoundAgain
  <2>6. u = t
    <3> HIDE DEF out, v, Again
    <3> QED
      BY <2>2, <2>5
  <2>7. arrive(WithWorkspace(out, v, x), p, v, t, focus)
    <3> HIDE DEF out, v, Again
    <3> QED
      BY <1>1, <2>2, <2>6
  <2> HIDE DEF x
  <2>8. Placed(out.workspaces[v], x, p)
    BY <2>2, <2>4
  <2> HIDE DEF out, v
  <2> QED
    BY <1>1, <2>1, <2>2, <2>4, <2>7, <2>8, PlacedInOther
<1>4. CASE source = w
  <2> DEFINE taken == take_pane_for_move(W[w], p)
             a == WithWorkspace(app, w, taken)
  <2>1. out = a
    <3>1. ~cross /\ cross \in BOOLEAN
      BY <1>4
    <3>2. WorkspaceOf(app, p) = w
      BY <1>4
    <3> HIDE DEF cross, W
    <3> QED
      BY <3>1, <3>2, LeavesFor DEF W
  <2>2. p \in PanesOf(W[w])
    BY <1>2, <1>4
  <2>3. /\ Half(taken) /\ OnlyTabs(W[w], taken) /\ PanesOf(taken) = PanesOf(W[w]) \ {p}
        /\ taken.id = W[w].id /\ p \in Nat \ PanesOf(taken)
        /\ DOMAIN taken.public_pane_numbers \ {p} = PanesOf(taken)
        /\ \A i \in DOMAIN W[w].tabs : p \notin ToSet(W[w].tabs[i].panes) =>
             \E k \in DOMAIN taken.tabs : taken.tabs[k] = W[w].tabs[i]
    BY <2>2, TakenIs
  <2> HIDE DEF taken
  <2>4. v = w /\ a.workspaces[w] = taken
    <3>1. IndexOfWorkspace(a, W[w].id) = w /\ a.workspaces[w] = taken
      BY <2>3, SameFoundAgain
    <3> HIDE DEF out, a
    <3> QED
      BY <2>1, <3>1
  <2>5. PICK k \in DOMAIN taken.tabs : taken.tabs[k] = W[w].tabs[t]
    BY <1>1, <2>3, Zenon
  <2>6. Again(taken.tabs) = k
    BY <2>3, <2>5, TabFoundAgain
  <2>7. u = k
    <3> HIDE DEF out, v, a, Again
    <3> QED
      BY <2>1, <2>4, <2>6
  <2> DEFINE x == split_pane(taken, k, target, p, focus)
  <2>8. Placed(taken, x, p) /\ k \in DOMAIN x.tabs
    <3>1. target \in ToSet(taken.tabs[k].panes)
      BY <2>5
    <3> HIDE DEF W
    <3> QED
      BY <2>3, <2>5, <3>1, SplitPlaced
  <2>9. arrive(WithWorkspace(a, w, x), p, w, k, focus)
    <3> HIDE DEF out, a, v, u
    <3> QED
      BY <1>1, <2>1, <2>4, <2>7
  <2> HIDE DEF x
  <2> QED
    BY <1>1, <2>2, <2>3, <2>8, <2>9, PlacedInSame, Zenon DEF a
<1> QED
  BY <1>3, <1>4

\* pane.move to a new workspace keeps the invariant.
LEMMA MovePaneToNewWorkspaceKeeps ==
  ASSUME NEW fresh \in BOOLEAN, IInv(fresh), NEW p \in AllPanes(app.workspaces),
         NEW focus \in BOOLEAN,
         MovePaneToNewWorkspace(p, focus)
  PROVE  Keeps(fresh)
<1> DEFINE n == next_workspace_id
           W == app.workspaces
           gone == {p}
           x == new_workspace(n, p)
           out == leave_workspace(app, p, TRUE)
           b == Pushed(out, x)
           l == Len(b.workspaces)
<1>1. /\ arrive(b, p, l, 1, focus) /\ next_workspace_id' = n + 1
      /\ UNCHANGED <<next_pane_id, told>>
  BY DEF MovePaneToNewWorkspace, Pushed
<1>2. Sound(app, n) /\ Settled(fresh, app) /\ n \in Nat \ {0}
  BY DEF IInv, Counters
<1>3. /\ SoundBut(out, n, p) /\ Same(W, out.workspaces, gone)
      /\ out.public_pane_id_aliases = Put(app.public_pane_id_aliases, Name(W, p), p)
      /\ out.mail = app.mail
  <2>1. Departed(fresh, app, leave_workspace(app, p, TRUE), n, p)
    BY <1>2, LeaveSound
  <2> QED
    BY <2>1 DEF Departed
<1> HIDE DEF out
<1>4. p \notin AllPanes(out.workspaces) /\ gone = {p}
  BY <1>3 DEF Same
<1> HIDE DEF gone
<1>5. p \in Nat
  <2>1. WorkspaceOf(app, p) \in DOMAIN W /\ p \in PanesOf(W[WorkspaceOf(app, p)])
    BY WorkspaceOfIs
  <2> QED
    BY <2>1, TabsHavePanes DEF IInv, Sound, WorkspacesSound, Good
<1>6. Good(x) /\ x.id = n /\ PanesOf(x) = {p}
  BY <1>2, <1>5, NewWorkspaceGood
<1>7. 1 \in DOMAIN x.tabs
  BY DEF new_workspace
<1> HIDE DEF x
<1>8. /\ Sound(b, n + 1) /\ Gains(out.workspaces, b.workspaces, p, n)
      /\ l \in DOMAIN b.workspaces /\ b.workspaces[l] = x
      /\ b.public_pane_id_aliases = out.public_pane_id_aliases /\ b.mail = out.mail
  <2> HIDE DEF n
  <2> QED
    BY ONLY <1>2, <1>3, <1>4, <1>6, AppendSound DEF b, l
<1> HIDE DEF b, l
<1>9. Sound(b, next_workspace_id') /\ 1 \in DOMAIN b.workspaces[l].tabs
  BY <1>1, <1>7, <1>8
<1>10. next_workspace_id' \in {next_workspace_id, next_workspace_id + 1}
  BY <1>1
<1>11. /\ b.public_pane_id_aliases =
            Put(app.public_pane_id_aliases, Name(app.workspaces, p), p)
       /\ b.mail = app.mail
  BY <1>3, <1>8
<1> DEFINE t == 1
<1>12. arrive(b, p, l, t, focus) /\ t \in DOMAIN b.workspaces[l].tabs
  BY <1>1, <1>9
<1> HIDE DEF t
<1> QED
  BY <1>1, <1>3, <1>4, <1>8, <1>9, <1>10, <1>11, <1>12, ArrivesInOther

-----------------------------------------------------------------------------
(* The theorems.                                                           *)

\* The empty session satisfies the invariant.
LEMMA InitIInv ==
  ASSUME NEW fresh \in BOOLEAN, Init
  PROVE  IInv(fresh)
<1> DEFINE none == <<>>
<1>1. /\ app.workspaces = none /\ app.active = None /\ app.selected = 1
      /\ app.previous_pane_focus = NoTarget /\ app.public_pane_id_aliases = none
      /\ app.mail = none /\ IsApp(app)
      /\ next_workspace_id = 1 /\ next_pane_id = 1 /\ told = {} /\ owner = none
  BY DEF Init, IsApp
<1>2. DOMAIN none = {} /\ none \in Seq(WorkspaceSet) /\ none = [id \in {} |-> none[id]]
  OBVIOUS
<1> HIDE DEF none
<1>3. AllPanes(none) = {} /\ WorkspacesSound(none)
  BY <1>2 DEF AllPanes, WorkspacesSound
<1>4. Sound(app, 1) /\ Settled(fresh, app)
  BY <1>1, <1>2, <1>3 DEF Sound, Settled, Targets
<1>5. OwnerSound(none, 1, 1, none) /\ AliasesSound(none, none, none)
  BY <1>2, <1>3 DEF OwnerSound, AliasesSound
<1>6. MailSound(none, none, {})
  BY <1>2, <1>3 DEF MailSound
<1>7. Counters
  BY <1>1, <1>3 DEF Counters
<1> QED
  BY <1>1, <1>4, <1>5, <1>6, <1>7 DEF IInv

\* Every operation keeps it.
LEMMA NextKeeps ==
  ASSUME NEW fresh \in BOOLEAN, IInv(fresh), [Next]_vars
  PROVE  Keeps(fresh)
<1> DEFINE W == app.workspaces
<1>1. Live(app) = AllPanes(W) /\ Indices(app) = DOMAIN W
      /\ \A w : TabsOf(w) = DOMAIN W[w].tabs
  BY Reading DEF TabsOf
<1>2. CASE UNCHANGED vars
  BY <1>2 DEF vars, IInv, Counters, Keeps
<1>3. ASSUME NEW focus \in BOOLEAN, CreateWithFocus(focus) PROVE Keeps(fresh)
  BY <1>1, <1>3, CreateWorkspaceKeeps, OpenWorktreeKeeps, CreateTabKeeps, SplitPaneKeeps
  DEF CreateWithFocus
<1>4. ASSUME NEW focus \in BOOLEAN, NEW p \in Live(app), MovePane(p, focus) PROVE Keeps(fresh)
  BY <1>1, <1>4, MovePaneToNewTabKeeps, MovePaneToTabKeeps, MovePaneToNewWorkspaceKeeps
  DEF MovePane
<1>5. CASE Close
  BY <1>1, <1>5, PaneDiedKeeps, ClosePaneKeeps, CloseWorkspaceKeeps, CloseTabKeeps DEF Close
<1>6. CASE Reorder
  BY <1>1, <1>6, MoveWorkspaceKeeps, MoveTabKeeps DEF Reorder
<1>7. CASE Focus
  BY <1>1, <1>7, FocusPaneKeeps, FocusWorkspaceKeeps, FocusTabKeeps, GoToLastPaneKeeps DEF Focus
<1>8. ASSUME NEW id \in DOMAIN owner, Send(id) PROVE Keeps(fresh)
  BY <1>8, SendKeeps
<1> QED
  BY <1>2, <1>3, <1>4, <1>5, <1>6, <1>7, <1>8 DEF Next

\* Whatever is created, moved, focused and closed, in any order and number:
\* the ids, the aliases, the mailboxes, the tabs and the focus agree as IInv says.
THEOREM Invariant == Spec => []IInv(TRUE)
<1>1. Init => IInv(TRUE)
  BY InitIInv
<1>2. IInv(TRUE) /\ [Next]_vars => IInv(TRUE)'
  BY NextKeeps DEF Keeps
<1> QED
  BY <1>1, <1>2, PTL DEF Spec

\* A sequence of elements that are all in T.
LEMMA SeqOfThose ==
  ASSUME NEW S, NEW T, NEW s \in Seq(S), \A i \in DOMAIN s : s[i] \in T
  PROVE  s \in Seq(T)
<1>1. Len(s) \in Nat /\ DOMAIN s = 1..Len(s) /\ s \in [1..Len(s) -> S]
  BY LenProperties
<1>2. s \in [1..Len(s) -> T]
  BY <1>1
<1> QED
  BY <1>1, <1>2, SeqDef

\* The invariant gives every variable its type.
LEMMA TypesFollow ==
  ASSUME NEW fresh \in BOOLEAN, IInv(fresh)
  PROVE  TypeOK
<1> DEFINE W == app.workspaces
           n == next_workspace_id
<1>1. /\ Sound(app, n) /\ WorkspacesSound(W) /\ Counters
      /\ OwnerSound(W, n, next_pane_id, owner)
      /\ AliasesSound(W, owner, app.public_pane_id_aliases)
      /\ MailSound(W, app.mail, told)
  BY DEF IInv, Sound
<1>2. AllPanes(W) \subseteq PaneId /\ told \subseteq PaneId
  BY <1>1 DEF Counters, PaneIds, PaneId
<1> HIDE DEF n
<1>3. ASSUME NEW w \in DOMAIN W
      PROVE  LET ws == W[w]
             IN  /\ ws.id \in 1..(n - 1) /\ ws.tabs \in Seq(Tab)
                 /\ {ws.active_tab, ws.next_public_pane_number, ws.next_public_tab_number}
                      \subseteq Nat
                 /\ DOMAIN ws.public_pane_numbers \subseteq PaneId
                 /\ ws.public_pane_numbers \in [DOMAIN ws.public_pane_numbers -> Nat]
                 /\ ws.space \in {"none", "main", "linked"}
  <2> DEFINE ws == W[w]
  <2>1. ws \in WorkspaceSet /\ Good(ws) /\ TabsSound(ws.tabs, ws.next_public_tab_number)
    BY <1>1 DEF WorkspacesSound, Good, Half
  <2>2. PanesOf(ws) \subseteq PaneId
    BY <1>2 DEF AllPanes
  <2>3. ASSUME NEW t \in DOMAIN ws.tabs PROVE ws.tabs[t] \in Tab
    <3> DEFINE tab == ws.tabs[t]
    <3>1. TabSound(tab)
      BY <2>1 DEF TabsSound
    <3>2. ToSet(tab.panes) \subseteq PaneId
      BY <2>2 DEF PanesOf
    <3>3. \A i \in DOMAIN tab.panes : tab.panes[i] \in PaneId
      BY <3>2 DEF ToSet
    <3>4. tab.panes \in Seq(PaneId)
      BY <3>1, <3>3, SeqOfThose DEF TabSound, Tabs
    <3> QED
      BY <3>1, <3>2, <3>4 DEF TabSound, Tabs, Tab
  <2>4. ws.tabs \in Seq(Tab)
    BY <2>1, <2>3, SeqOfThose DEF TabsSound
  <2>5. ws.id \in 1..(n - 1)
    BY <1>1 DEF Sound
  <2>6. DOMAIN ws.public_pane_numbers \subseteq PaneId
    BY <2>1, <2>2 DEF Good
  <2>7. ws.public_pane_numbers \in [DOMAIN ws.public_pane_numbers -> Nat]
    BY <2>1, PartialMap DEF WorkspaceSet
  <2>8. /\ {ws.active_tab, ws.next_public_pane_number, ws.next_public_tab_number}
             \subseteq Nat
        /\ ws.space \in {"none", "main", "linked"}
    BY <2>1 DEF WorkspaceSet
  <2> QED
    BY <2>4, <2>5, <2>6, <2>7, <2>8
<1>4. app.active \in Nat /\ app.selected \in Nat
  <2>1. DOMAIN W \subseteq Nat
    BY <1>1, LenProperties DEF WorkspacesSound
  <2> QED
    BY <1>1, <2>1 DEF Sound, None
<1>5. app.previous_pane_focus \in {NoTarget} \cup [workspace : 1..(n - 1), pane : PaneId]
  BY <1>1, <1>2 DEF Sound, Targets
<1>6. ASSUME NEW id \in DOMAIN owner
      PROVE  id \in PublicId /\ owner[id] \in PaneId
  BY <1>1, <1>6 DEF OwnerSound, Reserved, PaneIds, PaneId, PublicId, n
<1>7. ASSUME NEW id \in DOMAIN app.public_pane_id_aliases
      PROVE  id \in PublicId /\ app.public_pane_id_aliases[id] \in PaneId
  BY <1>1, <1>6 DEF AliasesSound
<1>8. ASSUME NEW id \in DOMAIN app.mail
      PROVE  id \in PublicId /\ app.mail[id] \in PaneId
  <2>1. PICK p \in told \cap AllPanes(W) : id = Name(W, p) /\ app.mail[id] = p
    BY <1>1 DEF MailSound
  <2>2. id \in DOMAIN owner
    BY <1>1, <2>1 DEF OwnerSound
  <2> QED
    BY <1>2, <1>6, <2>1, <2>2
<1>9. Indices(app) = DOMAIN W
  BY DEF Indices
<1>10. \A f \in {app.public_pane_id_aliases, app.mail, owner} :
         DOMAIN f \subseteq PublicId /\ \A id \in DOMAIN f : f[id] \in PaneId
  BY <1>6, <1>7, <1>8
<1>11. \A w \in Indices(app) :
         LET ws == app.workspaces[w]
         IN  /\ ws.id \in 1..(next_workspace_id - 1) /\ ws.tabs \in Seq(Tab)
             /\ {ws.active_tab, ws.next_public_pane_number, ws.next_public_tab_number}
                  \subseteq Nat
             /\ DOMAIN ws.public_pane_numbers \subseteq PaneId
             /\ ws.public_pane_numbers \in [DOMAIN ws.public_pane_numbers -> Nat]
             /\ ws.space \in {"none", "main", "linked"}
  BY <1>3, <1>9 DEF n
<1>12. app.previous_pane_focus \in
         {NoTarget} \cup [workspace : 1..(next_workspace_id - 1), pane : PaneId]
  BY <1>5 DEF n
<1> QED
  BY <1>2, <1>4, <1>10, <1>11, <1>12 DEF TypeOK

\* Every field of the session has the values TypeOK names.
THEOREM TypeCorrect == Spec => []TypeOK
<1>1. IInv(TRUE) => TypeOK
  BY TypesFollow
<1> QED
  BY <1>1, Invariant, PTL

\* No operation of the API and no pane that dies leaves a tab without panes,
\* a focus, an active workspace or a selection on something that is gone, a pane
\* without its number or in two tabs, or a previous focus on a pane that is gone.
THEOREM SessionSafe == Spec => []SessionInvariant
<1>1. IInv(TRUE) => SessionInvariant
  <2> SUFFICES ASSUME IInv(TRUE) PROVE SessionInvariant
    OBVIOUS
  <2> DEFINE W == app.workspaces
  <2>1. Sound(app, next_workspace_id) /\ Settled(TRUE, app) /\ WorkspacesSound(W)
    BY DEF IInv, Sound
  <2>2. Indices(app) = DOMAIN W /\ Live(app) = AllPanes(W)
    BY Reading
  <2>3. \A w \in DOMAIN W : WorkspaceInvariant(W[w])
    BY <2>1, GoodIsInvariant DEF WorkspacesSound
  <2>4. IF W = <<>> THEN app.active = None /\ app.selected = 1
        ELSE {app.active, app.selected} \subseteq DOMAIN W
    <3>1. CASE W = <<>>
      <4>1. DOMAIN W = {}
        BY <3>1
      <4> QED
        BY <2>1, <3>1, <4>1 DEF Sound
    <3>2. CASE W # <<>>
      <4>1. 1 \in DOMAIN W
        BY <2>1, <3>2, LenProperties, EmptySeq DEF WorkspacesSound
      <4> QED
        BY <2>1, <3>2, <4>1, Focused
    <3> QED
      BY <3>1, <3>2
  <2>5. app.previous_pane_focus.pane \in {None} \cup AllPanes(W)
    BY <2>1 DEF Sound, Targets, NoTarget
  <2> QED
    BY <2>1, <2>2, <2>3, <2>4, <2>5 DEF SessionInvariant, WorkspacesSound
<1> QED
  BY <1>1, Invariant, PTL

\* A pane that has mail and lives is found by it under its current id,
\* however often move_pane changed that id, and no mailbox is left of a pane
\* that is gone.
THEOREM MailFollows == Spec => []MailFollowsPane
<1>1. IInv(TRUE) => MailFollowsPane
  <2> SUFFICES ASSUME IInv(TRUE) PROVE MailFollowsPane
    OBVIOUS
  <2> DEFINE W == app.workspaces
             names == {Name(W, p) : p \in told \cap AllPanes(W)}
  <2>1. WorkspacesSound(W) /\ MailSound(W, app.mail, told)
    BY DEF IInv, Sound
  <2>2. /\ Live(app) = AllPanes(W)
        /\ {public_pane_id(app, p) : p \in told \cap Live(app)} = names
    BY Reading
  <2>3. DOMAIN app.mail = names
    BY <2>1 DEF MailSound
  <2>4. \A id \in names : app.mail[id] = pane_with_id(app, id)
    BY <2>1, PaneWithId DEF MailSound
  <2>5. app.mail = [id \in DOMAIN app.mail |-> app.mail[id]]
    BY <2>1 DEF MailSound
  <2> HIDE DEF names
  <2>6. app.mail = [id \in names |-> pane_with_id(app, id)]
    BY <2>3, <2>4, <2>5
  <2> QED
    BY <2>2, <2>6 DEF MailFollowsPane
<1> QED
  BY <1>1, Invariant, PTL

\* An id that was ever handed out for a pane means that pane as long as it
\* lives, after any moves, and nothing afterwards: parse_pane_id never answers
\* with another pane.
THEOREM NoRetargeting == Spec => []IdsNeverRetarget
<1>1. IInv(TRUE) => IdsNeverRetarget
  <2> SUFFICES ASSUME IInv(TRUE), NEW id \in DOMAIN owner
               PROVE  parse_pane_id(app, id) =
                        IF owner[id] \in Live(app) THEN owner[id] ELSE None
    BY DEF IdsNeverRetarget
  <2> DEFINE W == app.workspaces
  <2>1. /\ WorkspacesSound(W) /\ Live(app) = AllPanes(W)
        /\ OwnerSound(W, next_workspace_id, next_pane_id, owner)
        /\ AliasesSound(W, owner, app.public_pane_id_aliases)
    BY Reading DEF IInv, Sound
  <2>2. CASE id \in DOMAIN app.public_pane_id_aliases
    BY <2>1, <2>2 DEF parse_pane_id, Get, AliasesSound
  <2>3. CASE id \notin DOMAIN app.public_pane_id_aliases
    <3>1. parse_pane_id(app, id) = pane_with_id(app, id)
      BY <2>3 DEF parse_pane_id
    <3>2. CASE owner[id] \in AllPanes(W)
      <4>1. id = Name(W, owner[id])
        BY <2>1, <2>3, <3>2 DEF AliasesSound
      <4> QED
        BY <2>1, <3>1, <3>2, <4>1, PaneWithId
    <3>3. CASE owner[id] \notin AllPanes(W)
      <4>1. \A p \in AllPanes(W) : id # Name(W, p)
        BY <2>1, <3>3 DEF OwnerSound
      <4> QED
        BY <2>1, <3>1, <3>3, <4>1, PaneWithId
    <3> QED
      BY <3>2, <3>3
  <2> QED
    BY <2>2, <2>3
<1> QED
  BY <1>1, Invariant, PTL

-----------------------------------------------------------------------------
(* The focus.                                                              *)

\* Removing another tab leaves the active one active.
LEMMA RemoveTabFront ==
  ASSUME NEW ws, Half(ws), NEW t \in DOMAIN ws.tabs, t # ws.active_tab
  PROVE  focused_pane_id(remove_tab(ws, t)) = focused_pane_id(ws)
<1> DEFINE tabs == RemoveAt(ws.tabs, t)
           left == Len(ws.tabs) - 1
           active == IF left = 0 THEN 1
                     ELSE IF ws.active_tab > left THEN left
                     ELSE IF t <= ws.active_tab /\ ws.active_tab > 1 THEN ws.active_tab - 1
                     ELSE ws.active_tab
           x == remove_tab(ws, t)
<1>1. /\ ws.tabs \in Seq(Tabs) /\ DOMAIN ws.tabs = 1..Len(ws.tabs) /\ Len(ws.tabs) \in Nat
      /\ ws.active_tab \in 1..Len(ws.tabs) /\ t \in 1..Len(ws.tabs)
  <2>1. DOMAIN <<>> = {}
    OBVIOUS
  <2> QED
    BY <2>1, TabsHavePanes DEF Half, TabsSound
<1>2. \A k \in 1..left : tabs[k] = IF k < t THEN ws.tabs[k] ELSE ws.tabs[k + 1]
  BY <1>1, ElementRemoved
<1>3. x.tabs = tabs /\ x.active_tab = active
  BY DEF remove_tab, Half, WorkspaceSet
<1> HIDE DEF tabs, x
<1>4. active \in 1..left /\ ws.active_tab = IF active < t THEN active ELSE active + 1
  <2>1. \A l \in Nat : \A a, u \in 1..(l + 1) : a # u =>
          LET b == IF l = 0 THEN 1 ELSE IF a > l THEN l
                   ELSE IF u <= a /\ a > 1 THEN a - 1 ELSE a
          IN  b \in 1..l /\ a = IF b < u THEN b ELSE b + 1
    OBVIOUS
  <2>2. left \in Nat /\ ws.active_tab \in 1..(left + 1) /\ t \in 1..(left + 1)
    BY <1>1
  <2> HIDE DEF left
  <2> QED
    BY <2>1, <2>2
<1> HIDE DEF active, left
<1>5. tabs[active] = ws.tabs[ws.active_tab]
  BY <1>2, <1>4
<1> QED
  BY <1>3, <1>5 DEF focused_pane_id, x

\* Taking another pane than the focused one leaves that focused.
LEMMA TakeFront ==
  ASSUME NEW ws, Half(ws), NEW p \in PanesOf(ws), p # focused_pane_id(ws)
  PROVE  focused_pane_id(take_pane_for_move(ws, p)) = focused_pane_id(ws)
<1> DEFINE t == find_tab_index_for_pane(ws, p)
           tab == ws.tabs[t]
           x == take_pane_for_move(ws, p)
<1>1. t \in DOMAIN ws.tabs /\ p \in ToSet(tab.panes)
  BY DEF PanesOf, find_tab_index_for_pane
<1>2. x = IF Len(tab.panes) = 1 THEN remove_tab(ws, t)
          ELSE [ws EXCEPT !.tabs[t] = detach_pane(@, p)]
  BY DEF take_pane_for_move
<1> HIDE DEF t, x
<1>3. TabSound(tab) /\ ws.active_tab \in DOMAIN ws.tabs
  <2>1. DOMAIN <<>> = {}
    OBVIOUS
  <2> QED
    BY <1>1, <2>1 DEF Half, TabsSound
<1>4. CASE Len(tab.panes) = 1
  <2>1. tab.panes \in Seq(Nat) /\ DOMAIN tab.panes = {1}
    BY <1>3, <1>4, LenProperties DEF TabSound, Tabs
  <2>2. tab.focused = p
    BY <1>1, <1>3, <2>1 DEF TabSound, ToSet
  <2>3. t # ws.active_tab
    BY <2>2 DEF focused_pane_id
  <2> QED
    BY <1>1, <1>2, <1>4, <2>3, RemoveTabFront DEF x
<1>5. CASE Len(tab.panes) # 1
  <2> DEFINE left == detach_pane(tab, p)
             tabs == [ws.tabs EXCEPT ![t] = left]
  <2>1. x.tabs = tabs /\ x.active_tab = ws.active_tab
    <3>1. x = [ws EXCEPT !.tabs = tabs]
      BY <1>2, <1>5
    <3> HIDE DEF tabs
    <3> QED
      BY <3>1 DEF Half, WorkspaceSet
  <2>2. tab.focused # p => left.focused = tab.focused
    BY <1>3 DEF detach_pane, TabSound, Tabs
  <2> HIDE DEF left
  <2>3. tabs[ws.active_tab].focused = ws.tabs[ws.active_tab].focused
    BY <1>1, <1>3, <2>2 DEF focused_pane_id
  <2> QED
    BY <2>1, <2>3 DEF focused_pane_id, x
<1> QED
  BY <1>4, <1>5

\* A pane that loses its number loses no focus.
LEMMA UnregisterFront ==
  ASSUME NEW ws, Half(ws), NEW p
  PROVE  focused_pane_id(unregister_pane(ws, p)) = focused_pane_id(ws)
BY DEF unregister_pane, focused_pane_id, Half, WorkspaceSet

\* Closing another pane than the focused one leaves that focused.
LEMMA ClosePaneFront ==
  ASSUME NEW ws, Good(ws), NEW p \in PanesOf(ws), ~LastPane(ws, p), p # focused_pane_id(ws)
  PROVE  focused_pane_id(close_pane(ws, p)) = focused_pane_id(ws)
<1> DEFINE with == take_pane_for_move(ws, p)
<1>1. Half(with) /\ focused_pane_id(with) = focused_pane_id(ws)
  BY TakeSound, TakeFront DEF Good
<1>2. close_pane(ws, p) = unregister_pane(with, p)
  BY DEF close_pane
<1> HIDE DEF with
<1> QED
  BY <1>1, <1>2, UnregisterFront

\* Closing a tab without the focused pane leaves that focused.
LEMMA CloseTabFront ==
  ASSUME NEW ws, Good(ws), NEW t \in DOMAIN ws.tabs,
         focused_pane_id(ws) \notin ToSet(ws.tabs[t].panes)
  PROVE  focused_pane_id(close_tab(ws, t)) = focused_pane_id(ws)
<1> DEFINE with == remove_tab(ws, t)
           x == close_tab(ws, t)
           g == [p \in DOMAIN with.public_pane_numbers \ ToSet(ws.tabs[t].panes) |->
                   with.public_pane_numbers[p]]
<1>1. Half(ws) /\ TabSound(ws.tabs[t])
  BY DEF Good, Half, TabsSound
<1>2. t # ws.active_tab
  BY <1>1 DEF focused_pane_id, TabSound
<1>3. Half(with) /\ focused_pane_id(with) = focused_pane_id(ws)
  BY <1>1, <1>2, RemoveTabSound, RemoveTabFront
<1>4. x = [with EXCEPT !.public_pane_numbers = g]
  BY DEF close_tab
<1> HIDE DEF with, g, x
<1>5. x.tabs = with.tabs /\ x.active_tab = with.active_tab
  BY <1>3, <1>4 DEF Half, WorkspaceSet
<1> QED
  BY <1>3, <1>5 DEF focused_pane_id, x

\* The tab that was active before a move of tabs is found again.
LEMMA MoveTabFront ==
  ASSUME NEW ws, Good(ws), NEW source \in DOMAIN ws.tabs,
         NEW insert \in 1..(Len(ws.tabs) + 1), insert \notin {source, source + 1}
  PROVE  focused_pane_id(move_tab(ws, source, insert)) = focused_pane_id(ws)
<1> DEFINE target == IF source < insert THEN insert - 1 ELSE insert
           tabs == InsertAt(RemoveAt(ws.tabs, source), target, ws.tabs[source])
           root == ws.tabs[ws.active_tab].root_pane
           active == CHOOSE t \in DOMAIN tabs : tabs[t].root_pane = root
           x == move_tab(ws, source, insert)
<1>1. /\ TabsSound(ws.tabs, ws.next_public_tab_number) /\ ws.tabs \in Seq(Tabs)
      /\ DOMAIN ws.tabs = 1..Len(ws.tabs) /\ Len(ws.tabs) \in Nat
      /\ ws.active_tab \in DOMAIN ws.tabs
  BY TabsHavePanes DEF Good, Half, TabsSound
<1>2. target \in 1..Len(ws.tabs)
  BY <1>1
<1>3. x.tabs = tabs /\ x.active_tab = active
  <2>1. x = [ws EXCEPT !.tabs = tabs, !.active_tab = active]
    BY DEF move_tab
  <2> HIDE DEF x, tabs, active
  <2> QED
    BY <2>1 DEF Good, Half, WorkspaceSet
<1> HIDE DEF target
<1>4. \E m : Picks(tabs, ws.tabs, m) /\ Range(m) = DOMAIN ws.tabs
  BY <1>1, <1>2, MovedPicks
<1> HIDE DEF tabs, x
<1>5. PICK m : Picks(tabs, ws.tabs, m) /\ Range(m) = DOMAIN ws.tabs
  BY <1>4
<1>6. PICK k \in DOMAIN tabs : m[k] = ws.active_tab
  BY <1>1, <1>5 DEF Picks, Range
<1>7. tabs[k].root_pane = root
  BY <1>5, <1>6 DEF Picks
<1>8. active \in DOMAIN tabs /\ tabs[active].root_pane = root
  BY <1>6, <1>7
<1> HIDE DEF active
<1>9. m[active] \in DOMAIN ws.tabs /\ tabs[active] = ws.tabs[m[active]]
  BY <1>5, <1>8 DEF Picks
<1>10. m[active] = ws.active_tab
  <2>1. /\ root \in ToSet(ws.tabs[ws.active_tab].panes)
        /\ root \in ToSet(ws.tabs[m[active]].panes)
    BY <1>1, <1>8, <1>9 DEF TabsSound, TabSound
  <2> QED
    BY <1>1, <1>9, <2>1 DEF TabsSound
<1> QED
  BY <1>3, <1>9, <1>10 DEF focused_pane_id, x

\* A new tab stays behind the others.
LEMMA CreateTabFront ==
  ASSUME NEW ws, Half(ws), ws.tabs # <<>>, NEW p
  PROVE  focused_pane_id(create_tab(ws, p)) = focused_pane_id(ws)
<1> DEFINE tab == new_tab(ws.next_public_tab_number, p)
           x == create_tab(ws, p)
<1>1. x.tabs = Append(ws.tabs, tab) /\ x.active_tab = ws.active_tab
  BY DEF create_tab, register_new_pane, Half, WorkspaceSet
<1> HIDE DEF x, tab
<1>2. ws.active_tab \in 1..Len(ws.tabs) /\ ws.tabs \in Seq(Tabs)
  BY TabsHavePanes DEF Half, TabsSound
<1>3. Append(ws.tabs, tab)[ws.active_tab] = ws.tabs[ws.active_tab]
  BY <1>2 DEF Append
<1> QED
  BY <1>1, <1>3 DEF focused_pane_id, x

\* A newcomer in a tab that did not ask for the focus does not have it.
LEMMA SplitFront ==
  ASSUME NEW ws, Half(ws), ws.tabs # <<>>, NEW t, NEW target, NEW p
  PROVE  focused_pane_id(split_pane(ws, t, target, p, FALSE)) = focused_pane_id(ws)
<1> DEFINE tab == insert_pane(ws.tabs[t], target, p)
           with == insert_moved_pane_into_tab(ws, t, target, p)
           f == ws.tabs[t].focused
           x == split_pane(ws, t, target, p, FALSE)
<1>1. x = [with EXCEPT !.tabs[t].focused = f]
  BY DEF split_pane, layout_focus
<1>2. /\ with.tabs = [ws.tabs EXCEPT ![t] = tab] /\ with.active_tab = ws.active_tab
      /\ DOMAIN with = DOMAIN ws
  BY DEF insert_moved_pane_into_tab, register_new_pane, Half, WorkspaceSet
<1>3. "tabs" \in DOMAIN with /\ "active_tab" \in DOMAIN with
  BY <1>2 DEF Half, WorkspaceSet
<1> HIDE DEF with, x
<1>4. x.tabs = [with.tabs EXCEPT ![t].focused = f] /\ x.active_tab = with.active_tab
  BY <1>1, <1>3
<1>5. t \in DOMAIN ws.tabs => "focused" \in DOMAIN tab
  BY DEF insert_pane, Half, TabsSound, TabSound, Tabs
<1> HIDE DEF tab
<1>6. ws.active_tab \in DOMAIN ws.tabs
  BY DEF Half
<1>7. x.tabs[ws.active_tab].focused = ws.tabs[ws.active_tab].focused
  BY <1>2, <1>4, <1>5, <1>6
<1> QED
  BY <1>2, <1>4, <1>7 DEF focused_pane_id, x

\* The pane that has the focus in a is that of b too.
KeepsFocus(a, b) ==
  /\ b.active \in DOMAIN b.workspaces
  /\ focused_pane_id(b.workspaces[b.active]) = focused_pane_id(a.workspaces[a.active])

\* A session with a focus on one of its panes.
Attended(a) ==
  /\ IsApp(a) /\ WorkspacesSound(a.workspaces) /\ a.active \in DOMAIN a.workspaces

\* What the focus is, by the workspaces.
LEMMA FocusedIs ==
  ASSUME NEW fresh \in BOOLEAN, IInv(fresh), focused \in Live(app)
  PROVE  Attended(app) /\ focused = focused_pane_id(app.workspaces[app.active])
<1>1. Sound(app, next_workspace_id)
  BY DEF IInv
<1>2. None \notin Live(app)
  BY NoneIsNoPane, Reading
<1>3. app.active # None
  BY <1>2 DEF focused, current_pane_focus_target, NoTarget
<1> QED
  BY <1>1, <1>3 DEF Sound, Attended, focused, current_pane_focus_target

\* ... and it stays what it is when a step keeps it.
LEMMA FocusedStays ==
  ASSUME Attended(app), KeepsFocus(app, app'), app'.workspaces \in Seq(WorkspaceSet),
         focused = focused_pane_id(app.workspaces[app.active])
  PROVE  focused' = focused
<1>1. app'.active # None
  BY LenProperties DEF KeepsFocus, None
<1> QED
  BY <1>1 DEF KeepsFocus, focused, current_pane_focus_target

\* One workspace is replaced; when it is the active one its focus stays.
LEMMA ReplacedFocus ==
  ASSUME NEW a, a.workspaces \in Seq(WorkspaceSet), a.active \in DOMAIN a.workspaces,
         NEW w \in DOMAIN a.workspaces, NEW x,
         w = a.active => focused_pane_id(x) = focused_pane_id(a.workspaces[w]),
         NEW b, b.workspaces = Replaced(a.workspaces, w, x), b.active = a.active
  PROVE  KeepsFocus(a, b)
BY DEF KeepsFocus, Replaced

\* One workspace more, behind the others.
LEMMA AppendedFocus ==
  ASSUME NEW a, a.workspaces \in Seq(WorkspaceSet), a.active \in DOMAIN a.workspaces,
         NEW x, NEW b, b.workspaces = Append(a.workspaces, x), b.active = a.active
  PROVE  KeepsFocus(a, b)
<1>1. DOMAIN a.workspaces = 1..Len(a.workspaces) /\ Len(a.workspaces) \in Nat
  BY LenProperties
<1> QED
  BY <1>1 DEF KeepsFocus, Append

\* The parts of a session that lose nothing by WithWorkspace and Pushed.
LEMMA WithWorkspaceIs ==
  ASSUME NEW a, IsApp(a), NEW w, NEW x
  PROVE  /\ IsApp(WithWorkspace(a, w, x)) /\ WithWorkspace(a, w, x).active = a.active
         /\ WithWorkspace(a, w, x).workspaces = Replaced(a.workspaces, w, x)
         /\ IsApp(Pushed(a, x)) /\ Pushed(a, x).active = a.active
         /\ Pushed(a, x).workspaces = Append(a.workspaces, x)
<1>1. WithWorkspace(a, w, x) = [a EXCEPT !.workspaces = Replaced(a.workspaces, w, x)]
  BY DEF WithWorkspace, Replaced
<1>2. Pushed(a, x) = [a EXCEPT !.workspaces = Append(a.workspaces, x)]
  BY DEF Pushed
<1>3. ASSUME NEW X
      PROVE  LET b == [a EXCEPT !.workspaces = X]
             IN  IsApp(b) /\ b.active = a.active /\ b.workspaces = X
  BY DEF IsApp
<1> QED
  BY <1>1, <1>2, <1>3

-----------------------------------------------------------------------------
(* What is created without `focus` does not take it.                       *)

\* workspace.create
LEMMA CreateWorkspaceFocus ==
  ASSUME Attended(app), CreateWorkspace(FALSE)
  PROVE  KeepsFocus(app, app')
<1> DEFINE x == new_workspace(next_workspace_id, next_pane_id)
<1>1. app.active # None
  BY LenProperties DEF Attended, WorkspacesSound, None
<1>2. app' = Pushed(app, x)
  BY <1>1 DEF CreateWorkspace, Becomes, push_workspace, Pushed
<1> HIDE DEF x
<1>3. Pushed(app, x).active = app.active /\ Pushed(app, x).workspaces = Append(app.workspaces, x)
  BY WithWorkspaceIs DEF Attended
<1>4. app.workspaces \in Seq(WorkspaceSet) /\ app.active \in DOMAIN app.workspaces
  BY DEF Attended, WorkspacesSound
<1> QED
  BY <1>2, <1>3, <1>4, AppendedFocus

\* worktree.open
LEMMA OpenWorktreeFocus ==
  ASSUME Attended(app), NEW w \in DOMAIN app.workspaces, OpenWorktree(w, FALSE)
  PROVE  KeepsFocus(app, app')
<1> DEFINE W == app.workspaces
           main == [W[w] EXCEPT !.space = "main"]
           source == WithWorkspace(app, w, main)
           linked == [new_workspace(next_workspace_id, next_pane_id) EXCEPT !.space = "linked"]
<1>1. app.active # None /\ Half(W[w]) /\ W \in Seq(WorkspaceSet) /\ app.active \in DOMAIN W
  BY LenProperties DEF Attended, WorkspacesSound, Good, None
<1>2. app' = push_workspace(source, linked, FALSE)
  BY DEF OpenWorktree, Becomes, WithWorkspace
<1> HIDE DEF linked
<1>3. focused_pane_id(main) = focused_pane_id(W[w]) /\ Half(main)
  <2>1. Left(W[w], main, {})
    BY SpaceGood DEF Attended, WorkspacesSound
  <2> QED
    BY <1>1, <2>1 DEF focused_pane_id, Half, WorkspaceSet, Left, Good
<1> HIDE DEF main
<1>4. /\ source.active = app.active /\ source.workspaces = Replaced(W, w, main)
      /\ IsApp(source)
  BY WithWorkspaceIs DEF Attended
<1> HIDE DEF source
<1>5. KeepsFocus(app, source)
  BY <1>1, <1>3, <1>4, ReplacedFocus
<1>6. source.workspaces \in Seq(WorkspaceSet)
  BY <1>1, <1>3, <1>4, ExceptSeq DEF Half, Replaced
<1>7. app' = Pushed(source, linked)
  BY <1>1, <1>2, <1>4 DEF push_workspace, Pushed
<1>8. KeepsFocus(source, app')
  <2>1. /\ Pushed(source, linked).active = source.active
        /\ Pushed(source, linked).workspaces = Append(source.workspaces, linked)
    BY <1>4, WithWorkspaceIs
  <2>2. source.active \in DOMAIN source.workspaces
    BY <1>5 DEF KeepsFocus
  <2> QED
    BY <1>6, <1>7, <2>1, <2>2, AppendedFocus
<1> QED
  BY <1>5, <1>8 DEF KeepsFocus

\* Another tab or pane in a workspace: its focus stays.
LEMMA WorkspaceFocus ==
  ASSUME Attended(app), NEW w \in DOMAIN app.workspaces, NEW x,
         focused_pane_id(x) = focused_pane_id(app.workspaces[w]),
         app' = WithWorkspace(app, w, x)
  PROVE  KeepsFocus(app, app')
BY WithWorkspaceIs, ReplacedFocus DEF Attended, WorkspacesSound

\* tab.create
LEMMA CreateTabFocus ==
  ASSUME Attended(app), NEW w \in DOMAIN app.workspaces, CreateTab(w, FALSE)
  PROVE  KeepsFocus(app, app')
<1> DEFINE x == create_tab(app.workspaces[w], next_pane_id)
<1>1. app' = WithWorkspace(app, w, x)
  BY DEF CreateTab, Becomes, WithWorkspace
<1>2. focused_pane_id(x) = focused_pane_id(app.workspaces[w])
  BY CreateTabFront DEF Attended, WorkspacesSound, Good
<1> HIDE DEF x
<1> QED
  BY <1>1, <1>2, WorkspaceFocus

\* pane.split
LEMMA SplitPaneFocus ==
  ASSUME Attended(app), NEW target \in AllPanes(app.workspaces), SplitPane(target, FALSE)
  PROVE  KeepsFocus(app, app')
<1> DEFINE w == WorkspaceOf(app, target)
           t == find_tab_index_for_pane(app.workspaces[w], target)
           x == split_pane(app.workspaces[w], t, target, next_pane_id, FALSE)
<1>1. app' = WithWorkspace(app, w, x)
  BY DEF SplitPane, Becomes, WithWorkspace
<1>2. w \in DOMAIN app.workspaces
  BY WorkspaceOfIs
<1> HIDE DEF w, t
<1>3. focused_pane_id(x) = focused_pane_id(app.workspaces[w])
  BY <1>2, SplitFront DEF Attended, WorkspacesSound, Good
<1> HIDE DEF x
<1> QED
  BY <1>1, <1>2, <1>3, WorkspaceFocus

-----------------------------------------------------------------------------
(* Reordering keeps the focus.                                             *)

\* tab.move
LEMMA MoveTabFocus ==
  ASSUME Attended(app), NEW w \in DOMAIN app.workspaces, NEW t \in DOMAIN app.workspaces[w].tabs,
         NEW insert \in 1..(Len(app.workspaces[w].tabs) + 1), MoveTab(w, t, insert)
  PROVE  KeepsFocus(app, app')
<1> DEFINE x == move_tab(app.workspaces[w], t, insert)
<1>1. app' = WithWorkspace(app, w, x) /\ insert \notin {t, t + 1}
  BY DEF MoveTab, Becomes, WithWorkspace
<1>2. focused_pane_id(x) = focused_pane_id(app.workspaces[w])
  BY <1>1, MoveTabFront DEF Attended, WorkspacesSound
<1> HIDE DEF x
<1> QED
  BY <1>1, <1>2, WorkspaceFocus

\* workspace.move
LEMMA MoveWorkspaceFocus ==
  ASSUME Attended(app), NEW w \in DOMAIN app.workspaces,
         NEW insert \in 1..(Len(app.workspaces) + 1), MoveWorkspace(w, insert)
  PROVE  KeepsFocus(app, app')
<1> DEFINE W == app.workspaces
           target == IF w < insert THEN insert - 1 ELSE insert
           X == InsertAt(RemoveAt(W, w), target, W[w])
           after(index) == IndexOfWorkspace([workspaces |-> X], W[index].id)
           a == [app EXCEPT !.workspaces = X,
                            !.active = IF @ = None THEN None ELSE after(@),
                            !.selected = after(@)]
<1>1. insert \notin {w, w + 1} /\ app' = a
  BY DEF MoveWorkspace, Becomes
<1>2. /\ WorkspacesSound(W) /\ IsApp(app) /\ app.active \in DOMAIN W /\ app.active # None
      /\ DOMAIN W = 1..Len(W) /\ Len(W) \in Nat
  <2>1. WorkspacesSound(W) /\ IsApp(app) /\ app.active \in DOMAIN W
    BY DEF Attended
  <2>2. DOMAIN W = 1..Len(W) /\ Len(W) \in Nat
    BY <2>1, LenProperties DEF WorkspacesSound
  <2> HIDE DEF W
  <2> QED
    BY <2>1, <2>2 DEF None
<1>3. target \in DOMAIN W
  BY <1>1, <1>2
<1> HIDE DEF target
<1>4. WorkspacesSound(X) /\ \A i \in DOMAIN W : \E x \in DOMAIN X : X[x] = W[i]
  <2>1. w \in DOMAIN W
    OBVIOUS
  <2> HIDE DEF W
  <2> QED
    BY <1>2, <1>3, <2>1, MovedSame DEF Same
<1> HIDE DEF X
<1>5. after(app.active) \in DOMAIN X /\ X[after(app.active)] = W[app.active]
  <2>1. PICK x \in DOMAIN X : X[x] = W[app.active]
    BY <1>2, <1>4
  <2>2. \A i \in DOMAIN X : X[i].id = W[app.active].id <=> i = x
    BY <1>4, <2>1 DEF WorkspacesSound
  <2> QED
    BY <2>1, <2>2 DEF IndexOfWorkspace, Indices
<1>6. a.workspaces = X /\ a.active = after(app.active)
  <2> HIDE DEF after
  <2> QED
    BY <1>2 DEF IsApp
<1> HIDE DEF a
<1> QED
  BY <1>1, <1>5, <1>6 DEF KeepsFocus

-----------------------------------------------------------------------------
(* A move without `focus` of another pane keeps the focus.                 *)

\* The focused pane of a workspace is one of its panes.
LEMMA FocusedInside ==
  ASSUME NEW ws, Half(ws), ws.tabs # <<>>
  PROVE  focused_pane_id(ws) \in PanesOf(ws)
BY DEF Half, TabsSound, TabSound, focused_pane_id, PanesOf

\* What the pane leaves behind when it moves within its workspace.
LEMMA LeaveWithin ==
  ASSUME NEW a, Attended(a), NEW p \in AllPanes(a.workspaces),
         p # focused_pane_id(a.workspaces[a.active])
  PROVE  LET out == leave_workspace(a, p, FALSE)
         IN  KeepsFocus(a, out) /\ IsApp(out) /\ out.workspaces \in Seq(WorkspaceSet)
<1> DEFINE W == a.workspaces
           w == WorkspaceOf(a, p)
           taken == take_pane_for_move(W[w], p)
           out == leave_workspace(a, p, FALSE)
<1>1. w \in DOMAIN W /\ p \in PanesOf(W[w])
  BY WorkspaceOfIs
<1>2. out = WithWorkspace(a, w, taken)
  BY LeavesFor
<1> HIDE DEF w, out
<1>3. Half(W[w]) /\ W \in Seq(WorkspaceSet) /\ IsApp(a) /\ a.active \in DOMAIN W
  BY <1>1 DEF Attended, WorkspacesSound, Good
<1>4. Half(taken) /\ (w = a.active => focused_pane_id(taken) = focused_pane_id(W[w]))
  BY <1>1, <1>3, TakeSound, TakeFront
<1> HIDE DEF taken
<1>5. out.workspaces = Replaced(W, w, taken) /\ out.active = a.active /\ IsApp(out)
  BY <1>2, <1>3, WithWorkspaceIs
<1>6. KeepsFocus(a, out)
  BY <1>1, <1>3, <1>4, <1>5, ReplacedFocus
<1>7. out.workspaces \in Seq(WorkspaceSet)
  BY <1>1, <1>3, <1>4, <1>5, ExceptSeq DEF Half, Replaced
<1> QED
  BY <1>5, <1>6, <1>7 DEF out

\* ... when it leaves for another one and is not the last in its own,
LEMMA LeaveStays ==
  ASSUME NEW a, Attended(a), NEW p \in AllPanes(a.workspaces),
         p # focused_pane_id(a.workspaces[a.active]),
         take_pane_for_move(a.workspaces[WorkspaceOf(a, p)], p).tabs # <<>>
  PROVE  LET out == leave_workspace(a, p, TRUE)
         IN  KeepsFocus(a, out) /\ IsApp(out) /\ out.workspaces \in Seq(WorkspaceSet)
<1> DEFINE W == a.workspaces
           w == WorkspaceOf(a, p)
           taken == take_pane_for_move(W[w], p)
           x == unregister_pane(taken, p)
           X == Replaced(W, w, x)
           al == Put(a.public_pane_id_aliases, Name(W, p), p)
           out == leave_workspace(a, p, TRUE)
<1>1. w \in DOMAIN W /\ p \in PanesOf(W[w])
  BY WorkspaceOfIs
<1>2. out = [a EXCEPT !.workspaces = X, !.public_pane_id_aliases = al]
  BY Reading DEF leave_workspace, Replaced
<1> HIDE DEF w, out
<1>3. Half(W[w]) /\ W \in Seq(WorkspaceSet) /\ IsApp(a) /\ a.active \in DOMAIN W
  BY <1>1 DEF Attended, WorkspacesSound, Good
<1>4. Half(taken) /\ (w = a.active => focused_pane_id(taken) = focused_pane_id(W[w]))
  BY <1>1, <1>3, TakeSound, TakeFront
<1> HIDE DEF taken
<1>5. p \in Nat
  BY <1>1, <1>3, TabsHavePanes
<1>6. Half(x) /\ (w = a.active => focused_pane_id(x) = focused_pane_id(W[w]))
  BY <1>4, <1>5, UnregisterSound, UnregisterFront
<1> HIDE DEF x
<1>7. X \in Seq(WorkspaceSet)
  BY <1>1, <1>3, <1>6, ExceptSeq DEF Half, Replaced
<1>8. out.workspaces = X /\ out.active = a.active /\ IsApp(out)
  <2> HIDE DEF X, al
  <2> QED
    BY <1>2, <1>3 DEF IsApp
<1>9. KeepsFocus(a, out)
  BY <1>1, <1>3, <1>6, <1>8, ReplacedFocus
<1> QED
  BY <1>7, <1>8, <1>9 DEF out

\* Where a workspace is once another one has gone.
LEMMA ShiftedFront ==
  ASSUME NEW S, NEW s \in Seq(S), NEW i \in DOMAIN s, NEW w \in DOMAIN s, w # i
  PROVE  LET r == RemoveAt(s, w)
             v == shifted(i, w, Len(s) - 1)
         IN  v \in DOMAIN r /\ r[v] = s[i]
<1> DEFINE r == RemoveAt(s, w)
           v == IF i > w THEN i - 1 ELSE i
<1>1. DOMAIN s = 1..Len(s) /\ Len(s) \in Nat
  BY LenProperties
<1>2. /\ r \in Seq(S) /\ Len(r) = Len(s) - 1
      /\ \A k \in 1..(Len(s) - 1) : r[k] = IF k < w THEN s[k] ELSE s[k + 1]
  BY <1>1, ElementRemoved, Zenon
<1>3. DOMAIN r = 1..(Len(s) - 1)
  BY <1>2, LenProperties
<1>4. shifted(i, w, Len(s) - 1) = v
  BY DEF shifted
<1> HIDE DEF r
<1>5. v \in 1..(Len(s) - 1) /\ i = IF v < w THEN v ELSE v + 1
  BY <1>1
<1> HIDE DEF v
<1>6. r[v] = s[i]
  BY <1>2, <1>5
<1> QED
  BY <1>3, <1>4, <1>5, <1>6 DEF r

\* ... and when its workspace goes with it: that was not the active one.
LEMMA LeaveGoes ==
  ASSUME NEW a, Attended(a), NEW p \in AllPanes(a.workspaces),
         p # focused_pane_id(a.workspaces[a.active]),
         take_pane_for_move(a.workspaces[WorkspaceOf(a, p)], p).tabs = <<>>
  PROVE  LET out == leave_workspace(a, p, TRUE)
         IN  KeepsFocus(a, out) /\ IsApp(out) /\ out.workspaces \in Seq(WorkspaceSet)
<1> DEFINE W == a.workspaces
           w == WorkspaceOf(a, p)
           taken == take_pane_for_move(W[w], p)
           x == unregister_pane(taken, p)
           X == Replaced(W, w, x)
           Y == RemoveAt(W, w)
           left == Len(W) - 1
           v == IF left = 0 THEN None ELSE shifted(a.active, w, left)
           s == IF left = 0 THEN 1 ELSE shifted(a.selected, w, left)
           al == Put(a.public_pane_id_aliases, Name(W, p), p)
           out == leave_workspace(a, p, TRUE)
<1>1. w \in DOMAIN W /\ p \in PanesOf(W[w])
  BY WorkspaceOfIs
<1>2. out = [[a EXCEPT !.workspaces = X, !.public_pane_id_aliases = al]
               EXCEPT !.workspaces = RemoveAt(@, w),
                      !.active = IF left = 0 THEN None ELSE shifted(@, w, left),
                      !.selected = IF left = 0 THEN 1 ELSE shifted(@, w, left)]
  BY Reading DEF leave_workspace, Replaced
<1> HIDE DEF w, out
<1>3. /\ Half(W[w]) /\ W \in Seq(WorkspaceSet) /\ IsApp(a) /\ a.active \in DOMAIN W
      /\ DOMAIN W = 1..Len(W) /\ Len(W) \in Nat
  BY <1>1, LenProperties DEF Attended, WorkspacesSound, Good
<1>4. Half(taken) /\ PanesOf(taken) = PanesOf(W[w]) \ {p} /\ PanesOf(taken) = {}
  <2>1. Half(taken) /\ PanesOf(taken) = PanesOf(W[w]) \ {p}
    BY <1>1, <1>3, TakeSound
  <2>2. taken.tabs = <<>>
    BY DEF w
  <2> HIDE DEF taken
  <2> QED
    BY <2>1, <2>2, TabsHavePanes
<1>5. w # a.active
  <2>1. focused_pane_id(W[a.active]) \in PanesOf(W[a.active])
    BY <1>3, FocusedInside DEF Attended, WorkspacesSound, Good
  <2> HIDE DEF W, taken
  <2> QED
    BY <1>4, <2>1 DEF W
<1>6. p \in Nat /\ x \in WorkspaceSet
  BY <1>1, <1>3, <1>4, TabsHavePanes, UnregisterSound DEF Half
<1> HIDE DEF taken, x
<1>7. RemoveAt(X, w) = Y
  <2>1. w \in 1..Len(W) /\ W \in Seq(WorkspaceSet)
    BY <1>1, <1>3
  <2> HIDE DEF W
  <2> QED
    BY <1>6, <2>1, RemovedReplaced
<1>8. out.workspaces = Y /\ out.active = v /\ IsApp(out)
  <2> HIDE DEF X, Y, al, left
  <2> QED
    BY <1>2, <1>3, <1>7 DEF IsApp
<1>9. left # 0
  BY <1>1, <1>3, <1>5
<1>10. v \in DOMAIN Y /\ Y[v] = W[a.active] /\ Y \in Seq(WorkspaceSet)
  <2>1. w \in DOMAIN W /\ a.active \in DOMAIN W /\ W \in Seq(WorkspaceSet) /\ w \in 1..Len(W)
    BY <1>1, <1>3
  <2>2. v = shifted(a.active, w, Len(W) - 1)
    BY <1>9
  <2> HIDE DEF W, v
  <2> QED
    BY <1>5, <2>1, <2>2, ShiftedFront, ElementRemoved
<1> HIDE DEF Y, v, left
<1>11. KeepsFocus(a, out)
  BY <1>8, <1>10 DEF KeepsFocus
<1> QED
  BY <1>8, <1>10, <1>11 DEF out

\* The pane is out of its place, and the focus where it was.
LEMMA LeaveFront ==
  ASSUME NEW a, Attended(a), NEW p \in AllPanes(a.workspaces),
         p # focused_pane_id(a.workspaces[a.active]), NEW cross \in BOOLEAN
  PROVE  LET out == leave_workspace(a, p, cross)
         IN  KeepsFocus(a, out) /\ IsApp(out) /\ out.workspaces \in Seq(WorkspaceSet)
BY LeaveWithin, LeaveStays, LeaveGoes

\* The workspace to move to is found, and has its focus if it is the active one.
LEMMA LeftAgain ==
  ASSUME NEW fresh \in BOOLEAN, IInv(fresh), Attended(app), NEW p \in AllPanes(app.workspaces),
         p # focused_pane_id(app.workspaces[app.active]), NEW w \in DOMAIN app.workspaces
  PROVE  LET out == leave_workspace(app, p, WorkspaceOf(app, p) # w)
             v == IndexOfWorkspace(out, app.workspaces[w].id)
         IN  /\ v \in DOMAIN out.workspaces /\ Half(out.workspaces[v])
             /\ v = out.active => out.workspaces[v].tabs # <<>>
<1> DEFINE W == app.workspaces
           cross == WorkspaceOf(app, p) # w
           out == leave_workspace(app, p, cross)
           v == IndexOfWorkspace(out, W[w].id)
           taken == take_pane_for_move(W[w], p)
<1>1. Good(W[w]) /\ Half(W[w])
  BY DEF Attended, WorkspacesSound, Good
<1>2. CASE cross
  <2>1. out = leave_workspace(app, p, TRUE)
    BY <1>2
  <2> HIDE DEF out
  <2>2. v \in DOMAIN out.workspaces /\ out.workspaces[v] = W[w]
    BY <1>2, <2>1, OtherFoundAgain
  <2> QED
    BY <1>1, <2>2 DEF Good, out
<1>3. CASE ~cross
  <2>1. out = leave_workspace(app, p, FALSE) /\ w = WorkspaceOf(app, p)
    BY <1>3
  <2>2. out = WithWorkspace(app, w, taken)
    BY <2>1, LeavesFor
  <2>3. p \in PanesOf(W[w])
    BY <2>1, WorkspaceOfIs
  <2>4. Half(taken) /\ taken.id = W[w].id /\ PanesOf(taken) = PanesOf(W[w]) \ {p}
    BY <2>3, TakenIs
  <2> HIDE DEF out, taken
  <2>5. v = w /\ out.workspaces = Replaced(W, w, taken) /\ out.workspaces[w] = taken
    BY <2>2, <2>4, SameFoundAgain
  <2>6. out.active = app.active
    BY <2>2, WithWorkspaceIs DEF Attended
  <2>7. w = app.active => taken.tabs # <<>>
    <3>1. focused_pane_id(W[w]) \in PanesOf(W[w])
      BY <1>1, FocusedInside DEF Good
    <3>2. ASSUME w = app.active PROVE PanesOf(taken) # {}
      BY <2>4, <3>1, <3>2
    <3> QED
      BY <2>4, <3>2, TabsHavePanes
  <2>8. v \in DOMAIN out.workspaces
    BY <2>5 DEF Replaced
  <2> QED
    BY <2>4, <2>5, <2>6, <2>7, <2>8 DEF out
<1> QED
  BY <1>2, <1>3

\* A pane that arrives without `focus` changes no more than what was placed.
LEMMA ArriveFront ==
  ASSUME NEW b, IsApp(b), b.active # None, NEW p, NEW w, NEW t, arrive(b, p, w, t, FALSE)
  PROVE  app'.workspaces = b.workspaces /\ app'.active = b.active
<1> DEFINE old == public_pane_id(app, p)
           new == public_pane_id(b, p)
<1>1. app' = rekey_pane(b, old, new)
  BY DEF arrive, Becomes
<1> HIDE DEF old, new
<1> QED
  BY <1>1 DEF rekey_pane, IsApp

\* In an existing workspace,
LEMMA PlaceFront ==
  ASSUME NEW out, IsApp(out), KeepsFocus(app, out), out.workspaces \in Seq(WorkspaceSet),
         NEW v \in DOMAIN out.workspaces, NEW x,
         v = out.active => focused_pane_id(x) = focused_pane_id(out.workspaces[v]),
         NEW p, NEW t, arrive(WithWorkspace(out, v, x), p, v, t, FALSE)
  PROVE  KeepsFocus(app, app')
<1> DEFINE b == WithWorkspace(out, v, x)
<1>1. /\ IsApp(b) /\ b.active = out.active
      /\ b.workspaces = Replaced(out.workspaces, v, x)
  BY WithWorkspaceIs
<1>2. arrive(b, p, v, t, FALSE)
  OBVIOUS
<1> HIDE DEF b
<1>3. out.active \in DOMAIN out.workspaces /\ out.active # None
  BY LenProperties DEF KeepsFocus, None
<1>4. KeepsFocus(out, b)
  BY <1>1, <1>3, ReplacedFocus
<1>5. app'.workspaces = b.workspaces /\ app'.active = b.active
  BY <1>1, <1>2, <1>3, ArriveFront
<1> QED
  BY <1>4, <1>5 DEF KeepsFocus

\* as in pane.move to a new tab
LEMMA MovePaneToNewTabFocus ==
  ASSUME NEW fresh \in BOOLEAN, IInv(fresh), Attended(app), NEW p \in AllPanes(app.workspaces),
         p # focused_pane_id(app.workspaces[app.active]), NEW w \in DOMAIN app.workspaces,
         MovePaneToNewTab(p, w, FALSE)
  PROVE  KeepsFocus(app, app')
<1> DEFINE cross == WorkspaceOf(app, p) # w
           out == leave_workspace(app, p, cross)
           v == IndexOfWorkspace(out, app.workspaces[w].id)
           x == create_tab(out.workspaces[v], p)
           t == Len(WithWorkspace(out, v, x).workspaces[v].tabs)
<1>1. arrive(WithWorkspace(out, v, x), p, v, t, FALSE)
  BY DEF MovePaneToNewTab, WithWorkspace
<1> HIDE DEF t
<1>2. IsApp(out) /\ KeepsFocus(app, out) /\ out.workspaces \in Seq(WorkspaceSet)
  BY LeaveFront
<1>3. /\ v \in DOMAIN out.workspaces /\ Half(out.workspaces[v])
      /\ v = out.active => out.workspaces[v].tabs # <<>>
  BY LeftAgain
<1> HIDE DEF out, v
<1>4. v = out.active => focused_pane_id(x) = focused_pane_id(out.workspaces[v])
  BY <1>3, CreateTabFront
<1> HIDE DEF x
<1> QED
  BY <1>1, <1>2, <1>3, <1>4, PlaceFront

\* and to an existing one,
LEMMA MovePaneToTabFocus ==
  ASSUME NEW fresh \in BOOLEAN, IInv(fresh), Attended(app), NEW p \in AllPanes(app.workspaces),
         p # focused_pane_id(app.workspaces[app.active]), NEW w \in DOMAIN app.workspaces,
         NEW t, NEW target, MovePaneToTab(p, w, t, target, FALSE)
  PROVE  KeepsFocus(app, app')
<1> DEFINE cross == WorkspaceOf(app, p) # w
           out == leave_workspace(app, p, cross)
           v == IndexOfWorkspace(out, app.workspaces[w].id)
           u == CHOOSE i \in DOMAIN out.workspaces[v].tabs :
                  out.workspaces[v].tabs[i].number = app.workspaces[w].tabs[t].number
           x == split_pane(out.workspaces[v], u, target, p, FALSE)
<1>1. arrive(WithWorkspace(out, v, x), p, v, u, FALSE)
  BY Zenon DEF MovePaneToTab, WithWorkspace
<1> HIDE DEF u
<1>2. IsApp(out) /\ KeepsFocus(app, out) /\ out.workspaces \in Seq(WorkspaceSet)
  BY LeaveFront
<1>3. /\ v \in DOMAIN out.workspaces /\ Half(out.workspaces[v])
      /\ v = out.active => out.workspaces[v].tabs # <<>>
  BY LeftAgain
<1> HIDE DEF out, v
<1>4. v = out.active => focused_pane_id(x) = focused_pane_id(out.workspaces[v])
  BY <1>3, SplitFront
<1> HIDE DEF x
<1> QED
  BY <1>1, <1>2, <1>3, <1>4, PlaceFront

\* or in a new one.
LEMMA MovePaneToNewWorkspaceFocus ==
  ASSUME Attended(app), NEW p \in AllPanes(app.workspaces),
         p # focused_pane_id(app.workspaces[app.active]), MovePaneToNewWorkspace(p, FALSE)
  PROVE  KeepsFocus(app, app')
<1> DEFINE out == leave_workspace(app, p, TRUE)
           x == new_workspace(next_workspace_id, p)
           b == Pushed(out, x)
           w == Len(b.workspaces)
<1>1. arrive(b, p, w, 1, FALSE)
  BY DEF MovePaneToNewWorkspace, Pushed
<1> HIDE DEF w
<1>2. IsApp(out) /\ KeepsFocus(app, out) /\ out.workspaces \in Seq(WorkspaceSet)
  BY LeaveFront
<1> HIDE DEF out, x
<1>3. IsApp(b) /\ b.active = out.active /\ b.workspaces = Append(out.workspaces, x)
  BY <1>2, WithWorkspaceIs
<1> HIDE DEF b
<1>4. out.active \in DOMAIN out.workspaces /\ out.active # None
  BY <1>2, LenProperties DEF KeepsFocus, None
<1>5. KeepsFocus(out, b)
  BY <1>2, <1>3, <1>4, AppendedFocus
<1>6. app'.workspaces = b.workspaces /\ app'.active = b.active
  BY <1>1, <1>3, <1>4, ArriveFront
<1> QED
  BY <1>2, <1>5, <1>6 DEF KeepsFocus

-----------------------------------------------------------------------------
(* Closing something else keeps the focus, unless a workspace goes.        *)

\* What has lost an element is shorter.
LEMMA KeptShorter ==
  ASSUME NEW S, NEW s \in Seq(S), NEW gone, NEW w \in DOMAIN s, w \in gone
  PROVE  Len(Kept(s, gone)[Len(s)]) # Len(s)
<1> DEFINE left == Kept(s, gone)[Len(s)]
           D == 1..Len(s)
           T == D \ {w}
<1>1. DOMAIN s = D /\ Len(s) \in Nat
  BY LenProperties
<1>2. left \in Seq(S) /\ \E m : Picks(left, s, m) /\ Range(m) = DOMAIN s \ gone
  BY KeptPicks
<1> HIDE DEF left
<1>3. PICK m : Picks(left, s, m) /\ Range(m) = DOMAIN s \ gone
  BY <1>2
<1>4. SUFFICES ASSUME Len(left) = Len(s) PROVE FALSE
  BY DEF left
<1>5. DOMAIN left = D
  BY <1>2, <1>4, LenProperties
<1> HIDE DEF D
<1>6. m \in [D -> T]
  BY <1>1, <1>3, <1>5 DEF Picks, Range
<1>7. IsFiniteSet(D) /\ IsFiniteSet(T) /\ Cardinality(T) < Cardinality(D)
  <2>1. IsFiniteSet(D)
    BY <1>1, FS_Interval DEF D
  <2>2. IsFiniteSet(T) /\ Cardinality(T) = Cardinality(D) - 1
    BY <1>1, <2>1, FS_RemoveElement
  <2>3. Cardinality(D) \in Nat
    BY <2>1, FS_CardinalityType
  <2> HIDE DEF T
  <2> QED
    BY <2>1, <2>2, <2>3
<1> HIDE DEF T
<1>8. PICK x, y \in D : x # y /\ m[x] = m[y]
  BY ONLY <1>6, <1>7, FS_PigeonHole
<1> QED
  BY <1>3, <1>5, <1>8 DEF Picks, IsInjective

\* What is forgotten of panes changes no workspaces.
LEMMA RecordsOnly ==
  ASSUME NEW a, IsApp(a), NEW gone
  PROVE  LET c == remove_mail(remove_pane_records(a, gone), gone)
         IN  /\ "workspaces" \in DOMAIN c /\ "active" \in DOMAIN c
             /\ c.workspaces = a.workspaces /\ c.active = a.active
<1> DEFINE r == remove_pane_records(a, gone)
<1>1. /\ "workspaces" \in DOMAIN r /\ "active" \in DOMAIN r
      /\ r.workspaces = a.workspaces /\ r.active = a.active
  BY DEF remove_pane_records, IsApp
<1> HIDE DEF r
<1> QED
  BY <1>1 DEF remove_mail, r

\* A workspace that is closed is one less.
LEMMA CloseShortens ==
  ASSUME NEW a, IsApp(a), a.workspaces \in Seq(WorkspaceSet), NEW w \in DOMAIN a.workspaces
  PROVE  Len(close_workspace(a, w).workspaces) # Len(a.workspaces)
<1> DEFINE W == a.workspaces
           at == close_indices(a, w)
           gone == UNION {PanesOf(W[v]) : v \in at}
           c == remove_mail(remove_pane_records(a, gone), gone)
           X == Kept(W, at)[Len(W)]
           s == IF X = <<>> THEN 1 ELSE Smaller(w, Len(X))
           v == IF X = <<>> THEN None ELSE s
<1>1. w \in at
  BY DEF close_indices, Indices
<1>2. close_workspace(a, w) = [c EXCEPT !.workspaces = X, !.selected = s, !.active = v]
  BY DEF close_workspace
<1> HIDE DEF at
<1>3. "workspaces" \in DOMAIN c
  <2> HIDE DEF gone
  <2> QED
    BY RecordsOnly
<1>4. Len(X) # Len(W)
  <2>1. W \in Seq(WorkspaceSet) /\ w \in DOMAIN W
    OBVIOUS
  <2> HIDE DEF W
  <2> QED
    BY <1>1, <2>1, KeptShorter
<1> HIDE DEF c, X, s, v
<1>5. close_workspace(a, w).workspaces = X
  BY <1>2, <1>3
<1> QED
  BY <1>4, <1>5

\* A pane that goes alone, the focused one being still there.
LEMMA OnePaneFocus ==
  ASSUME Attended(app), NEW w \in DOMAIN app.workspaces, NEW p \in PanesOf(app.workspaces[w]),
         ~LastPane(app.workspaces[w], p), app'.active = app.active,
         app'.workspaces = Replaced(app.workspaces, w, close_pane(app.workspaces[w], p)),
         focused_pane_id(app.workspaces[app.active]) \in AllPanes(app'.workspaces)
  PROVE  KeepsFocus(app, app')
<1> DEFINE W == app.workspaces
           x == close_pane(W[w], p)
           X == Replaced(W, w, x)
<1>1. WorkspacesSound(W) /\ Good(W[w]) /\ W \in Seq(WorkspaceSet) /\ app.active \in DOMAIN W
  BY DEF Attended, WorkspacesSound
<1>2. Same(W, X, {p})
  <2>1. w \in DOMAIN W /\ p \in PanesOf(W[w]) /\ ~LastPane(W[w], p)
    OBVIOUS
  <2> HIDE DEF W
  <2> QED
    BY <1>1, <2>1, ClosePaneSound
<1>3. p # focused_pane_id(W[app.active])
  BY <1>2 DEF Same
<1>4. w = app.active => focused_pane_id(x) = focused_pane_id(W[w])
  BY <1>1, <1>3, ClosePaneFront
<1> HIDE DEF x
<1> QED
  BY <1>1, <1>4, ReplacedFocus DEF x

\* A pane whose process ended
LEMMA PaneDiedFocus ==
  ASSUME Attended(app), NEW p \in AllPanes(app.workspaces), PaneDied(p),
         focused_pane_id(app.workspaces[app.active]) \in AllPanes(app'.workspaces),
         Len(app'.workspaces) = Len(app.workspaces)
  PROVE  KeepsFocus(app, app')
<1> DEFINE W == app.workspaces
           w == WorkspaceOf(app, p)
           gone == {p}
           c == remove_mail(remove_pane_records(app, gone), gone)
           others == {id \in DOMAIN app.public_pane_id_aliases :
                        app.public_pane_id_aliases[id] # p}
           u == [c EXCEPT !.public_pane_id_aliases = [id \in others |-> @[id]]]
           left == Len(W) - 1
<1>1. app' = IF ~LastPane(W[w], p) THEN [u EXCEPT !.workspaces[w] = close_pane(@, p)]
             ELSE [u EXCEPT !.workspaces = RemoveAt(@, w),
                            !.active = IF left = 0 THEN None ELSE Smaller(@, left),
                            !.selected = IF left = 0 THEN 1 ELSE Smaller(@, left)]
  BY DEF PaneDied, Becomes
<1>2. w \in DOMAIN W /\ p \in PanesOf(W[w])
  BY WorkspaceOfIs
<1> HIDE DEF w
<1>3. W \in Seq(WorkspaceSet)
  BY DEF Attended, WorkspacesSound
<1>4. /\ "workspaces" \in DOMAIN c /\ "active" \in DOMAIN c
      /\ c.workspaces = W /\ c.active = app.active
  <2> HIDE DEF gone
  <2> QED
    BY RecordsOnly DEF Attended
<1> HIDE DEF c, others
<1>5. /\ "workspaces" \in DOMAIN u /\ "active" \in DOMAIN u
      /\ u.workspaces = W /\ u.active = app.active
  BY <1>4
<1> HIDE DEF u
<1>6. CASE ~LastPane(W[w], p)
  <2>1. app' = [u EXCEPT !.workspaces[w] = close_pane(@, p)]
    BY <1>1, <1>6
  <2>2. app'.workspaces = Replaced(W, w, close_pane(W[w], p)) /\ app'.active = app.active
    BY <1>5, <2>1 DEF Replaced
  <2> QED
    BY <1>2, <1>6, <2>2, OnePaneFocus
<1>7. CASE LastPane(W[w], p)
  <2>1. app'.workspaces = RemoveAt(W, w)
    <3> HIDE DEF left
    <3> QED
      BY <1>1, <1>5, <1>7
  <2>2. w \in 1..Len(W) /\ Len(W) \in Nat
    BY <1>2, <1>3, LenProperties
  <2>3. Len(RemoveAt(W, w)) = Len(W) - 1
    <3> HIDE DEF W
    <3> QED
      BY <1>3, <2>2, ElementRemoved
  <2> QED
    BY <2>1, <2>2, <2>3
<1> QED
  BY <1>6, <1>7

\* or that is closed,
LEMMA ClosePaneFocus ==
  ASSUME Attended(app), NEW p \in AllPanes(app.workspaces), NEW confirm \in BOOLEAN,
         ClosePane(p, confirm),
         focused_pane_id(app.workspaces[app.active]) \in AllPanes(app'.workspaces),
         Len(app'.workspaces) = Len(app.workspaces)
  PROVE  KeepsFocus(app, app')
<1> DEFINE W == app.workspaces
           w == WorkspaceOf(app, p)
           gone == {p}
           c == remove_mail(remove_pane_records(app, gone), gone)
<1>1. app' = IF confirm THEN [app EXCEPT !.selected = w]
             ELSE IF LastPane(W[w], p) THEN close_workspace(c, w)
             ELSE [c EXCEPT !.workspaces[w] = close_pane(@, p)]
  BY DEF ClosePane, Becomes
<1>2. w \in DOMAIN W /\ p \in PanesOf(W[w])
  BY WorkspaceOfIs
<1> HIDE DEF w
<1>3. W \in Seq(WorkspaceSet) /\ IsApp(app)
  BY DEF Attended, WorkspacesSound
<1>4. IsApp(c) /\ c.workspaces = W /\ c.active = app.active
  <2>1. IsApp(remove_pane_records(app, gone))
    BY <1>3 DEF remove_pane_records, IsApp
  <2>2. IsApp(c)
    <3> DEFINE r == remove_pane_records(app, gone)
               mail == [id \in DOMAIN r.mail \ {public_pane_id(r, q) : q \in gone} |-> r.mail[id]]
    <3>1. c = [r EXCEPT !.mail = mail]
      BY DEF remove_mail
    <3> HIDE DEF r, mail
    <3> QED
      BY <2>1, <3>1 DEF IsApp, r
  <2> HIDE DEF gone
  <2> QED
    BY <1>3, <2>2, RecordsOnly
<1> HIDE DEF c
<1>5. CASE confirm
  <2>1. app'.workspaces = W /\ app'.active = app.active
    BY <1>1, <1>3, <1>5 DEF IsApp
  <2> QED
    BY <2>1 DEF KeepsFocus, Attended
<1>6. CASE ~confirm /\ LastPane(W[w], p)
  BY <1>1, <1>2, <1>3, <1>4, <1>6, CloseShortens
<1>7. CASE ~confirm /\ ~LastPane(W[w], p)
  <2>1. app' = [c EXCEPT !.workspaces[w] = close_pane(@, p)]
    BY <1>1, <1>7
  <2>2. app'.workspaces = Replaced(W, w, close_pane(W[w], p)) /\ app'.active = app.active
    BY <1>4, <2>1 DEF Replaced, IsApp
  <2> QED
    BY <1>2, <1>7, <2>2, OnePaneFocus
<1> QED
  BY <1>5, <1>6, <1>7

\* and a tab that goes with its panes.
LEMMA CloseTabFocus ==
  ASSUME Attended(app), NEW w \in DOMAIN app.workspaces,
         NEW t \in DOMAIN app.workspaces[w].tabs, CloseTab(w, t),
         focused_pane_id(app.workspaces[app.active]) \in AllPanes(app'.workspaces)
  PROVE  KeepsFocus(app, app')
<1> DEFINE W == app.workspaces
           gone == ToSet(W[w].tabs[t].panes)
           c == remove_mail(remove_pane_records(app, gone), gone)
           x == close_tab(W[w], t)
           X == Replaced(W, w, x)
<1>1. Len(W[w].tabs) > 1 /\ app' = [c EXCEPT !.workspaces[w] = close_tab(@, t)]
  BY DEF CloseTab, Becomes
<1>2. WorkspacesSound(W) /\ Good(W[w]) /\ W \in Seq(WorkspaceSet) /\ app.active \in DOMAIN W
  BY DEF Attended, WorkspacesSound
<1>3. gone \in SUBSET PanesOf(W[w])
  BY DEF PanesOf
<1>4. Left(W[w], x, gone)
  BY <1>1, <1>2, CloseTabLeft, Zenon
<1>5. /\ "workspaces" \in DOMAIN c /\ "active" \in DOMAIN c
      /\ c.workspaces = W /\ c.active = app.active
  <2> HIDE DEF gone
  <2> QED
    BY RecordsOnly DEF Attended
<1> HIDE DEF c
<1>6. app'.workspaces = X /\ app'.active = app.active
  BY <1>1, <1>5 DEF Replaced
<1>7. Same(W, X, gone)
  <2>1. w \in DOMAIN W
    OBVIOUS
  <2> HIDE DEF W, x, gone
  <2> QED
    BY <1>2, <1>3, <1>4, <2>1, ReplacedSame
<1>8. focused_pane_id(W[app.active]) \notin gone
  <2> HIDE DEF X, gone
  <2> QED
    BY <1>6, <1>7 DEF Same
<1>9. w = app.active => focused_pane_id(x) = focused_pane_id(W[w])
  BY <1>2, <1>8, CloseTabFront
<1> HIDE DEF x
<1> QED
  BY <1>2, <1>6, <1>9, ReplacedFocus

\* The focus is not taken from a pane that lives on by a step that does not
\* ask for it: creations and moves of other panes without `focus`, reordering,
\* and closing something else than a workspace.
THEOREM FocusKeeps == Spec => FocusStays
<1> DEFINE Stays == (focused' # focused /\ focused \in Live(app) \cap Live(app)') => ~Unasked
<1>1. IInv(TRUE) /\ [Next]_vars => [Stays]_vars
  <2> SUFFICES ASSUME IInv(TRUE), [Next]_vars, focused \in Live(app), focused \in Live(app)', Unasked
               PROVE  focused' = focused
    OBVIOUS
  <2> DEFINE W == app.workspaces
  <2>1. /\ Live(app) = AllPanes(W) /\ Live(app)' = AllPanes(app'.workspaces)
        /\ Indices(app) = DOMAIN W /\ \A w : TabsOf(w) = DOMAIN W[w].tabs
    BY Reading DEF TabsOf, Live, Indices, AllPanes
  <2>2. Attended(app) /\ focused = focused_pane_id(W[app.active])
    BY FocusedIs
  <2>3. app'.workspaces \in Seq(WorkspaceSet)
    BY NextKeeps DEF Keeps, IInv, Sound, WorkspacesSound
  <2>4. focused_pane_id(W[app.active]) \in AllPanes(app'.workspaces)
    BY <2>1, <2>2
  <2>5. ASSUME CreateWithFocus(FALSE) PROVE KeepsFocus(app, app')
    BY <2>1, <2>2, <2>5, CreateWorkspaceFocus, OpenWorktreeFocus, CreateTabFocus, SplitPaneFocus
    DEF CreateWithFocus
  <2>6. ASSUME Reorder PROVE KeepsFocus(app, app')
    BY <2>1, <2>2, <2>6, MoveWorkspaceFocus, MoveTabFocus DEF Reorder
  <2>7. ASSUME NEW p \in Live(app) \ {focused}, MovePane(p, FALSE) PROVE KeepsFocus(app, app')
    BY <2>1, <2>2, <2>7, MovePaneToNewTabFocus, MovePaneToTabFocus, MovePaneToNewWorkspaceFocus
    DEF MovePane
  <2>8. ASSUME Len(app'.workspaces) = Len(app.workspaces), Close PROVE KeepsFocus(app, app')
    <3>1. ASSUME NEW w \in DOMAIN W, CloseWorkspace(w) PROVE FALSE
      <4>1. app' = close_workspace(app, w)
        BY <3>1 DEF CloseWorkspace, Becomes
      <4> QED
        BY <2>2, <2>8, <4>1, CloseShortens DEF Attended, WorkspacesSound
    <3> QED
      BY <2>1, <2>2, <2>4, <2>8, <3>1, PaneDiedFocus, ClosePaneFocus, CloseTabFocus DEF Close
  <2>9. KeepsFocus(app, app')
    BY <2>5, <2>6, <2>7, <2>8 DEF Unasked
  <2> QED
    BY <2>2, <2>3, <2>9, FocusedStays
<1> QED
  BY <1>1, Invariant, PTL DEF Spec, FocusStays

-----------------------------------------------------------------------------
(* The session in its files: what is under way when a server stops.        *)

\* A save writes session.json and then session-history.json.
IsSave(jobs) ==
  \/ jobs = {}
  \/ \E files : \E at \in {"session", "history"} : jobs = {[files |-> files, at |-> at]}

Types ==
  /\ disk = [session |-> disk.session, history |-> disk.history]
  /\ saves = [thread |-> saves.thread, loop |-> saves.loop]
  /\ IsSave(saves.thread) /\ IsSave(saves.loop)

\* The last save of a process is of what the session still is, and no other
\* one is under way; when it has come to the second file, the first one holds
\* what it should.
LastSave ==
  server = "saving" =>
    /\ saves.thread = {}
    /\ \A job \in saves.loop :
         /\ job.files = captured
         /\ job.at = "history" => disk.session = captured.session
    /\ saves.loop = {} /\ ~failed => disk = captured

\* Nothing is written after it.
Stopped ==
  server = "stopped" =>
    /\ saves.thread = {} /\ saves.loop = {}
    /\ ~failed => disk = captured

SavesInv == Types /\ LastSave /\ Stopped

\* A first process has written nothing.
LEMMA InitSaves == SavedInit => SavesInv
<1> SUFFICES ASSUME SavedInit PROVE SavesInv
  OBVIOUS
<1>1. Types
  BY DEF SavedInit, Types, IsSave, NoSaves
<1>2. LastSave /\ Stopped
  BY DEF SavedInit, LastSave, Stopped
<1> QED
  BY <1>1, <1>2 DEF SavesInv

\* What a stopping server would write stays what it is.
LEMMA CapturedStays ==
  ASSUME UNCHANGED <<app, who, process, keep_history>>
  PROVE  captured' = captured
BY DEF captured, capture, capture_history

\* A step while the server serves, or that ends a process or begins one.
LEMMA LivingKeeps ==
  ASSUME SavesInv, server' \notin {"saving", "stopped"},
         disk' = disk \/ disk' = [disk EXCEPT !.history = {}],
         saves' = saves \/ saves' = NoSaves
  PROVE  SavesInv'
<1>1. Types'
  <2>1. disk' = [session |-> disk'.session, history |-> disk'.history]
    BY DEF SavesInv, Types
  <2>2. /\ saves' = [thread |-> saves'.thread, loop |-> saves'.loop]
        /\ IsSave(saves'.thread) /\ IsSave(saves'.loop)
    <3>1. CASE saves' = saves
      <4>1. /\ saves = [thread |-> saves.thread, loop |-> saves.loop]
            /\ IsSave(saves.thread) /\ IsSave(saves.loop)
        BY DEF SavesInv, Types
      <4> QED
        BY <3>1, <4>1
    <3>2. CASE saves' = NoSaves
      <4>1. IsSave({})
        BY DEF IsSave
      <4>2. NoSaves.thread = {} /\ NoSaves.loop = {} /\ NoSaves = [thread |-> {}, loop |-> {}]
        BY DEF NoSaves
      <4> QED
        BY <3>2, <4>1, <4>2
    <3> QED
      BY <3>1, <3>2
  <2> QED
    BY <2>1, <2>2 DEF Types, IsSave
<1>2. LastSave' /\ Stopped'
  BY DEF LastSave, Stopped
<1> QED
  BY <1>1, <1>2 DEF SavesInv

\* A save takes the session as it is.
LEMMA SaveOnKeepsTypes ==
  ASSUME SavesInv, NEW place \in {"thread", "loop"}, SaveOn(place), disk' = disk
  PROVE  /\ Types' /\ saves'[place] = {[files |-> captured, at |-> "session"]}
         /\ place = "loop" => saves'.thread = saves.thread
<1>1. /\ saves' = [saves EXCEPT ![place] = {[files |-> captured, at |-> "session"]}]
      /\ saves = [thread |-> saves.thread, loop |-> saves.loop]
  BY DEF SaveOn, SavesInv, Types
<1>2. /\ saves' = [thread |-> saves'.thread, loop |-> saves'.loop]
      /\ saves'[place] = {[files |-> captured, at |-> "session"]}
      /\ place = "loop" => saves'.thread = saves.thread
      /\ place = "thread" => saves'.loop = saves.loop
  BY <1>1
<1>3. IsSave({[files |-> captured, at |-> "session"]})
  BY DEF IsSave
<1>4. IsSave(saves'.thread) /\ IsSave(saves'.loop)
  BY <1>2, <1>3 DEF SavesInv, Types
<1> QED
  BY <1>2, <1>4 DEF SavesInv, Types, IsSave

\* A save that is due starts while the server serves.
LEMMA StartSaveKeeps ==
  ASSUME SavesInv, start_background_session_save
  PROVE  SavesInv'
<1>1. /\ disk' = disk /\ server' = "running"
      /\ \E place \in {"thread", "loop"} : SaveOn(place)
  BY DEF start_background_session_save, life, Serving
<1>2. Types'
  BY <1>1, SaveOnKeepsTypes
<1> QED
  BY <1>1, <1>2 DEF SavesInv, LastSave, Stopped

\* The last save starts when the thread is done.
LEMMA SaveNowKeeps ==
  ASSUME SavesInv, save_session_now
  PROVE  SavesInv'
<1>1. /\ saves.thread = {} /\ SaveOn("loop") /\ disk' = disk /\ server' = "saving"
      /\ captured' = captured
  BY CapturedStays DEF save_session_now, vars, pane_vars
<1>2. /\ Types' /\ saves'.loop = {[files |-> captured, at |-> "session"]}
      /\ saves'.thread = {}
  BY <1>1, SaveOnKeepsTypes
<1>3. LastSave'
  <2>1. \A job \in saves'.loop : job = [files |-> captured, at |-> "session"]
    BY <1>2
  <2>2. \A job \in saves'.loop : job.files = captured' /\ job.at # "history"
    BY <1>1, <2>1
  <2>3. saves'.loop # {}
    BY <1>2
  <2> QED
    BY <1>2, <2>2, <2>3 DEF LastSave
<1> QED
  BY <1>1, <1>2, <1>3 DEF SavesInv, Stopped

\* A file is written; after the first one the second one is next.
LEMMA WriteKeeps ==
  ASSUME SavesInv, NEW place \in {"thread", "loop"}, Write(place)
  PROVE  SavesInv'
<1>1. PICK job \in saves[place] :
        /\ disk' = [disk EXCEPT ![job.at] = job.files[job.at]]
        /\ saves' = [saves EXCEPT ![place] =
                       IF job.at = "session" THEN {[job EXCEPT !.at = "history"]} ELSE {}]
        /\ UNCHANGED <<vars, pane_vars, life, requests, dirty, deadline,
                       failed, keep_history>>
  BY DEF Write
<1>2. PICK files : \E at \in {"session", "history"} : saves[place] = {[files |-> files, at |-> at]}
  BY <1>1 DEF SavesInv, Types, IsSave
<1>3. /\ job = [files |-> job.files, at |-> job.at] /\ job.at \in {"session", "history"}
      /\ saves[place] = {job}
  BY <1>1, <1>2
<1>4. /\ saves = [thread |-> saves.thread, loop |-> saves.loop]
      /\ disk = [session |-> disk.session, history |-> disk.history]
  BY DEF SavesInv, Types
<1>5. /\ saves' = [thread |-> saves'.thread, loop |-> saves'.loop]
      /\ job.at = "history" => saves'[place] = {}
      /\ job.at = "session" => saves'[place] = {[files |-> job.files, at |-> "history"]}
      /\ place = "loop" => saves'.thread = saves.thread
      /\ place = "thread" => saves'.loop = saves.loop
  <2> DEFINE rest == IF job.at = "session" THEN {[job EXCEPT !.at = "history"]} ELSE {}
  <2>1. saves' = [saves EXCEPT ![place] = rest]
    BY <1>1
  <2>2. /\ job.at = "history" => rest = {}
        /\ job.at = "session" => rest = {[files |-> job.files, at |-> "history"]}
    <3>1. [job EXCEPT !.at = "history"] = [files |-> job.files, at |-> "history"]
      BY <1>3
    <3> QED
      BY <3>1
  <2> HIDE DEF rest
  <2>3. /\ saves'[place] = rest
        /\ saves' = [thread |-> saves'.thread, loop |-> saves'.loop]
        /\ place = "loop" => saves'.thread = saves.thread
        /\ place = "thread" => saves'.loop = saves.loop
    BY <1>4, <2>1
  <2> QED
    BY <2>2, <2>3
<1>6. /\ disk' = [session |-> disk'.session, history |-> disk'.history]
      /\ disk'[job.at] = job.files[job.at]
      /\ job.at = "session" => disk'.history = disk.history
      /\ job.at = "history" => disk'.session = disk.session
  BY <1>1, <1>3, <1>4
<1>7. Types'
  <2>1. IsSave(saves'[place])
    BY <1>3, <1>5 DEF IsSave
  <2>2. IsSave(saves'.thread) /\ IsSave(saves'.loop)
    BY <1>5, <2>1 DEF SavesInv, Types
  <2> QED
    BY <1>5, <1>6, <2>2 DEF Types, IsSave
<1>8. captured' = captured /\ UNCHANGED <<server, failed>>
  BY <1>1, CapturedStays DEF vars, pane_vars, life
<1>9. server = "saving" => place = "loop"
  BY <1>3 DEF SavesInv, LastSave
<1>10. LastSave'
  <2> SUFFICES ASSUME server = "saving" PROVE LastSave'
    BY <1>8 DEF LastSave
  <2>1. /\ saves'.thread = {} /\ job.files = captured
        /\ job.at = "history" => disk.session = captured.session
    BY <1>3, <1>5, <1>9 DEF SavesInv, LastSave
  <2>2. CASE job.at = "session"
    <3>1. disk'.session = captured'.session
      BY <1>6, <1>8, <2>1, <2>2
    <3>2. saves'.loop = {[files |-> captured', at |-> "history"]}
      BY <1>5, <1>8, <1>9, <2>1, <2>2
    <3>3. /\ \A next \in saves'.loop : next.files = captured'
          /\ saves'.loop # {}
      BY <3>2
    <3> QED
      BY <2>1, <3>1, <3>3 DEF LastSave
  <2>3. CASE job.at = "history"
    <3>1. disk'.session = captured.session /\ disk'.history = captured.history
      BY <1>6, <2>1, <2>3
    <3>2. captured = [session |-> captured.session, history |-> captured.history]
      BY DEF captured
    <3>3. disk' = captured
      BY <1>6, <3>1, <3>2
    <3> QED
      BY <1>5, <1>8, <1>9, <2>1, <2>3, <3>3 DEF LastSave
  <2> QED
    BY <1>3, <2>2, <2>3
<1>11. Stopped'
  BY <1>3, <1>8 DEF SavesInv, Stopped
<1> QED
  BY <1>7, <1>10, <1>11 DEF SavesInv

\* A file is not written: the save ends.
LEMMA WriteFailsKeeps ==
  ASSUME SavesInv, NEW place \in {"thread", "loop"}, WriteFails(place)
  PROVE  SavesInv'
<1>1. /\ saves' = [saves EXCEPT ![place] = {}] /\ failed' = TRUE /\ disk' = disk
      /\ captured' = captured /\ server' = server /\ saves[place] # {}
  BY CapturedStays DEF WriteFails, vars, pane_vars, life
<1>2. saves = [thread |-> saves.thread, loop |-> saves.loop]
  BY DEF SavesInv, Types
<1>3. /\ saves' = [thread |-> saves'.thread, loop |-> saves'.loop]
      /\ saves'.thread \in {saves.thread, {}} /\ saves'.loop \in {saves.loop, {}}
  BY <1>1, <1>2
<1>4. Types'
  <2>1. IsSave(saves'.thread) /\ IsSave(saves'.loop)
    BY <1>3 DEF SavesInv, Types, IsSave
  <2> QED
    BY <1>1, <1>3, <2>1 DEF SavesInv, Types, IsSave
<1>5. LastSave' /\ Stopped'
  BY <1>1, <1>3 DEF SavesInv, LastSave, Stopped
<1> QED
  BY <1>4, <1>5 DEF SavesInv

\* A process ends when its last save has ended.
LEMMA ExitKeeps ==
  ASSUME SavesInv, Exit
  PROVE  SavesInv'
<1>1. /\ server = "saving" /\ saves.loop = {} /\ server' = "stopped"
      /\ captured' = captured /\ UNCHANGED <<saves, failed, disk>>
  BY CapturedStays DEF Exit, vars, pane_vars
<1> QED
  BY <1>1 DEF SavesInv, Types, LastSave, Stopped, IsSave

\* The invariant holds in every reachable state: every step keeps it.
THEOREM SavesInvariant == SavedSpec => []SavesInv
<1>1. SavesInv /\ [SavedNext]_saved_vars => SavesInv'
  <2> SUFFICES ASSUME SavesInv, [SavedNext]_saved_vars PROVE SavesInv'
    OBVIOUS
  <2>1. CASE UNCHANGED saved_vars
    BY <2>1, CapturedStays
       DEF saved_vars, vars, pane_vars, life, SavesInv, Types, IsSave, LastSave, Stopped
  <2>2. CASE Request \/ \E keep \in BOOLEAN : Reload(keep)
    <3>1. server' = "running" /\ saves' = saves
          /\ (disk' = disk \/ disk' = [disk EXCEPT !.history = {}])
      BY <2>2 DEF Request, Reload, Serving, life
    <3> QED
      BY <3>1, LivingKeeps
  <2>3. CASE sync_session_save_schedule \/ Stop
    <3>1. server' \in {"running", "stopping"} /\ saves' = saves /\ disk' = disk
      BY <2>3 DEF sync_session_save_schedule, Stop, Serving, life
    <3> QED
      BY <3>1, LivingKeeps
  <2>4. CASE Kill \/ Restart
    <3>1. server' \in {"running", "killed"} /\ saves' = NoSaves /\ disk' = disk
      BY <2>4 DEF Kill, Restart, StartEmpty, Start, StartAgain
    <3> QED
      BY <3>1, LivingKeeps
  <2>5. CASE Writing
    BY <2>5, WriteKeeps, WriteFailsKeeps DEF Writing, Writes
  <2> QED
    BY <2>1, <2>2, <2>3, <2>4, <2>5, StartSaveKeeps, SaveNowKeeps, ExitKeeps DEF SavedNext, Save
<1> QED
  BY InitSaves, <1>1, PTL DEF SavedSpec

\* A server that was stopped leaves the session it had in its files, whatever
\* saves were under way or due (save_session_now).
THEOREM NothingIsLost == SavedSpec => []StopLosesNothing
<1>1. SavesInv => StopLosesNothing
  BY DEF SavesInv, Stopped, StopLosesNothing
<1> QED
  BY SavesInvariant, <1>1, PTL

-----------------------------------------------------------------------------
(* Restoring: panes get new raw ids, and some do not come back.            *)

\* `ids` gives the panes new raw ids, and `olds` takes them back.
Renames(ids, olds, panes) == \A p \in panes : ids[p] \in Nat /\ olds[ids[p]] = p

NewIds(ids, panes, failing) == {ids[p] : p \in panes \ failing}

\* Different panes get different raw ids.
LEMMA NewIdsDiffer ==
  ASSUME NEW ids, NEW olds, NEW A, NEW B, NEW failing, Renames(ids, olds, A), Renames(ids, olds, B),
         A \cap B = {}
  PROVE  NewIds(ids, A, failing) \cap NewIds(ids, B, failing) = {}
BY DEF Renames, NewIds

\* What is left of a list.
LEMMA RestIs ==
  ASSUME NEW S, NEW s \in Seq(S), NEW gone
  PROVE  /\ Rest(s, gone) \in Seq(S) /\ ToSet(Rest(s, gone)) = ToSet(s) \ gone
         /\ \E m : Picks(Rest(s, gone), s, m)
<1> DEFINE at == {k \in DOMAIN s : s[k] \in gone}
           left == Rest(s, gone)
<1>1. left = Kept(s, at)[Len(s)]
  BY DEF Rest
<1> HIDE DEF left
<1>2. left \in Seq(S) /\ \E m : Picks(left, s, m) /\ Range(m) = DOMAIN s \ at
  <2> HIDE DEF at
  <2> QED
    BY <1>1, KeptPicks
<1>3. PICK m : Picks(left, s, m) /\ Range(m) = DOMAIN s \ at
  BY <1>2
<1>4. ToSet(left) = ToSet(s) \ gone
  <2>1. \A k \in DOMAIN left : m[k] \in DOMAIN s \ at /\ left[k] = s[m[k]]
    BY <1>3 DEF Picks, Range
  <2>2. \A l \in DOMAIN s \ at : \E k \in DOMAIN left : m[k] = l
    BY <1>3 DEF Picks, Range
  <2>3. ASSUME NEW e \in ToSet(left) PROVE e \in ToSet(s) \ gone
    BY <2>1 DEF ToSet
  <2>4. ASSUME NEW e \in ToSet(s) \ gone PROVE e \in ToSet(left)
    <3>1. PICK l \in DOMAIN s \ at : e = s[l]
      BY <2>4 DEF ToSet
    <3>2. PICK k \in DOMAIN left : m[k] = l
      BY <2>2, <3>1
    <3> QED
      BY <2>1, <3>1, <3>2 DEF ToSet
  <2> QED
    BY <2>3, <2>4
<1> QED
  BY <1>2, <1>3, <1>4 DEF left

\* A tab of which a pane started.
RestoredTab(tab, x, failing, ids) ==
  /\ TabSound(x) /\ x.number = tab.number
  /\ ToSet(x.panes) = NewIds(ids, ToSet(tab.panes), failing)
  /\ tab.focused \notin failing => x.focused = ids[tab.focused]

LEMMA TabRestored ==
  ASSUME NEW tab, TabSound(tab), NEW ids, NEW olds, Renames(ids, olds, ToSet(tab.panes)),
         NEW failing, ~(ToSet(tab.panes) \subseteq failing)
  PROVE  RestoredTab(tab, restore_tab(tab, failing, ids), failing, ids)
<1> DEFINE panes == tab.panes
           left == Rest(panes, failing)
           new == [k \in DOMAIN left |-> ids[left[k]]]
           focus == resolve_restored_pane(tab.focused, left, ids)
           root == resolve_restored_pane(tab.root_pane, left, ids)
           x == restore_tab(tab, failing, ids)
<1>1. /\ tab \in Tabs /\ panes \in Seq(Nat) /\ IsInjective(panes)
      /\ tab.root_pane \in ToSet(panes) /\ tab.focused \in ToSet(panes)
  BY DEF TabSound, Tabs
<1>2. x = [tab EXCEPT !.panes = new, !.focused = focus, !.root_pane = root]
  BY DEF restore_tab
<1>3. left \in Seq(Nat) /\ ToSet(left) = ToSet(panes) \ failing
  BY <1>1, RestIs
<1>4. PICK m : Picks(left, panes, m)
  BY <1>1, RestIs
<1> HIDE DEF left, x
<1>5. IsInjective(left)
  BY <1>1, <1>4 DEF Picks, IsInjective
<1>6. /\ DOMAIN left = 1..Len(left) /\ Len(left) \in Nat
      /\ \A k \in DOMAIN left : left[k] \in ToSet(panes)
  BY <1>3, LenProperties DEF ToSet
<1>7. new \in Seq(Nat) /\ DOMAIN new = DOMAIN left
  BY <1>6, ElementOfSeq DEF Renames
<1>8. ToSet(new) = NewIds(ids, ToSet(panes), failing)
  <2>1. ToSet(new) = {ids[left[k]] : k \in DOMAIN left}
    BY DEF ToSet
  <2>2. ToSet(left) = {left[k] : k \in DOMAIN left}
    BY DEF ToSet
  <2> HIDE DEF new, panes
  <2> QED
    BY <1>3, <2>1, <2>2 DEF NewIds
<1>9. IsInjective(new)
  BY <1>5, <1>6 DEF IsInjective, Renames
<1>10. left # <<>> /\ Head(left) \in ToSet(left)
  <2>1. DOMAIN left # {}
    BY <1>3 DEF ToSet
  <2>2. left # <<>> /\ Head(left) = left[1] /\ 1 \in DOMAIN left
    BY <1>3, <1>6, <2>1, HeadTailProperties
  <2> QED
    BY <2>2 DEF ToSet
<1>11. \A old \in ToSet(panes) :
         /\ resolve_restored_pane(old, left, ids) \in ToSet(new)
         /\ old \notin failing => resolve_restored_pane(old, left, ids) = ids[old]
  <2>1. \A p \in ToSet(left) : ids[p] \in ToSet(new)
    BY <1>3, <1>8 DEF NewIds
  <2> HIDE DEF new, panes
  <2> QED
    BY <1>3, <1>10, <2>1 DEF resolve_restored_pane
<1>12. /\ focus \in ToSet(new) /\ root \in ToSet(new)
       /\ tab.focused \notin failing => focus = ids[tab.focused]
  BY <1>1, <1>11
<1>13. ToSet(new) \subseteq Nat
  BY <1>7, LenProperties, ElementOfSeq DEF ToSet
<1> HIDE DEF new, focus, root
<1> QED
  BY <1>1, <1>2, <1>7, <1>8, <1>9, <1>12, <1>13 DEF RestoredTab, TabSound, Tabs, x

RestTabs(tabs, failing, ids) ==
  LET left == Rest(tabs, {tab \in ToSet(tabs) : ToSet(tab.panes) \subseteq failing})
  IN  [t \in DOMAIN left |-> restore_tab(left[t], failing, ids)]

\* The tabs of a workspace of which a pane started.
LEMMA TabsRestored ==
  ASSUME NEW tabs, NEW next, TabsSound(tabs, next),
         NEW ids, NEW olds, Renames(ids, olds, PanesIn(tabs)),
         NEW failing, ~(PanesIn(tabs) \subseteq failing)
  PROVE  LET new == RestTabs(tabs, failing, ids)
         IN  /\ TabsSound(new, next) /\ new # <<>>
             /\ PanesIn(new) = NewIds(ids, PanesIn(tabs), failing)
             /\ \A tab \in ToSet(tabs) : ~(ToSet(tab.panes) \subseteq failing) =>
                  \E x \in ToSet(new) : RestoredTab(tab, x, failing, ids)
             /\ \A x \in ToSet(new) : \E tab \in ToSet(tabs) : RestoredTab(tab, x, failing, ids)
<1> DEFINE gone == {tab \in ToSet(tabs) : ToSet(tab.panes) \subseteq failing}
           left == Rest(tabs, gone)
           new == [t \in DOMAIN left |-> restore_tab(left[t], failing, ids)]
<1>1. tabs \in Seq(Tabs) /\ \A t \in DOMAIN tabs : ToSet(tabs[t].panes) \subseteq PanesIn(tabs)
  BY DEF TabsSound, PanesIn
<1>2. left \in Seq(Tabs) /\ ToSet(left) = ToSet(tabs) \ gone
  BY <1>1, RestIs
<1>3. PICK m : Picks(left, tabs, m)
  BY <1>1, RestIs
<1>4. TabsSound(left, next)
  BY <1>2, <1>3, TabsPicked
<1> HIDE DEF left
<1>5. \A t \in DOMAIN left :
        /\ left[t] \in ToSet(tabs) /\ ToSet(left[t].panes) \subseteq PanesIn(tabs)
        /\ ~(ToSet(left[t].panes) \subseteq failing)
  <2>1. \A t \in DOMAIN left : left[t] \in ToSet(left)
    BY DEF ToSet
  <2>2. \A tab \in ToSet(tabs) : ToSet(tab.panes) \subseteq PanesIn(tabs)
    BY DEF ToSet, PanesIn
  <2> QED
    BY <1>2, <2>1, <2>2
<1>6. ASSUME NEW t \in DOMAIN left PROVE RestoredTab(left[t], new[t], failing, ids)
  <2>1. TabSound(left[t]) /\ Renames(ids, olds, ToSet(left[t].panes))
    BY <1>4, <1>5 DEF TabsSound, Renames
  <2> QED
    BY <1>5, <2>1, TabRestored
<1>7. DOMAIN new = DOMAIN left
  OBVIOUS
<1> HIDE DEF new, gone
<1>8. \A t \in DOMAIN new : /\ TabSound(new[t]) /\ new[t].number = left[t].number
                            /\ ToSet(new[t].panes) = NewIds(ids, ToSet(left[t].panes), failing)
  BY <1>6, <1>7 DEF RestoredTab
<1>9. TabsSound(new, next)
  <2>1. new \in Seq(Tabs)
    <3>1. new = [t \in DOMAIN left |-> new[t]]
      BY DEF new
    <3>2. DOMAIN left = 1..Len(left) /\ Len(left) \in Nat
      BY <1>2, LenProperties
    <3>3. \A t \in 1..Len(left) : new[t] \in Tabs
      BY <1>7, <1>8, <3>2 DEF TabSound
    <3> QED
      BY <3>1, <3>2, <3>3
  <2>2. \A t \in DOMAIN new : new[t].number \in 1..(next - 1)
    BY <1>4, <1>7, <1>8 DEF TabsSound
  <2>3. ASSUME NEW t \in DOMAIN new, NEW u \in DOMAIN new, t # u
        PROVE  /\ new[t].number # new[u].number
               /\ ToSet(new[t].panes) \cap ToSet(new[u].panes) = {}
    <3>1. /\ left[t].number # left[u].number
          /\ ToSet(left[t].panes) \cap ToSet(left[u].panes) = {}
      BY <1>4, <1>7, <2>3 DEF TabsSound
    <3>2. Renames(ids, olds, ToSet(left[t].panes)) /\ Renames(ids, olds, ToSet(left[u].panes))
      BY <1>5, <1>7 DEF Renames
    <3> QED
      BY <1>8, <3>1, <3>2, NewIdsDiffer
  <2> QED
    BY <1>8, <2>1, <2>2, <2>3 DEF TabsSound
<1>10. PanesIn(new) = NewIds(ids, PanesIn(tabs), failing)
  <2>1. ASSUME NEW q \in PanesIn(new) PROVE q \in NewIds(ids, PanesIn(tabs), failing)
    <3>1. PICK t \in DOMAIN new : q \in NewIds(ids, ToSet(left[t].panes), failing)
      BY <1>8 DEF PanesIn
    <3> QED
      BY <1>5, <1>7, <3>1 DEF NewIds
  <2>2. ASSUME NEW p \in PanesIn(tabs) \ failing PROVE ids[p] \in PanesIn(new)
    <3>1. PICK tab \in ToSet(tabs) : p \in ToSet(tab.panes)
      BY DEF PanesIn, ToSet
    <3>2. tab \in ToSet(left)
      BY <1>2, <3>1 DEF gone
    <3>3. PICK t \in DOMAIN left : tab = left[t]
      BY <3>2 DEF ToSet
    <3>4. ids[p] \in ToSet(new[t].panes)
      BY <1>7, <1>8, <3>1, <3>3 DEF NewIds
    <3> QED
      BY <1>7, <3>3, <3>4 DEF PanesIn
  <2> QED
    BY <2>1, <2>2 DEF NewIds
<1>11. new # <<>>
  <2>1. PICK p \in PanesIn(tabs) : p \notin failing
    OBVIOUS
  <2>2. ids[p] \in PanesIn(new)
    BY <1>10, <2>1 DEF NewIds
  <2>3. DOMAIN <<>> = {}
    OBVIOUS
  <2> QED
    BY <2>2, <2>3 DEF PanesIn
<1>12. \A tab \in ToSet(tabs) : ~(ToSet(tab.panes) \subseteq failing) =>
         \E x \in ToSet(new) : RestoredTab(tab, x, failing, ids)
  <2> TAKE tab \in ToSet(tabs)
  <2> HAVE ~(ToSet(tab.panes) \subseteq failing)
  <2>1. tab \in ToSet(left)
    BY <1>2 DEF gone
  <2>2. PICK t \in DOMAIN left : tab = left[t]
    BY <2>1 DEF ToSet
  <2>3. new[t] \in ToSet(new)
    BY <1>7 DEF ToSet
  <2> QED
    BY <1>6, <2>2, <2>3
<1>13. \A x \in ToSet(new) : \E tab \in ToSet(tabs) : RestoredTab(tab, x, failing, ids)
  BY <1>5, <1>6, <1>7 DEF ToSet
<1> QED
  BY <1>9, <1>10, <1>11, <1>12, <1>13 DEF new, left, gone, RestTabs

\* A workspace of which a pane started.
RestoredWorkspace(ws, x, failing, ids) ==
  /\ Good(x) /\ x.id = ws.id
  /\ PanesOf(x) = NewIds(ids, PanesOf(ws), failing)
  /\ \A p \in PanesOf(ws) \ failing : x.public_pane_numbers[ids[p]] = ws.public_pane_numbers[p]
  /\ \A tab \in ToSet(ws.tabs) : ~(ToSet(tab.panes) \subseteq failing) =>
       \E y \in ToSet(x.tabs) : RestoredTab(tab, y, failing, ids)
  /\ \A y \in ToSet(x.tabs) : \E tab \in ToSet(ws.tabs) : RestoredTab(tab, y, failing, ids)

LEMMA WorkspaceRestored ==
  ASSUME NEW ws, Good(ws), NEW snapshot,
         Renames(id_map(snapshot), reverse_id_map(snapshot), PanesOf(ws)),
         NEW failing, ~(PanesOf(ws) \subseteq failing)
  PROVE  RestoredWorkspace(ws, restore_workspace(ws, failing, snapshot), failing, id_map(snapshot))
<1> DEFINE ids == id_map(snapshot)
           olds == reverse_id_map(snapshot)
           next == ws.next_public_tab_number
           new == RestTabs(ws.tabs, failing, ids)
           with == [ws EXCEPT !.tabs = new]
           alive == NewIds(ids, PanesOf(ws), failing)
           numbers == restored_numbers(ws, alive, olds)
           active == Smaller(ws.active_tab, Len(new))
           x == restore_workspace(ws, failing, snapshot)
<1>1. /\ Half(ws) /\ ws \in WorkspaceSet /\ TabsSound(ws.tabs, next) /\ NumbersSound(ws)
      /\ PanesOf(ws) = PanesIn(ws.tabs) /\ ws.active_tab \in 1..Len(ws.tabs)
      /\ DOMAIN ws.public_pane_numbers = PanesOf(ws)
  BY TabsHavePanes DEF Good, Half
<1>2. /\ TabsSound(new, next) /\ new # <<>> /\ PanesIn(new) = alive
      /\ \A tab \in ToSet(ws.tabs) : ~(ToSet(tab.panes) \subseteq failing) =>
           \E y \in ToSet(new) : RestoredTab(tab, y, failing, ids)
      /\ \A y \in ToSet(new) : \E tab \in ToSet(ws.tabs) : RestoredTab(tab, y, failing, ids)
  <2>1. /\ TabsSound(ws.tabs, next) /\ Renames(ids, olds, PanesIn(ws.tabs))
        /\ ~(PanesIn(ws.tabs) \subseteq failing) /\ PanesOf(ws) = PanesIn(ws.tabs)
    BY <1>1
  <2> HIDE DEF ids, olds, next
  <2> QED
    BY ONLY <2>1, TabsRestored
<1>3. with.tabs = new /\ PanesOf(with) = alive
  <2>1. with.tabs = new
    BY <1>1 DEF WorkspaceSet
  <2> HIDE DEF with, new, alive
  <2> QED
    BY <1>2, <2>1 DEF PanesOf, PanesIn
<1>4. x = [with EXCEPT !.active_tab = active, !.public_pane_numbers = numbers]
  <2>1. x = [with EXCEPT !.active_tab = Smaller(@, Len(with.tabs)),
                         !.public_pane_numbers = restored_numbers(ws, PanesOf(with), olds)]
    BY DEF restore_workspace, RestTabs
  <2>2. with.active_tab = ws.active_tab
    BY <1>1 DEF WorkspaceSet
  <2> HIDE DEF x, with, new, alive
  <2> QED
    BY <1>3, <2>1, <2>2
<1> HIDE DEF new, ids, olds, next
<1>5. /\ active \in 1..Len(new) /\ DOMAIN new = 1..Len(new) /\ new \in Seq(Tabs)
  <2>1. new \in Seq(Tabs) /\ Len(new) \in Nat \ {0} /\ DOMAIN new = 1..Len(new)
    BY <1>2, LenProperties, EmptySeq DEF TabsSound
  <2> QED
    BY <1>1, <2>1 DEF Smaller
<1>6. \A q \in alive : \E p \in PanesOf(ws) \ failing : q = ids[p] /\ olds[q] = p
  BY DEF NewIds, Renames, ids, olds
<1>7. /\ DOMAIN numbers = alive /\ \A q \in alive : numbers[q] = ws.public_pane_numbers[olds[q]]
  BY DEF restored_numbers
<1>8. numbers \in Partial(Nat, Nat)
  <2>1. alive \subseteq Nat
    BY DEF NewIds, Renames, ids
  <2>2. \A p \in PanesOf(ws) : ws.public_pane_numbers[p] \in Nat
    <3>1. ws.public_pane_numbers \in Partial(Nat, Nat)
      BY <1>1 DEF WorkspaceSet
    <3> QED
      BY <1>1, <3>1, PartialMap
  <2>3. \A q \in alive : ws.public_pane_numbers[olds[q]] \in Nat
    BY <1>6, <2>2
  <2>4. numbers \in [alive -> Nat]
    BY <2>3 DEF restored_numbers
  <2> HIDE DEF numbers, alive
  <2> QED
    BY <1>7, <2>1, <2>4, PartialMap
<1>9. \A p \in PanesOf(ws) \ failing :
        ids[p] \in alive /\ numbers[ids[p]] = ws.public_pane_numbers[p]
  <2>1. \A p \in PanesOf(ws) \ failing : ids[p] \in alive /\ olds[ids[p]] = p
    BY DEF NewIds, Renames, ids, olds
  <2> HIDE DEF alive, numbers
  <2> QED
    BY <1>7, <2>1
<1>10. /\ IsInjective(numbers)
       /\ \A q \in DOMAIN numbers : numbers[q] \in 1..(ws.next_public_pane_number - 1)
  <2> HIDE DEF numbers, alive
  <2>1. ASSUME NEW q \in alive, NEW r \in alive, numbers[q] = numbers[r] PROVE q = r
    <3>1. PICK p \in PanesOf(ws) \ failing : q = ids[p] /\ olds[q] = p
      BY <1>6
    <3>2. PICK o \in PanesOf(ws) \ failing : r = ids[o] /\ olds[r] = o
      BY <1>6
    <3>3. p = o
      BY <1>1, <1>7, <2>1, <3>1, <3>2 DEF NumbersSound, IsInjective
    <3> QED
      BY <3>1, <3>2, <3>3
  <2>2. \A q \in alive : numbers[q] \in 1..(ws.next_public_pane_number - 1)
    BY <1>1, <1>6, <1>7 DEF NumbersSound
  <2> QED
    BY <1>7, <2>1, <2>2 DEF IsInjective
<1> HIDE DEF numbers, active
<1>11. /\ x \in WorkspaceSet /\ x.id = ws.id /\ x.tabs = new /\ x.active_tab = active
       /\ x.public_pane_numbers = numbers /\ x.next_public_pane_number = ws.next_public_pane_number
       /\ x.next_public_tab_number = next
  <2>1. /\ with \in WorkspaceSet /\ with.id = ws.id /\ with.tabs = new
        /\ with.next_public_pane_number = ws.next_public_pane_number
        /\ with.next_public_tab_number = ws.next_public_tab_number
    BY <1>1, <1>5 DEF WorkspaceSet
  <2>2. active \in Nat
    BY <1>5
  <2> HIDE DEF alive, with, new
  <2> QED
    BY <1>4, <1>8, <2>1, <2>2 DEF WorkspaceSet, next
<1> HIDE DEF x, alive
<1>12. PanesOf(x) = alive
  BY <1>2, <1>11 DEF PanesOf, PanesIn
<1>13. Good(x)
  BY <1>2, <1>5, <1>7, <1>10, <1>11, <1>12, TabsHavePanes DEF Good, Half, NumbersSound
<1>14. RestoredWorkspace(ws, x, failing, ids)
  BY <1>2, <1>9, <1>11, <1>12, <1>13 DEF RestoredWorkspace, alive
<1> QED
  BY <1>14 DEF x, ids

\* The panes of a snapshot, one behind the other, and their new raw ids.
LEMMA OldIds ==
  ASSUME NEW saved, WorkspacesSound(saved.workspaces)
  PROVE  LET olds == reverse_id_map(saved)
             ids == id_map(saved)
             panes == AllPanes(saved.workspaces)
         IN  /\ olds \in Seq(Nat) /\ IsInjective(olds) /\ ToSet(olds) = panes
             /\ SavedPanes(saved) = panes /\ Renames(ids, olds, panes)
             /\ \A p \in panes : ids[p] \in DOMAIN olds
             /\ \A k \in DOMAIN olds : ids[olds[k]] = k /\ olds[k] \in panes
<1> DEFINE W == saved.workspaces
           Layouts(w) == [t \in DOMAIN W[w].tabs |-> W[w].tabs[t].panes]
           lists == [w \in DOMAIN W |-> FlattenSeq(Layouts(w))]
           olds == reverse_id_map(saved)
           ids == id_map(saved)
<1>1. DOMAIN W = 1..Len(W) /\ Len(W) \in Nat
  BY LenProperties DEF WorkspacesSound
<1>2. ASSUME NEW w \in DOMAIN W
      PROVE  /\ FlattenSeq(Layouts(w)) \in Seq(Nat) /\ IsInjective(FlattenSeq(Layouts(w)))
             /\ ToSet(FlattenSeq(Layouts(w))) = PanesOf(W[w])
  <2> DEFINE ss == Layouts(w)
             tabs == W[w].tabs
  <2>1. Half(W[w]) /\ \A t \in DOMAIN tabs : TabSound(tabs[t])
    BY DEF WorkspacesSound, Good, Half, TabsSound
  <2>2. DOMAIN tabs = 1..Len(tabs) /\ Len(tabs) \in Nat
    BY <2>1, TabsHavePanes
  <2>3. DOMAIN ss = DOMAIN tabs /\ \A t \in DOMAIN tabs : ss[t] = tabs[t].panes
    OBVIOUS
  <2>4. ss \in Seq(Seq(Nat))
    <3>1. \A t \in 1..Len(tabs) : tabs[t].panes \in Seq(Nat)
      BY <2>1, <2>2 DEF TabSound, Tabs
    <3>2. ss = [t \in 1..Len(tabs) |-> tabs[t].panes]
      BY <2>2
    <3> HIDE DEF ss
    <3> QED
      BY <2>2, <3>1, <3>2
  <2>5. \A t \in DOMAIN ss : IsInjective(ss[t])
    BY <2>1, <2>3 DEF TabSound
  <2>6. \A t, u \in DOMAIN ss : t # u => ToSet(ss[t]) \cap ToSet(ss[u]) = {}
    BY <2>3 DEF WorkspacesSound, Good, Half, TabsSound
  <2>7. PanesOf(W[w]) = UNION {ToSet(ss[t]) : t \in DOMAIN ss}
    BY <2>3 DEF PanesOf
  <2> HIDE DEF ss
  <2>8. /\ FlattenSeq(ss) \in Seq(Nat) /\ IsInjective(FlattenSeq(ss))
        /\ ToSet(FlattenSeq(ss)) = PanesOf(W[w])
    BY <2>4, <2>5, <2>6, <2>7, FlattenedSet
  <2> QED
    BY <2>8 DEF ss
<1> HIDE DEF Layouts
<1>3. /\ DOMAIN lists = DOMAIN W
      /\ \A w \in DOMAIN W : /\ lists[w] \in Seq(Nat) /\ IsInjective(lists[w])
                             /\ ToSet(lists[w]) = PanesOf(W[w])
  BY <1>2
<1>4. lists \in Seq(Seq(Nat))
  <2>1. lists = [w \in 1..Len(W) |-> lists[w]]
    BY <1>1
  <2>2. \A w \in 1..Len(W) : lists[w] \in Seq(Nat)
    BY <1>1, <1>3
  <2>3. Len(W) \in Nat
    BY <1>1
  <2> HIDE DEF lists, W
  <2> QED
    BY ONLY <2>1, <2>2, <2>3
<1>5. olds = FlattenSeq(lists)
  BY DEF reverse_id_map, Layouts
<1> HIDE DEF lists, olds
<1>6. \A v, w \in DOMAIN lists : v # w => ToSet(lists[v]) \cap ToSet(lists[w]) = {}
  BY <1>3 DEF WorkspacesSound
<1>7. AllPanes(W) = UNION {ToSet(lists[w]) : w \in DOMAIN lists}
  BY <1>3 DEF AllPanes
<1>8. olds \in Seq(Nat) /\ IsInjective(olds) /\ ToSet(olds) = AllPanes(W)
  BY <1>3, <1>4, <1>5, <1>6, <1>7, FlattenedSet
<1>9. DOMAIN olds \subseteq Nat
  BY <1>8, LenProperties
<1>10. ids = [p \in Range(olds) |-> CHOOSE k \in DOMAIN olds : p \in Range(olds) => olds[k] = p]
  BY DEF id_map, AntiFunction, Inverse, olds
<1>11. Range(olds) = AllPanes(W)
  BY <1>8 DEF Range, ToSet
<1> HIDE DEF ids
<1>12. \A p \in AllPanes(W) : ids[p] \in DOMAIN olds /\ olds[ids[p]] = p
  BY <1>10, <1>11 DEF Range
<1>13. \A k \in DOMAIN olds : olds[k] \in AllPanes(W) /\ ids[olds[k]] = k
  <2> TAKE k \in DOMAIN olds
  <2>1. olds[k] \in AllPanes(W)
    BY <1>11 DEF Range
  <2> QED
    BY <1>8, <1>12, <2>1 DEF IsInjective
<1>14. SavedPanes(saved) = AllPanes(W)
  BY <1>8 DEF SavedPanes, olds
<1> QED
  BY <1>8, <1>9, <1>12, <1>13, <1>14 DEF Renames, olds, ids

\* What a process finds of a snapshot.
LEMMA SessionRestored ==
  ASSUME NEW saved, WorkspacesSound(saved.workspaces), NEW failing, NEW unlinked
  PROVE  LET X == restore(saved, failing, unlinked)
             W == saved.workspaces
             ids == id_map(saved)
         IN  /\ WorkspacesSound(X) /\ AllPanes(X) = NewIds(ids, AllPanes(W), failing)
             /\ \A ws \in ToSet(W) : ~(PanesOf(ws) \subseteq failing) =>
                  \E x \in ToSet(X) : RestoredWorkspace(ws, x, failing, ids)
             /\ \A x \in ToSet(X) : \E ws \in ToSet(W) : RestoredWorkspace(ws, x, failing, ids)
<1> DEFINE W == saved.workspaces
           X == restore(saved, failing, unlinked)
           ids == id_map(saved)
           olds == reverse_id_map(saved)
           gone == {ws \in ToSet(W) : PanesOf(ws) \subseteq failing}
           left == Rest(W, gone)
           Back(ws) == [restore_workspace(ws, failing, saved) EXCEPT
                          !.space = IF ws.id \in unlinked THEN "none" ELSE @]
<1>1. W \in Seq(WorkspaceSet) /\ Renames(ids, olds, AllPanes(W))
  BY OldIds DEF WorkspacesSound
<1>2. X = [w \in DOMAIN left |-> Back(left[w])]
  BY DEF restore
<1>3. left \in Seq(WorkspaceSet) /\ ToSet(left) = ToSet(W) \ gone
  BY <1>1, RestIs
<1>4. PICK m : Picks(left, W, m)
  BY <1>1, RestIs
<1>5. WorkspacesSound(left)
  <2> HIDE DEF left, W
  <2> QED
    BY <1>3, <1>4, WorkspacesPicked DEF Same, W
<1> HIDE DEF left, X, ids, olds
<1>6. \A ws \in ToSet(W) : PanesOf(ws) \subseteq AllPanes(W) /\ Good(ws)
  BY DEF ToSet, AllPanes, WorkspacesSound
<1>7. \A w \in DOMAIN left : left[w] \in ToSet(W) /\ ~(PanesOf(left[w]) \subseteq failing)
  <2>1. \A w \in DOMAIN left : left[w] \in ToSet(left)
    BY DEF ToSet
  <2> QED
    BY <1>3, <2>1
<1>8. ASSUME NEW w \in DOMAIN left PROVE RestoredWorkspace(left[w], X[w], failing, ids)
  <2> DEFINE ws == left[w]
             y == restore_workspace(ws, failing, saved)
             space == IF ws.id \in unlinked THEN "none" ELSE y.space
  <2>1. Good(ws) /\ Renames(ids, olds, PanesOf(ws)) /\ ~(PanesOf(ws) \subseteq failing)
    BY <1>1, <1>6, <1>7 DEF Renames
  <2>2. RestoredWorkspace(ws, y, failing, ids)
    <3> HIDE DEF ws
    <3> QED
      BY <2>1, WorkspaceRestored DEF ids, olds
  <2>3. X[w] = [y EXCEPT !.space = space]
    BY <1>2
  <2>4. space \in {"none", "main", "linked"}
    BY <2>2 DEF RestoredWorkspace, Good, Half, WorkspaceSet
  <2> HIDE DEF y, space, ws
  <2>5. Good(y)
    BY <2>2 DEF RestoredWorkspace
  <2>6. LET x == [y EXCEPT !.space = space] IN Left(y, x, {}) /\ x.tabs = y.tabs
    BY ONLY <2>4, <2>5, SpaceGood
  <2>7. Left(y, X[w], {}) /\ X[w].tabs = y.tabs
    BY <2>3, <2>6
  <2>8. PanesOf(X[w]) = PanesOf(y)
    BY <2>7 DEF Left
  <2>9. \A p \in PanesOf(ws) \ failing : ids[p] \in PanesOf(y)
    BY <2>2 DEF RestoredWorkspace, NewIds
  <2>10. RestoredWorkspace(ws, X[w], failing, ids)
    BY <2>2, <2>7, <2>8, <2>9 DEF RestoredWorkspace, Left
  <2> QED
    BY <2>10 DEF ws
<1>9. DOMAIN X = DOMAIN left
  BY <1>2
<1>10. WorkspacesSound(X)
  <2>1. X \in Seq(WorkspaceSet)
    <3>1. DOMAIN left = 1..Len(left) /\ Len(left) \in Nat
      BY <1>3, LenProperties
    <3>2. \A w \in 1..Len(left) : X[w] \in WorkspaceSet
      BY <1>8, <3>1 DEF RestoredWorkspace, Good, Half
    <3>3. X = [w \in 1..Len(left) |-> X[w]]
      BY <1>2, <3>1
    <3> QED
      BY <3>1, <3>2, <3>3
  <2>2. \A w \in DOMAIN X : Good(X[w])
    BY <1>8, <1>9 DEF RestoredWorkspace
  <2>3. ASSUME NEW v \in DOMAIN X, NEW w \in DOMAIN X, v # w
        PROVE  X[v].id # X[w].id /\ PanesOf(X[v]) \cap PanesOf(X[w]) = {}
    <3>1. left[v].id # left[w].id /\ PanesOf(left[v]) \cap PanesOf(left[w]) = {}
      BY <1>5, <1>9, <2>3 DEF WorkspacesSound
    <3>2. /\ RestoredWorkspace(left[v], X[v], failing, ids)
          /\ RestoredWorkspace(left[w], X[w], failing, ids)
      BY <1>8, <1>9
    <3>3. Renames(ids, olds, PanesOf(left[v])) /\ Renames(ids, olds, PanesOf(left[w]))
      BY <1>1, <1>6, <1>7, <1>9 DEF Renames
    <3>4. NewIds(ids, PanesOf(left[v]), failing) \cap NewIds(ids, PanesOf(left[w]), failing) = {}
      BY <3>1, <3>3, NewIdsDiffer
    <3> QED
      BY <3>1, <3>2, <3>4 DEF RestoredWorkspace
  <2> QED
    BY <2>1, <2>2, <2>3 DEF WorkspacesSound
<1>11. AllPanes(X) = NewIds(ids, AllPanes(W), failing)
  <2>1. ASSUME NEW q \in AllPanes(X) PROVE q \in NewIds(ids, AllPanes(W), failing)
    <3>1. PICK w \in DOMAIN X : q \in PanesOf(X[w])
      BY DEF AllPanes
    <3>2. q \in NewIds(ids, PanesOf(left[w]), failing)
      BY <1>8, <1>9, <3>1 DEF RestoredWorkspace
    <3>3. PanesOf(left[w]) \subseteq AllPanes(W)
      BY <1>6, <1>7, <1>9
    <3> QED
      BY <3>2, <3>3 DEF NewIds
  <2>2. ASSUME NEW p \in AllPanes(W) \ failing PROVE ids[p] \in AllPanes(X)
    <3>1. PICK ws \in ToSet(W) : p \in PanesOf(ws)
      BY DEF AllPanes, ToSet
    <3>2. ws \in ToSet(left)
      BY <1>3, <3>1
    <3>3. PICK w \in DOMAIN left : ws = left[w]
      BY <3>2 DEF ToSet
    <3>4. ids[p] \in PanesOf(X[w])
      BY <1>8, <3>1, <3>3 DEF RestoredWorkspace, NewIds
    <3> QED
      BY <1>9, <3>4 DEF AllPanes
  <2> QED
    BY <2>1, <2>2 DEF NewIds
<1>12. ASSUME NEW ws \in ToSet(W), ~(PanesOf(ws) \subseteq failing)
       PROVE  \E x \in ToSet(X) : RestoredWorkspace(ws, x, failing, ids)
  <2>1. ws \in ToSet(left)
    BY <1>3, <1>12
  <2>2. PICK w \in DOMAIN left : ws = left[w]
    BY <2>1 DEF ToSet
  <2>3. X[w] \in ToSet(X)
    BY <1>9 DEF ToSet
  <2> QED
    BY <1>8, <2>2, <2>3
<1>13. \A x \in ToSet(X) : \E ws \in ToSet(W) : RestoredWorkspace(ws, x, failing, ids)
  BY <1>7, <1>8, <1>9 DEF ToSet
<1> QED
  BY <1>10, <1>11, <1>12, <1>13 DEF X, ids

\* Some id is the greatest one in use.
LEMMA GreatestId ==
  ASSUME NEW W, WorkspacesSound(W), \A w \in DOMAIN W : W[w].id \in Nat
  PROVE  NextId(W) \in Nat \ {0} /\ \A w \in DOMAIN W : W[w].id \in Nat /\ W[w].id < NextId(W)
<1> DEFINE Ids(n) == {0} \cup {W[w].id : w \in {v \in DOMAIN W : v <= n}}
           Bounded(n) == \E m \in Ids(n) : \A i \in Ids(n) : m >= i
           S == {n \in Nat : Bounded(n)}
           ids == {0} \cup {W[w].id : w \in DOMAIN W}
<1>1. Len(W) \in Nat /\ DOMAIN W = 1..Len(W)
  BY LenProperties DEF WorkspacesSound
<1>2. \A n : Ids(n) \subseteq Nat
  OBVIOUS
<1>3. Bounded(0)
  <2>1. {v \in DOMAIN W : v <= 0} = {}
    BY <1>1
  <2>2. Ids(0) = {0}
    BY <2>1
  <2> QED
    BY <2>2
<1>4. ASSUME NEW n \in Nat, Bounded(n) PROVE Bounded(n + 1)
  <2>1. PICK m \in Ids(n) : \A i \in Ids(n) : m >= i
    BY <1>4
  <2>2. CASE n + 1 \in DOMAIN W
    <3> DEFINE new == W[n + 1].id
    <3>1. {v \in DOMAIN W : v <= n + 1} = {v \in DOMAIN W : v <= n} \cup {n + 1}
      BY <1>1, <2>2
    <3>2. Ids(n + 1) = Ids(n) \cup {new}
      BY <3>1
    <3>3. new \in Nat /\ m \in Nat
      BY <1>2, <2>1, <2>2
    <3> HIDE DEF Ids, new
    <3>4. CASE m >= new
      BY <2>1, <3>2, <3>4
    <3>5. CASE new >= m
      <4>1. \A i \in Ids(n) : new >= i
        BY <1>2, <2>1, <3>3, <3>5
      <4> QED
        BY <3>2, <3>3, <4>1
    <3> QED
      BY <3>3, <3>4, <3>5
  <2>3. CASE n + 1 \notin DOMAIN W
    <3>1. {v \in DOMAIN W : v <= n + 1} = {v \in DOMAIN W : v <= n}
      BY <1>1, <2>3
    <3>2. Ids(n + 1) = Ids(n)
      BY <3>1
    <3> QED
      BY <1>4, <3>2
  <2> QED
    BY <2>2, <2>3
<1>5. Bounded(Len(W))
  <2> HIDE DEF Bounded
  <2>1. 0 \in S /\ \A n \in Nat : n \in S => n + 1 \in S
    BY <1>3, <1>4
  <2> HIDE DEF S
  <2>2. Nat \subseteq S
    BY <2>1, SetInduction
  <2> QED
    BY <1>1, <2>2 DEF S
<1>6. Ids(Len(W)) = ids
  <2>1. {v \in DOMAIN W : v <= Len(W)} = DOMAIN W
    BY <1>1
  <2> QED
    BY <2>1
<1>7. \E m \in ids : \A i \in ids : m >= i
  BY <1>5, <1>6
<1>8. Max(ids) \in ids /\ \A i \in ids : Max(ids) >= i
  <2> HIDE DEF ids
  <2> QED
    BY <1>7 DEF Max
<1>9. NextId(W) = 1 + Max(ids)
  BY DEF NextId
<1>10. ids \subseteq Nat /\ \A w \in DOMAIN W : W[w].id \in ids
  OBVIOUS
<1> HIDE DEF ids
<1>11. Max(ids) \in Nat
  BY <1>8, <1>10
<1> QED
  BY <1>8, <1>9, <1>10, <1>11

\* What a process begins with satisfies the invariant.
LEMMA BecomeKeeps ==
  ASSUME NEW W, WorkspacesSound(W), \A w \in DOMAIN W : W[w].id \in Nat \ {0},
         NEW active \in Nat, NEW selected \in Nat, W # <<>> => selected # 0,
         Become(W, active, selected), next_pane_id' \in Nat \ {0},
         AllPanes(W) \subseteq PaneIds(next_pane_id')
  PROVE  IInv(FALSE)' /\ app'.workspaces = W
<1> DEFINE a == app'
           n == NextId(W)
           none == <<>>
<1>1. /\ a.workspaces = W /\ IsApp(a) /\ a.previous_pane_focus = NoTarget
      /\ a.public_pane_id_aliases = none /\ a.mail = none
      /\ a.active = (IF active <= Len(W) THEN active ELSE None)
      /\ a.selected = (IF Len(W) = 0 THEN 1 ELSE Smaller(selected, Len(W)))
      /\ next_workspace_id' = n /\ told' = {}
      /\ owner' = [id \in public_pane_ids(a) |-> pane_with_id(a, id)]
  BY DEF Become, IsApp
<1>2. n \in Nat \ {0} /\ \A w \in DOMAIN W : W[w].id \in 1..(n - 1)
  <2>1. n \in Nat \ {0} /\ \A w \in DOMAIN W : W[w].id \in Nat /\ W[w].id < n
    BY GreatestId
  <2> QED
    BY <2>1
<1>3. Len(W) \in Nat /\ DOMAIN W = 1..Len(W) /\ (Len(W) # 0 => W # <<>>)
  BY LenProperties, EmptySeq DEF WorkspacesSound
<1>4. a.active \in {None} \cup DOMAIN W /\ a.selected \in {1} \cup DOMAIN W
  BY <1>1, <1>3 DEF None, Smaller
<1>5. Sound(a, n)
  BY <1>1, <1>2, <1>4 DEF Sound, Targets
<1>6. DOMAIN none = {} /\ none = [id \in {} |-> none[id]]
  OBVIOUS
<1> HIDE DEF a, n, none
<1>7. DOMAIN owner' = {Name(W, p) : p \in AllPanes(W)}
  <2>1. public_pane_ids(a) = {Name(W, p) : p \in AllPanes(W)}
    <3>1. WorkspacesSound(a.workspaces) /\ a.workspaces = W
      BY <1>1
    <3>2. public_pane_ids(a) = {Name(a.workspaces, p) : p \in AllPanes(a.workspaces)}
      BY <3>1, PublicIds
    <3> QED
      BY <3>1, <3>2
  <2> QED
    BY <1>1, <2>1
<1>8. \A p \in AllPanes(W) : owner'[Name(W, p)] = p
  <2>1. \A p \in AllPanes(W) : owner'[Name(W, p)] = pane_with_id(a, Name(W, p))
    BY <1>1, <1>7
  <2> QED
    BY <1>1, <2>1, PaneWithId
<1>9. OwnerSound(W, n, next_pane_id', owner')
  <2>1. \A p \in AllPanes(W) :
          /\ Reserved(W, n, Name(W, p)) /\ Name(W, p).number \in Nat \ {0}
          /\ Name(W, p) = [workspace |-> Name(W, p).workspace, number |-> Name(W, p).number]
    <3>1. \A p : Name(W, p) = [workspace |-> Name(W, p).workspace, number |-> Name(W, p).number]
      BY DEF Name
    <3> QED
      BY <1>2, <3>1, NameReserved
  <2> QED
    BY <1>7, <1>8, <2>1 DEF OwnerSound
<1>10. AliasesSound(W, owner', none)
  BY <1>6, <1>7, <1>8 DEF AliasesSound
<1>11. MailSound(W, none, {})
  BY <1>6 DEF MailSound
<1>12. Counters'
  BY <1>1, <1>2 DEF Counters, a
<1>13. Settled(FALSE, a)
  BY DEF Settled
<1> QED
  BY <1>1, <1>5, <1>9, <1>10, <1>11, <1>12, <1>13 DEF IInv, a

-----------------------------------------------------------------------------
(* The session in memory and in the files, over any number of processes.   *)

\* The panes behind raw ids, created by the first n processes.
WhoSound(f, panes, n) ==
  /\ DOMAIN f = panes /\ IsInjective(f)
  /\ \A p \in panes : f[p][1] \in 1..n

\* Raw ids are given once in a process: a pane of this process has the one it
\* was created with.
Memory ==
  /\ IInv(FALSE) /\ process \in Nat \ {0}
  /\ WhoSound(who, AllPanes(app.workspaces), process)
  /\ \A p \in AllPanes(app.workspaces) : who[p][1] = process => who[p] = <<process, p>>

\* A session in a file, or about to be written, of one of the first n processes.
SessionSound(x, n) ==
  /\ x.process \in 1..n /\ x.workspaces # <<>> /\ WorkspacesSound(x.workspaces)
  /\ \A w \in DOMAIN x.workspaces : x.workspaces[w].id \in Nat \ {0}
  /\ x.active \in {None} \cup DOMAIN x.workspaces
  /\ x.selected \in {1} \cup DOMAIN x.workspaces
  /\ WhoSound(x.who, AllPanes(x.workspaces), n)

FilesSound(files, n) ==
  /\ \A x \in files.session : SessionSound(x, n)
  /\ \A x, y \in files.session : x = y

\* One save at a time.
Files ==
  /\ FilesSound(disk, process)
  /\ \A place \in {"thread", "loop"} : \A job \in saves[place] : FilesSound(job.files, process)
  /\ saves.thread = {} \/ saves.loop = {}

Switches ==
  /\ server \in {"running", "stopping", "saving", "stopped", "killed"}
  /\ {dirty, deadline, failed, keep_history} \subseteq BOOLEAN

SavedInv == Memory /\ Files /\ Switches

\* What does not touch the session.
LEMMA MemoryStays ==
  ASSUME Memory, UNCHANGED <<vars, who, process>>
  PROVE  Memory'
<1>1. IInv(FALSE)'
  BY DEF Memory, vars, IInv, Counters
<1> QED
  BY <1>1 DEF Memory, vars

\* What neither begins a save nor writes.
LEMMA FilesStay ==
  ASSUME Files, UNCHANGED <<disk, saves, process>>
  PROVE  Files'
BY DEF Files

\* A first process has an empty session and no files.
LEMMA InitSaved ==
  ASSUME SavedInit
  PROVE  SavedInv
<1>1. IInv(FALSE)
  BY InitIInv DEF SavedInit
<1>2. AllPanes(app.workspaces) = {} /\ DOMAIN who = {} /\ process = 1
  BY DEF SavedInit, Init, AllPanes
<1>3. Memory
  <2>1. WhoSound(who, {}, process)
    BY <1>2 DEF WhoSound, IsInjective
  <2>2. process \in Nat \ {0} /\ \A p \in AllPanes(app.workspaces) : FALSE
    BY <1>2
  <2> QED
    BY <1>1, <1>2, <2>1, <2>2 DEF Memory
<1>4. Files
  BY DEF SavedInit, Files, FilesSound, NoSaves
<1>5. Switches
  BY DEF SavedInit, Switches
<1> QED
  BY <1>3, <1>4, <1>5 DEF SavedInv

\* What a save takes is sound.
LEMMA CapturedSound ==
  ASSUME Memory
  PROVE  FilesSound(captured, process)
<1> DEFINE W == app.workspaces
<1>1. CASE W = <<>>
  BY <1>1 DEF captured, FilesSound
<1>2. CASE W # <<>>
  <2>1. captured.session = {capture}
    BY <1>2 DEF captured
  <2>2. /\ capture.workspaces = W /\ capture.active = app.active
        /\ capture.selected = app.selected /\ capture.who = who /\ capture.process = process
    BY DEF capture
  <2>3. /\ WorkspacesSound(W) /\ \A w \in DOMAIN W : W[w].id \in 1..(next_workspace_id - 1)
        /\ app.active \in {None} \cup DOMAIN W /\ app.selected \in {1} \cup DOMAIN W
        /\ next_workspace_id \in Nat
    BY DEF Memory, IInv, Sound, Counters
  <2>4. \A w \in DOMAIN W : W[w].id \in Nat \ {0}
    BY <2>3
  <2>5. process \in 1..process /\ WhoSound(who, AllPanes(W), process)
    BY DEF Memory
  <2>6. SessionSound(capture, process)
    BY <1>2, <2>2, <2>3, <2>4, <2>5 DEF SessionSound
  <2> QED
    BY <2>1, <2>6 DEF FilesSound
<1> QED
  BY <1>1, <1>2

\* A request: new panes get raw ids that no pane of this process has had.
LEMMA RequestSaved ==
  ASSUME SavedInv, Request
  PROVE  SavedInv'
<1> DEFINE W == app.workspaces
           X == app'.workspaces
<1>1. /\ Next /\ who' = [p \in Live(app') |-> Get(who, p, <<process, p>>)]
      /\ UNCHANGED <<server, process, deadline, saves, failed, keep_history, disk>>
      /\ dirty' \in {TRUE, dirty}
  BY DEF Request, life
<1>2. IInv(FALSE)'
  BY <1>1, NextKeeps DEF Keeps, SavedInv, Memory
<1>3. Live(app') = AllPanes(X)
  BY Reading
<1>4. /\ process \in Nat \ {0} /\ DOMAIN who = AllPanes(W) /\ IsInjective(who)
      /\ \A p \in AllPanes(W) : who[p][1] \in 1..process
      /\ \A p \in AllPanes(W) : who[p][1] = process => who[p] = <<process, p>>
  BY DEF SavedInv, Memory, WhoSound
<1>5. \A p \in AllPanes(X) : \/ p \in AllPanes(W) /\ who'[p] = who[p]
                             \/ p \notin AllPanes(W) /\ who'[p] = <<process, p>>
  BY <1>1, <1>3, <1>4 DEF Get
<1>6. DOMAIN who' = AllPanes(X)
  BY <1>1, <1>3
<1> HIDE DEF W, X
<1>7. \A p \in AllPanes(X) : who'[p][1] \in 1..process
  BY <1>4, <1>5
<1>8. \A p \in AllPanes(X) : who'[p][1] = process => who'[p] = <<process, p>>
  BY <1>4, <1>5
<1>9. IsInjective(who')
  <2> SUFFICES ASSUME NEW p \in AllPanes(X), NEW q \in AllPanes(X), who'[p] = who'[q]
               PROVE  p = q
    BY <1>6 DEF IsInjective
  <2>1. CASE who'[p][1] = process
    <3>1. <<process, p>> = <<process, q>>
      BY <1>8, <2>1
    <3> QED
      BY <3>1
  <2>2. CASE who'[p][1] # process
    <3>1. p \in AllPanes(W) /\ q \in AllPanes(W) /\ who[p] = who[q]
      BY <1>5, <2>2
    <3> QED
      BY <1>4, <3>1 DEF IsInjective
  <2> QED
    BY <2>1, <2>2
<1>10. Memory'
  BY <1>1, <1>2, <1>4, <1>6, <1>7, <1>8, <1>9 DEF Memory, WhoSound, X
<1>11. Files'
  BY <1>1, FilesStay DEF SavedInv
<1>12. Switches'
  BY <1>1 DEF SavedInv, Switches
<1> QED
  BY <1>10, <1>11, <1>12 DEF SavedInv

\* The history file may go, the session stays.
LEMMA ReloadSaved ==
  ASSUME SavedInv, NEW keep \in BOOLEAN, Reload(keep), Types
  PROVE  SavedInv'
<1>1. /\ disk'.session = disk.session /\ keep_history' \in BOOLEAN
      /\ UNCHANGED <<vars, who, server, process, dirty, deadline, saves, failed>>
  BY DEF Reload, Types, pane_vars, life
<1>2. Memory'
  BY <1>1, MemoryStays DEF SavedInv
<1>3. Files'
  BY <1>1 DEF SavedInv, Files, FilesSound
<1>4. Switches'
  BY <1>1 DEF SavedInv, Switches
<1> QED
  BY <1>2, <1>3, <1>4 DEF SavedInv

\* A save begins, when there is none.
LEMMA SaveOnFiles ==
  ASSUME Memory, Files, Types, NEW place \in {"thread", "loop"}, SaveOn(place),
         saves.thread = {}, place = "thread" => saves.loop = {}, UNCHANGED <<disk, process>>
  PROVE  Files'
<1> DEFINE job == [files |-> captured, at |-> "session"]
<1>1. FilesSound(captured, process)
  BY CapturedSound
<1>2. /\ saves' = [saves EXCEPT ![place] = {job}]
      /\ saves = [thread |-> saves.thread, loop |-> saves.loop]
  BY DEF SaveOn, Types
<1>3. job.files = captured
  OBVIOUS
<1> HIDE DEF job
<1>4. /\ saves'[place] = {job}
      /\ place = "loop" => saves'.thread = saves.thread
      /\ place = "thread" => saves'.loop = saves.loop
  BY <1>2
<1>5. \A other \in {"thread", "loop"} : \A x \in saves'[other] : FilesSound(x.files, process)
  BY <1>1, <1>3, <1>4 DEF Files
<1> QED
  BY <1>4, <1>5 DEF Files

\* Saves are scheduled and begun.
LEMMA SaveSaved ==
  ASSUME SavedInv, Types, Save
  PROVE  SavedInv'
<1>1. /\ UNCHANGED <<vars, who, process, keep_history, disk>>
      /\ server' \in {server, "saving"} /\ dirty' \in {dirty, FALSE}
      /\ deadline' \in BOOLEAN /\ failed' \in {failed, FALSE}
  BY DEF Save, sync_session_save_schedule, start_background_session_save, save_session_now,
         pane_vars, life
<1>2. Memory'
  BY <1>1, MemoryStays DEF SavedInv
<1>3. Files'
  <2>1. CASE sync_session_save_schedule
    BY <1>1, <2>1, FilesStay DEF sync_session_save_schedule, SavedInv
  <2>2. CASE start_background_session_save
    <3>1. saves.thread = {} /\ saves.loop = {} /\ \E place \in {"thread", "loop"} : SaveOn(place)
      BY <2>2 DEF start_background_session_save, Serving
    <3> QED
      BY <1>1, <3>1, SaveOnFiles DEF SavedInv
  <2>3. CASE save_session_now
    <3>1. saves.thread = {} /\ SaveOn("loop")
      BY <2>3 DEF save_session_now
    <3> QED
      BY <1>1, <3>1, SaveOnFiles DEF SavedInv
  <2> QED
    BY <2>1, <2>2, <2>3 DEF Save
<1>4. Switches'
  BY <1>1 DEF SavedInv, Switches
<1> QED
  BY <1>2, <1>3, <1>4 DEF SavedInv

\* A file takes what the save has for it, or stays what it is.
LEMMA WritingSaved ==
  ASSUME SavedInv, Types, Writing
  PROVE  SavedInv'
<1>1. PICK place \in {"thread", "loop"} : Write(place) \/ WriteFails(place)
  BY DEF Writing, Writes
<1>2. /\ UNCHANGED <<vars, who, server, process, dirty, deadline, keep_history>>
      /\ failed' \in {failed, TRUE}
  BY <1>1 DEF Write, WriteFails, pane_vars, life
<1>3. Memory'
  BY <1>2, MemoryStays DEF SavedInv
<1>4. /\ saves = [thread |-> saves.thread, loop |-> saves.loop]
      /\ disk = [session |-> disk.session, history |-> disk.history]
  BY DEF Types
<1>5. ASSUME WriteFails(place) PROVE Files'
  <2>1. disk' = disk /\ saves' = [saves EXCEPT ![place] = {}]
    BY <1>5 DEF WriteFails
  <2>2. \A other \in {"thread", "loop"} : saves'[other] \in {saves[other], {}}
    BY <1>4, <2>1
  <2> QED
    BY <1>2, <2>1, <2>2 DEF SavedInv, Files
<1>6. ASSUME Write(place) PROVE Files'
  <2>1. PICK job \in saves[place] :
          /\ disk' = [disk EXCEPT ![job.at] = job.files[job.at]]
          /\ saves' = [saves EXCEPT ![place] =
                         IF job.at = "session" THEN {[job EXCEPT !.at = "history"]} ELSE {}]
    BY <1>6 DEF Write
  <2>2. PICK files : \E at \in {"session", "history"} :
                       saves[place] = {[files |-> files, at |-> at]}
    BY <2>1 DEF Types, IsSave
  <2>3. job = [files |-> job.files, at |-> job.at] /\ job.at \in {"session", "history"}
    BY <2>1, <2>2
  <2>4. disk'.session \in {disk.session, job.files.session}
    BY <1>4, <2>1, <2>3
  <2> DEFINE next == IF job.at = "session" THEN {[job EXCEPT !.at = "history"]} ELSE {}
  <2>5. \A x \in next : x.files = job.files
    BY <2>3
  <2>6. saves' = [saves EXCEPT ![place] = next]
    BY <2>1
  <2> HIDE DEF next
  <2>7. \A other \in {"thread", "loop"} :
          saves'[other] = saves[other] \/ (other = place /\ saves'[other] = next)
    BY <1>4, <2>6
  <2>8. FilesSound(job.files, process)
    BY <2>1 DEF SavedInv, Files
  <2>9. FilesSound(disk', process)
    BY <2>4, <2>8 DEF SavedInv, Files, FilesSound
  <2>10. \A other \in {"thread", "loop"} : \A x \in saves'[other] : FilesSound(x.files, process)
    BY <2>5, <2>7, <2>8 DEF SavedInv, Files
  <2>11. saves[place] # {}
    BY <2>1
  <2>12. saves'.thread = {} \/ saves'.loop = {}
    BY <2>7, <2>11 DEF SavedInv, Files
  <2> QED
    BY <1>2, <2>9, <2>10, <2>12 DEF Files
<1>7. Switches'
  BY <1>2 DEF SavedInv, Switches
<1> QED
  BY <1>1, <1>3, <1>5, <1>6, <1>7 DEF SavedInv

\* A server stops or exits.
LEMMA EndSaved ==
  ASSUME SavedInv, Stop \/ Exit
  PROVE  SavedInv'
<1>1. /\ UNCHANGED <<vars, who, process, dirty, deadline, saves, failed, keep_history, disk>>
      /\ server' \in {"stopping", "stopped"}
  BY DEF Stop, Exit, pane_vars
<1>2. Memory' /\ Files'
  BY <1>1, MemoryStays, FilesStay DEF SavedInv
<1>3. Switches'
  BY <1>1 DEF SavedInv, Switches
<1> QED
  BY <1>2, <1>3 DEF SavedInv

\* Sessions of the first processes are sessions of the first and some more.
LEMMA MoreProcesses ==
  ASSUME NEW files, NEW n \in Nat, FilesSound(files, n)
  PROVE  FilesSound(files, n + 1)
<1>1. 1..n \subseteq 1..(n + 1)
  OBVIOUS
<1> QED
  BY <1>1 DEF FilesSound, SessionSound, WhoSound

\* Nothing is under way when a process was killed, and nothing when the next
\* one begins.
LEMMA BeginsWithFiles ==
  ASSUME SavedInv, saves' = NoSaves, UNCHANGED <<keep_history, disk>>,
         process' \in {process, process + 1}, server' \in {"running", "killed"},
         dirty' = FALSE, deadline' = FALSE, failed' = FALSE
  PROVE  Files' /\ Switches'
<1>1. FilesSound(disk, process')
  BY MoreProcesses DEF SavedInv, Memory, Files
<1>2. Files'
  BY <1>1 DEF Files, NoSaves
<1> QED
  BY <1>2 DEF SavedInv, Switches

\* An empty session.
LEMMA EmptyMemory ==
  ASSUME Memory, Become(<<>>, None, 1), next_pane_id' = 1, who' = <<>>,
         process' \in {process, process + 1}
  PROVE  Memory'
<1> DEFINE none == <<>>
<1>1. DOMAIN none = {} /\ none \in Seq(WorkspaceSet)
  OBVIOUS
<1>2. Become(none, None, 1) /\ who' = none /\ None \in Nat /\ 1 \in Nat /\ 1 # 0
  BY DEF None
<1> HIDE DEF none
<1>3. WorkspacesSound(none) /\ AllPanes(none) = {}
  BY <1>1 DEF WorkspacesSound, AllPanes
<1>4. IInv(FALSE)' /\ app'.workspaces = none
  <2>1. next_pane_id' \in Nat \ {0} /\ AllPanes(none) \subseteq PaneIds(next_pane_id')
    BY <1>3
  <2>2. \A w \in DOMAIN none : none[w].id \in Nat \ {0}
    BY <1>1
  <2> QED
    BY <1>2, <1>3, <2>1, <2>2, BecomeKeeps
<1>5. process' \in Nat \ {0}
  BY DEF Memory
<1> QED
  BY <1>1, <1>2, <1>3, <1>4, <1>5 DEF Memory, WhoSound, IsInjective

\* A server is killed: what it had in memory is gone, the files are there.
LEMMA KillSaved ==
  ASSUME SavedInv, Kill
  PROVE  SavedInv'
BY EmptyMemory, BeginsWithFiles DEF Kill, SavedInv

\* A process that finds no session begins with an empty one.
LEMMA StartEmptySaved ==
  ASSUME SavedInv, StartEmpty
  PROVE  SavedInv'
BY EmptyMemory, BeginsWithFiles DEF StartEmpty, StartAgain, SavedInv

\* The session of a file, with the panes that start under new raw ids.
LEMMA StartSaved ==
  ASSUME SavedInv, NEW saved \in disk.session, NEW failing, NEW unlinked,
         Start(saved, failing, unlinked)
  PROVE  SavedInv'
<1> DEFINE W == saved.workspaces
           X == restore(saved, failing, unlinked)
           olds == reverse_id_map(saved)
           ids == id_map(saved)
           alive == {p \in DOMAIN olds : olds[p] \notin failing}
<1>1. SessionSound(saved, process)
  BY DEF SavedInv, Files, FilesSound
<1>2. /\ StartAgain /\ Become(X, saved.active, saved.selected)
      /\ next_pane_id' = Len(olds) + 1 /\ who' = [p \in alive |-> saved.who[olds[p]]]
  BY DEF Start
<1>3. Files' /\ Switches' /\ process' = process + 1
  BY <1>2, BeginsWithFiles DEF StartAgain
<1>4. /\ WorkspacesSound(W) /\ saved.active \in {None} \cup DOMAIN W
      /\ saved.selected \in {1} \cup DOMAIN W
      /\ \A w \in DOMAIN W : W[w].id \in Nat \ {0}
  BY <1>1 DEF SessionSound
<1>5. /\ olds \in Seq(Nat) /\ IsInjective(olds)
      /\ \A p \in AllPanes(W) : ids[p] \in DOMAIN olds
      /\ \A k \in DOMAIN olds : ids[olds[k]] = k /\ olds[k] \in AllPanes(W)
      /\ Renames(ids, olds, AllPanes(W))
  BY <1>4, OldIds
<1>6. /\ WorkspacesSound(X) /\ AllPanes(X) = NewIds(ids, AllPanes(W), failing)
      /\ \A x \in ToSet(X) : \E ws \in ToSet(W) : RestoredWorkspace(ws, x, failing, ids)
  BY <1>4, SessionRestored
<1> HIDE DEF olds, ids, X
<1>7. AllPanes(X) = alive
  BY <1>5, <1>6 DEF NewIds, Renames
<1>8. DOMAIN olds = 1..Len(olds) /\ Len(olds) \in Nat
  BY <1>5, LenProperties
<1>9. \A w \in DOMAIN X : X[w].id \in Nat \ {0}
  <2> TAKE w \in DOMAIN X
  <2>1. X[w] \in ToSet(X)
    BY DEF ToSet
  <2>2. PICK ws \in ToSet(W) : X[w].id = ws.id
    BY <1>6, <2>1 DEF RestoredWorkspace
  <2>3. PICK v \in DOMAIN W : ws = W[v]
    BY DEF ToSet
  <2> QED
    BY <1>4, <2>2, <2>3
<1>10. IInv(FALSE)' /\ app'.workspaces = X
  <2>1. DOMAIN W \subseteq Nat \ {0}
    BY <1>4, LenProperties DEF WorkspacesSound
  <2>2. saved.active \in Nat /\ saved.selected \in Nat \ {0}
    BY <1>4, <2>1 DEF None
  <2>3. next_pane_id' \in Nat \ {0} /\ AllPanes(X) \subseteq PaneIds(next_pane_id')
    BY <1>2, <1>7, <1>8 DEF PaneIds
  <2> QED
    BY <1>2, <1>6, <1>9, <2>2, <2>3, BecomeKeeps
<1>11. /\ process \in Nat \ {0} /\ IsInjective(saved.who) /\ DOMAIN saved.who = AllPanes(W)
       /\ \A p \in AllPanes(W) : saved.who[p][1] \in 1..process
  BY <1>1 DEF SavedInv, Memory, SessionSound, WhoSound
<1>12. DOMAIN who' = alive /\ \A p \in alive : who'[p] = saved.who[olds[p]] /\ olds[p] \in AllPanes(W)
  BY <1>2, <1>5
<1>13. \A p \in alive : who'[p][1] \in 1..(process + 1) /\ who'[p][1] # process + 1
  <2>1. \A n \in 1..process : n \in 1..(process + 1) /\ n # process + 1
    BY <1>11
  <2> HIDE DEF alive
  <2> QED
    BY <1>11, <1>12, <2>1
<1>14. IsInjective(who')
  BY <1>5, <1>11, <1>12 DEF IsInjective
<1>15. Memory'
  <2>1. process + 1 \in Nat \ {0}
    BY <1>11
  <2> HIDE DEF alive
  <2> QED
    BY <1>3, <1>7, <1>10, <1>12, <1>13, <1>14, <2>1 DEF Memory, WhoSound
<1> QED
  BY <1>3, <1>15 DEF SavedInv

\* The invariant gives the types, and what the files hold can be restored.
LEMMA SavedTypesFollow ==
  ASSUME SavedInv, Types
  PROVE  SavedTypeOK
<1> DEFINE W == app.workspaces
<1>1. /\ WorkspacesSound(W) /\ \A w \in DOMAIN W : W[w].id \in 1..(next_workspace_id - 1)
      /\ app.active \in {None} \cup DOMAIN W /\ app.selected \in {1} \cup DOMAIN W
      /\ next_workspace_id \in Nat /\ AllPanes(W) \subseteq 1..(next_pane_id - 1)
  BY DEF SavedInv, Memory, IInv, Sound, Counters, PaneIds
<1>2. \A w \in DOMAIN W : WorkspaceInvariant(W[w]) /\ W[w].id < next_workspace_id
  <2>1. \A w \in DOMAIN W : WorkspaceInvariant(W[w])
    BY <1>1, GoodIsInvariant DEF WorkspacesSound
  <2>2. \A w \in DOMAIN W : W[w].id < next_workspace_id
    BY <1>1
  <2> QED
    BY <2>1, <2>2
<1>3. Live(app) = AllPanes(W)
  BY Reading
<1>4. DOMAIN who = AllPanes(W) /\ IsInjective(who)
  BY DEF SavedInv, Memory, WhoSound
<1>5. \A place \in {"thread", "loop"} : \A job \in saves[place] : job.at \in {"session", "history"}
  BY DEF Types, IsSave
<1>6. ASSUME NEW x \in disk.session PROVE Snapshot(x)
  <2>1. SessionSound(x, process)
    BY DEF SavedInv, Files, FilesSound
  <2>2. SavedPanes(x) = AllPanes(x.workspaces)
    BY <2>1, OldIds DEF SessionSound
  <2> QED
    BY <2>1, <2>2 DEF SessionSound, WhoSound, Snapshot
<1> QED
  BY <1>1, <1>2, <1>3, <1>4, <1>5, <1>6 DEF SavedTypeOK, SavedInv, Switches, Files

\* Over any number of stops, crashes and restarts the session is sound in
\* memory, in the file and in the saves under way.
THEOREM SavedSound == SavedSpec => []SavedInv
<1>1. SavedInit => SavedInv
  BY InitSaved
<1>2. SavesInv /\ SavedInv /\ [SavedNext]_saved_vars => SavedInv'
  <2> SUFFICES ASSUME Types, SavedInv, [SavedNext]_saved_vars PROVE SavedInv'
    BY DEF SavesInv
  <2>1. CASE UNCHANGED saved_vars
    <3>1. Memory' /\ Files'
      BY <2>1, MemoryStays, FilesStay DEF SavedInv, saved_vars, pane_vars, life
    <3>2. Switches'
      BY <2>1 DEF SavedInv, Switches, saved_vars, life
    <3> QED
      BY <3>1, <3>2 DEF SavedInv
  <2>2. CASE Restart
    BY <2>2, StartEmptySaved, StartSaved DEF Restart
  <2> QED
    BY <2>1, <2>2, RequestSaved, ReloadSaved, SaveSaved, WritingSaved, EndSaved, KillSaved
    DEF SavedNext
<1> QED
  BY <1>1, <1>2, SavesInvariant, PTL DEF SavedSpec

\* The workspaces are well formed after every restart, whichever panes do not
\* start (restore_workspace, restore_tab), and so is what every save writes.
THEOREM SavedTypes == SavedSpec => []SavedTypeOK
<1>1. SavesInv /\ SavedInv => SavedTypeOK
  BY SavedTypesFollow DEF SavesInv
<1> QED
  BY <1>1, SavesInvariant, SavedSound, PTL

-----------------------------------------------------------------------------
(* What a process shows of the session it began with.                      *)

\* A list of which nothing goes.
LEMMA RestIsAll ==
  ASSUME NEW S, NEW s \in Seq(S), NEW gone, \A k \in DOMAIN s : s[k] \notin gone
  PROVE  Rest(s, gone) = s
<1> DEFINE at == {k \in DOMAIN s : s[k] \in gone}
           K == Kept(s, at)
           Sofar(n) == K[n] \in Seq(S) /\ Len(K[n]) = n /\ \A k \in 1..n : K[n][k] = s[k]
           Reached == {n \in Nat : n <= Len(s) => Sofar(n)}
<1>1. /\ Len(s) \in Nat /\ DOMAIN s = 1..Len(s) /\ \A n \in 1..Len(s) : s[n] \in S
      /\ at = {}
  BY LenProperties
<1>2. K[0] = <<>> /\ \A n \in 1..Len(s) : K[n] = Append(K[n - 1], s[n])
  <2>1. /\ K[0] = <<>>
        /\ \A n \in 1..Len(s) : K[n] = IF n \in at THEN K[n - 1] ELSE Append(K[n - 1], s[n])
    <3> HIDE DEF at
    <3> QED
      BY KeptIs
  <2> HIDE DEF at, K
  <2> QED
    BY <1>1, <2>1
<1> HIDE DEF at, K
<1>3. 0 \in Reached
  <2>1. <<>> \in Seq(S) /\ Len(<<>>) = 0 /\ 1..0 = {}
    OBVIOUS
  <2>2. Sofar(0)
    BY <1>2, <2>1
  <2> HIDE DEF Sofar
  <2> QED
    BY <2>2
<1>4. ASSUME NEW n \in Nat, n \in Reached PROVE n + 1 \in Reached
  <2> SUFFICES ASSUME n + 1 <= Len(s) PROVE Sofar(n + 1)
    OBVIOUS
  <2>1. Sofar(n) /\ n + 1 \in 1..Len(s) /\ K[n + 1] = Append(K[n], s[n + 1])
    BY <1>1, <1>2, <1>4
  <2>2. /\ K[n + 1] \in Seq(S) /\ Len(K[n + 1]) = n + 1
        /\ K[n + 1][n + 1] = s[n + 1] /\ \A k \in 1..n : K[n + 1][k] = K[n][k]
    BY <1>1, <2>1, AppendProperties
  <2> QED
    BY <2>1, <2>2
<1>5. Sofar(Len(s))
  <2>1. Nat \subseteq Reached
    <3>1. \A n \in Nat : n \in Reached => n + 1 \in Reached
      BY <1>4
    <3> HIDE DEF Reached
    <3> QED
      BY <1>3, <3>1, SetInduction
  <2> QED
    BY <1>1, <2>1
<1>6. K[Len(s)] = s
  BY <1>1, <1>5, SeqEqual
<1> QED
  BY <1>6 DEF Rest, K, at

\* The places of panes, one by one.
LEMMA PlacesAre ==
  ASSUME NEW W, NEW panes, NEW e
  PROVE  e \in Places(W, panes) <=>
           \E ws \in ToSet(W) : \E tab \in ToSet(ws.tabs) : \E p \in panes \cap ToSet(tab.panes) :
             e = Place(ws, tab, p)
BY DEF Places

\* ... and the focuses of their tabs.
LEMMA FocusesAre ==
  ASSUME NEW W, NEW panes, NEW e
  PROVE  e \in Focuses(W, panes) <=>
           \E ws \in ToSet(W) : \E tab \in ToSet(ws.tabs) :
             tab.focused \in panes /\ e = Place(ws, tab, tab.focused)
BY DEF Focuses

\* The panes that started are in the places they had, and have the focus there
\* if they had it.
LEMMA PlacesRestored ==
  ASSUME NEW saved, WorkspacesSound(saved.workspaces), NEW failing, NEW unlinked
  PROVE  LET X == restore(saved, failing, unlinked)
             W == saved.workspaces
             started == AllPanes(W) \ failing
         IN  /\ Places(X, AllPanes(X)) = Places(W, started)
             /\ Focuses(W, started) \subseteq Focuses(X, AllPanes(X))
<1> DEFINE W == saved.workspaces
           X == restore(saved, failing, unlinked)
           ids == id_map(saved)
           started == AllPanes(W) \ failing
<1>1. /\ AllPanes(X) = NewIds(ids, AllPanes(W), failing)
      /\ \A ws \in ToSet(W) : ~(PanesOf(ws) \subseteq failing) =>
           \E x \in ToSet(X) : RestoredWorkspace(ws, x, failing, ids)
      /\ \A x \in ToSet(X) : \E ws \in ToSet(W) : RestoredWorkspace(ws, x, failing, ids)
  BY SessionRestored
<1> HIDE DEF X, ids
<1>2. ASSUME NEW ws \in ToSet(W), NEW tab \in ToSet(ws.tabs), NEW p \in ToSet(tab.panes)
      PROVE  p \in PanesOf(ws) /\ p \in AllPanes(W) /\ TabSound(tab)
  <2>1. PICK w \in DOMAIN W : ws = W[w]
    BY DEF ToSet
  <2>2. PICK t \in DOMAIN ws.tabs : tab = ws.tabs[t]
    BY DEF ToSet
  <2>3. TabSound(tab)
    BY <2>1, <2>2 DEF WorkspacesSound, Good, Half, TabsSound
  <2> QED
    BY <2>1, <2>2, <2>3 DEF PanesOf, AllPanes
<1>3. ASSUME NEW ws \in ToSet(W), NEW tab \in ToSet(ws.tabs), NEW p \in ToSet(tab.panes) \ failing
      PROVE  \E x \in ToSet(X) : \E y \in ToSet(x.tabs) :
               /\ RestoredTab(tab, y, failing, ids) /\ ids[p] \in ToSet(y.panes)
               /\ Place(x, y, ids[p]) = Place(ws, tab, p)
  <2>1. p \in PanesOf(ws) \ failing
    BY <1>2
  <2>2. PICK x \in ToSet(X) : RestoredWorkspace(ws, x, failing, ids)
    BY <1>1, <2>1
  <2>3. PICK y \in ToSet(x.tabs) : RestoredTab(tab, y, failing, ids)
    BY <2>2 DEF RestoredWorkspace
  <2>4. ids[p] \in ToSet(y.panes) /\ y.number = tab.number
    BY <2>3 DEF RestoredTab, NewIds
  <2>5. x.id = ws.id /\ x.public_pane_numbers[ids[p]] = ws.public_pane_numbers[p]
    BY <2>1, <2>2 DEF RestoredWorkspace
  <2> QED
    BY <2>3, <2>4, <2>5 DEF Place
<1>4. ASSUME NEW x \in ToSet(X), NEW y \in ToSet(x.tabs), NEW q \in ToSet(y.panes)
      PROVE  \E ws \in ToSet(W) : \E tab \in ToSet(ws.tabs) :
               \E p \in ToSet(tab.panes) \ failing : Place(x, y, q) = Place(ws, tab, p)
  <2>1. PICK ws \in ToSet(W) : RestoredWorkspace(ws, x, failing, ids)
    BY <1>1
  <2>2. PICK tab \in ToSet(ws.tabs) : RestoredTab(tab, y, failing, ids)
    BY <2>1 DEF RestoredWorkspace
  <2>3. PICK p \in ToSet(tab.panes) \ failing : q = ids[p]
    BY <2>2 DEF RestoredTab, NewIds
  <2>4. x.id = ws.id /\ y.number = tab.number
    BY <2>1, <2>2 DEF RestoredWorkspace, RestoredTab
  <2>5. x.public_pane_numbers[ids[p]] = ws.public_pane_numbers[p]
    BY <1>2, <2>1 DEF RestoredWorkspace
  <2> QED
    BY <2>3, <2>4, <2>5 DEF Place
<1>5. ASSUME NEW x \in ToSet(X), NEW y \in ToSet(x.tabs), NEW q \in ToSet(y.panes)
      PROVE  q \in AllPanes(X)
  BY DEF ToSet, PanesOf, AllPanes
<1>6. ASSUME NEW e \in Places(X, AllPanes(X)) PROVE e \in Places(W, started)
  <2>1. PICK x \in ToSet(X) : \E y \in ToSet(x.tabs) : \E q \in ToSet(y.panes) : e = Place(x, y, q)
    BY PlacesAre
  <2>2. PICK ws \in ToSet(W) : \E tab \in ToSet(ws.tabs) : \E p \in ToSet(tab.panes) \ failing :
          e = Place(ws, tab, p)
    BY <1>4, <2>1
  <2>3. \A tab \in ToSet(ws.tabs) : \A p \in ToSet(tab.panes) \ failing :
          p \in started \cap ToSet(tab.panes)
    BY <1>2
  <2> HIDE DEF started, W
  <2> QED
    BY <2>2, <2>3, PlacesAre
<1>7. ASSUME NEW e \in Places(W, started) PROVE e \in Places(X, AllPanes(X))
  <2>1. PICK ws \in ToSet(W) : \E tab \in ToSet(ws.tabs) : \E p \in started \cap ToSet(tab.panes) :
          e = Place(ws, tab, p)
    <3> HIDE DEF started, W
    <3> QED
      BY PlacesAre
  <2>2. PICK tab \in ToSet(ws.tabs) : \E p \in started \cap ToSet(tab.panes) : e = Place(ws, tab, p)
    BY <2>1
  <2>3. PICK p \in started \cap ToSet(tab.panes) : e = Place(ws, tab, p)
    BY <2>2
  <2>4. PICK x \in ToSet(X) : \E y \in ToSet(x.tabs) :
          ids[p] \in ToSet(y.panes) /\ Place(x, y, ids[p]) = Place(ws, tab, p)
    BY <1>3
  <2>5. PICK y \in ToSet(x.tabs) :
          ids[p] \in ToSet(y.panes) /\ Place(x, y, ids[p]) = Place(ws, tab, p)
    BY <2>4
  <2>6. ids[p] \in AllPanes(X) \cap ToSet(y.panes)
    BY <1>5, <2>5
  <2> QED
    BY <2>3, <2>5, <2>6, PlacesAre
<1>8. ASSUME NEW e \in Focuses(W, started) PROVE e \in Focuses(X, AllPanes(X))
  <2> DEFINE Has(ws, tab) == tab.focused \in started /\ e = Place(ws, tab, tab.focused)
  <2>1. PICK ws \in ToSet(W) : \E tab \in ToSet(ws.tabs) : Has(ws, tab)
    <3> HIDE DEF started, W
    <3> QED
      BY FocusesAre
  <2>2. PICK tab \in ToSet(ws.tabs) : Has(ws, tab)
    BY <2>1
  <2>3. PICK w \in DOMAIN W : ws = W[w]
    BY DEF ToSet
  <2>4. PICK t \in DOMAIN ws.tabs : tab = ws.tabs[t]
    BY DEF ToSet
  <2>5. tab.focused \in ToSet(tab.panes) \ failing
    BY <2>2, <2>3, <2>4 DEF WorkspacesSound, Good, Half, TabsSound, TabSound
  <2>6. PICK x \in ToSet(X) : \E y \in ToSet(x.tabs) :
          /\ RestoredTab(tab, y, failing, ids) /\ ids[tab.focused] \in ToSet(y.panes)
          /\ Place(x, y, ids[tab.focused]) = Place(ws, tab, tab.focused)
    BY <1>3, <2>5
  <2>7. PICK y \in ToSet(x.tabs) :
          /\ RestoredTab(tab, y, failing, ids) /\ ids[tab.focused] \in ToSet(y.panes)
          /\ Place(x, y, ids[tab.focused]) = Place(ws, tab, tab.focused)
    BY <2>6
  <2>8. y.focused = ids[tab.focused]
    BY <2>5, <2>7 DEF RestoredTab
  <2>9. y.focused \in AllPanes(X)
    BY <1>5, <2>7, <2>8
  <2> QED
    BY <2>2, <2>7, <2>8, <2>9, FocusesAre
<1> QED
  BY <1>6, <1>7, <1>8 DEF X

\* The numbers of two panes.
LEMMA TwoNumbers ==
  ASSUME NEW ws, NEW x, NEW a, NEW b, NEW c, NEW d,
         x.public_pane_numbers[a] = ws.public_pane_numbers[c],
         x.public_pane_numbers[b] = ws.public_pane_numbers[d]
  PROVE  Numbers(x, <<a, b>>) = Numbers(ws, <<c, d>>)
<1> DEFINE new == <<a, b>>
           old == <<c, d>>
<1>1. DOMAIN new = {1, 2} /\ DOMAIN old = {1, 2} /\ new[1] = a /\ new[2] = b /\ old[1] = c /\ old[2] = d
  OBVIOUS
<1> HIDE DEF new, old
<1>2. [k \in DOMAIN new |-> x.public_pane_numbers[new[k]]] =
      [k \in DOMAIN old |-> ws.public_pane_numbers[old[k]]]
  BY <1>1
<1> QED
  BY <1>2 DEF Numbers, new, old

\* A workspace, but for the raw ids of its panes.
LEMMA ShapeStays ==
  ASSUME NEW ws, Good(ws), NEW saved, NEW space \in {"none", "main", "linked"},
         Renames(id_map(saved), reverse_id_map(saved), PanesOf(ws))
  PROVE  Shape([restore_workspace(ws, {}, saved) EXCEPT !.space = space]) = Shape(ws)
<1> DEFINE ids == id_map(saved)
           tabs == ws.tabs
           y == restore_workspace(ws, {}, saved)
           x == [y EXCEPT !.space = space]
           gone == {tab \in ToSet(tabs) : ToSet(tab.panes) \subseteq {}}
           new == [t \in DOMAIN tabs |-> restore_tab(tabs[t], {}, ids)]
<1>1. /\ ws \in WorkspaceSet /\ tabs \in Seq(Tabs) /\ \A t \in DOMAIN tabs : TabSound(tabs[t])
      /\ ws.active_tab \in DOMAIN tabs /\ DOMAIN tabs = 1..Len(tabs) /\ Len(tabs) \in Nat
  BY TabsHavePanes DEF Good, Half, TabsSound
<1>2. \A t \in DOMAIN tabs : ToSet(tabs[t].panes) \subseteq PanesOf(ws)
  BY DEF PanesOf
<1>3. Rest(tabs, gone) = tabs
  <2>1. \A t \in DOMAIN tabs : tabs[t] \notin gone
    BY <1>1 DEF TabSound
  <2> HIDE DEF gone, tabs
  <2> QED
    BY <1>1, <2>1, RestIsAll
<1>4. RestoredWorkspace(ws, y, {}, ids)
  <2>1. ~(PanesOf(ws) \subseteq {})
    BY TabsHavePanes DEF Good
  <2> QED
    BY <2>1, WorkspaceRestored
<1>5. \A p \in PanesOf(ws) : y.public_pane_numbers[ids[p]] = ws.public_pane_numbers[p]
  BY <1>4 DEF RestoredWorkspace
<1>6. /\ y.tabs = new /\ y.active_tab = ws.active_tab /\ y.id = ws.id
      /\ y.next_public_pane_number = ws.next_public_pane_number
      /\ y.next_public_tab_number = ws.next_public_tab_number
  <2> DEFINE with == [ws EXCEPT !.tabs = new]
             numbers == restored_numbers(ws, PanesOf(with), reverse_id_map(saved))
  <2>1. y = [with EXCEPT !.active_tab = Smaller(@, Len(with.tabs)), !.public_pane_numbers = numbers]
    BY <1>3 DEF restore_workspace
  <2>2. with.tabs = new /\ with.active_tab = ws.active_tab
    BY <1>1 DEF WorkspaceSet
  <2>3. Len(new) = Len(tabs)
    <3>1. new = [t \in 1..Len(tabs) |-> new[t]]
      BY <1>1
    <3> HIDE DEF new
    <3> QED
      BY <1>1, <3>1
  <2>4. Smaller(ws.active_tab, Len(new)) = ws.active_tab
    BY <1>1, <2>3 DEF Smaller
  <2>5. /\ DOMAIN with = DOMAIN ws /\ with.id = ws.id
        /\ with.next_public_pane_number = ws.next_public_pane_number
        /\ with.next_public_tab_number = ws.next_public_tab_number
    BY <1>1 DEF WorkspaceSet
  <2>6. {"id", "tabs", "active_tab", "public_pane_numbers", "next_public_pane_number",
         "next_public_tab_number", "space"} \subseteq DOMAIN ws
    BY <1>1 DEF WorkspaceSet
  <2>7. y = [with EXCEPT !.active_tab = ws.active_tab, !.public_pane_numbers = numbers]
    BY <2>1, <2>2, <2>4
  <2> HIDE DEF new, with, numbers, y
  <2> QED
    BY <2>2, <2>5, <2>6, <2>7
<1>7. /\ x.tabs = new /\ x.active_tab = ws.active_tab /\ x.id = ws.id
      /\ x.next_public_pane_number = ws.next_public_pane_number
      /\ x.next_public_tab_number = ws.next_public_tab_number
      /\ x.public_pane_numbers = y.public_pane_numbers
  <2>1. y \in WorkspaceSet
    BY <1>4 DEF RestoredWorkspace, Good, Half
  <2> HIDE DEF y, new
  <2> QED
    BY <1>6, <2>1 DEF WorkspaceSet
<1> HIDE DEF y, x, new
<1>8. ASSUME NEW t \in DOMAIN tabs
      PROVE  /\ new[t].number = tabs[t].number
             /\ Numbers(x, new[t].panes) = Numbers(ws, tabs[t].panes)
             /\ Numbers(x, <<new[t].focused, new[t].root_pane>>) =
                  Numbers(ws, <<tabs[t].focused, tabs[t].root_pane>>)
  <2> DEFINE tab == tabs[t]
             panes == tab.panes
             named == [k \in DOMAIN panes |-> ids[panes[k]]]
  <2>1. /\ tab \in Tabs /\ panes \in Seq(Nat)
        /\ tab.focused \in ToSet(panes) /\ tab.root_pane \in ToSet(panes)
    BY <1>1 DEF TabSound, Tabs
  <2>2. Rest(panes, {}) = panes
    <3> HIDE DEF panes
    <3> QED
      BY <2>1, RestIsAll
  <2>3. new[t] = [tab EXCEPT !.panes = named, !.focused = ids[tab.focused],
                            !.root_pane = ids[tab.root_pane]]
    BY <2>1, <2>2 DEF new, restore_tab, resolve_restored_pane
  <2>4. /\ new[t].number = tab.number /\ new[t].panes = named
        /\ new[t].focused = ids[tab.focused] /\ new[t].root_pane = ids[tab.root_pane]
    BY <2>1, <2>3 DEF Tabs
  <2>5. \A p \in ToSet(panes) : x.public_pane_numbers[ids[p]] = ws.public_pane_numbers[p]
    BY <1>2, <1>5, <1>7
  <2>6. \A k \in DOMAIN panes : panes[k] \in ToSet(panes)
    BY DEF ToSet
  <2>7. Numbers(x, named) = Numbers(ws, panes)
    BY <2>5, <2>6 DEF Numbers
  <2>8. Numbers(x, <<ids[tab.focused], ids[tab.root_pane]>>) = Numbers(ws, <<tab.focused, tab.root_pane>>)
    <3>1. /\ x.public_pane_numbers[ids[tab.focused]] = ws.public_pane_numbers[tab.focused]
          /\ x.public_pane_numbers[ids[tab.root_pane]] = ws.public_pane_numbers[tab.root_pane]
      BY <2>1, <2>5
    <3> HIDE DEF tab, ids
    <3> QED
      BY ONLY <3>1, TwoNumbers
  <2> HIDE DEF panes, named
  <2> QED
    BY <2>4, <2>7, <2>8 DEF panes
<1>9. DOMAIN x.tabs = DOMAIN tabs
  BY <1>7 DEF new
<1>10. [t \in DOMAIN x.tabs |->
          [number |-> x.tabs[t].number, panes |-> Numbers(x, x.tabs[t].panes),
           marked |-> Numbers(x, <<x.tabs[t].focused, x.tabs[t].root_pane>>)]] =
       [t \in DOMAIN tabs |->
          [number |-> tabs[t].number, panes |-> Numbers(ws, tabs[t].panes),
           marked |-> Numbers(ws, <<tabs[t].focused, tabs[t].root_pane>>)]]
  BY <1>7, <1>8, <1>9
<1> HIDE DEF tabs
<1>11. Shape(x) = Shape(ws)
  BY <1>7, <1>10 DEF Shape, tabs
<1> QED
  BY <1>11 DEF x, y

\* When every program starts, the session is what was saved.
LEMMA AllRestored ==
  ASSUME NEW saved, WorkspacesSound(saved.workspaces), NEW unlinked
  PROVE  LET X == restore(saved, {}, unlinked)
         IN  Alike(X, saved.workspaces) /\ Len(X) = Len(saved.workspaces)
<1> DEFINE W == saved.workspaces
           X == restore(saved, {}, unlinked)
           gone == {ws \in ToSet(W) : PanesOf(ws) \subseteq {}}
           Space(ws) == IF ws.id \in unlinked THEN "none"
                        ELSE restore_workspace(ws, {}, saved).space
<1>1. /\ W \in Seq(WorkspaceSet) /\ \A w \in DOMAIN W : Good(W[w])
      /\ DOMAIN W = 1..Len(W) /\ Len(W) \in Nat
      /\ Renames(id_map(saved), reverse_id_map(saved), AllPanes(W))
  BY OldIds, LenProperties DEF WorkspacesSound
<1>2. Rest(W, gone) = W
  <2>1. \A w \in DOMAIN W : W[w] \notin gone
    BY <1>1, TabsHavePanes DEF Good
  <2> HIDE DEF gone, W
  <2> QED
    BY <1>1, <2>1, RestIsAll
<1>3. X = [w \in DOMAIN W |-> [restore_workspace(W[w], {}, saved) EXCEPT !.space = Space(W[w])]]
  BY <1>2 DEF restore
<1>4. ASSUME NEW w \in DOMAIN W PROVE Shape(X[w]) = Shape(W[w])
  <2>1. Good(W[w]) /\ Renames(id_map(saved), reverse_id_map(saved), PanesOf(W[w]))
    BY <1>1 DEF Renames, AllPanes
  <2>2. ~(PanesOf(W[w]) \subseteq {})
    BY <2>1, TabsHavePanes DEF Good
  <2>3. RestoredWorkspace(W[w], restore_workspace(W[w], {}, saved), {}, id_map(saved))
    BY <2>1, <2>2, WorkspaceRestored
  <2>4. Space(W[w]) \in {"none", "main", "linked"}
    BY <2>3 DEF RestoredWorkspace, Good, Half, WorkspaceSet
  <2>5. X[w] = [restore_workspace(W[w], {}, saved) EXCEPT !.space = Space(W[w])]
    BY <1>3
  <2> DEFINE ws == W[w]
             space == Space(ws)
  <2>6. /\ Good(ws) /\ Renames(id_map(saved), reverse_id_map(saved), PanesOf(ws))
        /\ space \in {"none", "main", "linked"}
    BY <2>1, <2>4
  <2> HIDE DEF ws, space
  <2>7. Shape([restore_workspace(ws, {}, saved) EXCEPT !.space = space]) = Shape(ws)
    BY ONLY <2>6, ShapeStays
  <2> QED
    BY <2>5, <2>7 DEF ws, space
<1>5. DOMAIN X = DOMAIN W
  BY <1>3
<1>6. Len(X) = Len(W)
  <2>1. X = [w \in 1..Len(W) |-> X[w]]
    BY <1>1, <1>3
  <2> HIDE DEF X, W
  <2> QED
    BY <1>1, <2>1
<1> QED
  BY <1>4, <1>5, <1>6 DEF Alike

-----------------------------------------------------------------------------
(* The history of a pane: what the files say of a raw id.                  *)

\* The files say that the raw id p of the process n was the pane v.
Says(files, n, p, v) ==
  \/ \E x \in files.session : x.process = n /\ p \in DOMAIN x.who /\ v = x.who[p]
  \/ \E h \in files.history :
       /\ h.process = n
       /\ \E w \in DOMAIN h.panes : \E t \in DOMAIN h.panes[w] :
            p \in DOMAIN h.panes[w][t] /\ v = h.panes[w][t][p]

\* Memory, the files or a save under way say so.
Known(n, p, v) ==
  \/ n = process /\ p \in DOMAIN who /\ v = who[p]
  \/ Says(disk, n, p, v)
  \/ \E place \in {"thread", "loop"} : \E job \in saves[place] : Says(job.files, n, p, v)

\* They agree, though each was written at another time, for a process gives a
\* raw id only once.
History ==
  /\ \A n, p, v, u : Known(n, p, v) /\ Known(n, p, u) => v = u
  /\ \A n, p, v : Known(n, p, v) =>
       /\ n \in 1..process
       /\ n = process /\ server # "killed" => p \in PaneIds(next_pane_id)

\* What a save takes is what memory says.
LEMMA CapturedSays ==
  ASSUME Memory, NEW n, NEW p, NEW v, Says(captured, n, p, v)
  PROVE  n = process /\ p \in DOMAIN who /\ v = who[p]
<1> DEFINE W == app.workspaces
<1>1. captured.session \subseteq {capture} /\ captured.history \subseteq {capture_history}
  BY DEF captured
<1>2. capture.process = process /\ capture.who = who /\ capture_history.process = process
  BY DEF capture, capture_history
<1>3. /\ DOMAIN capture_history.panes = DOMAIN W
      /\ \A w \in DOMAIN W :
           /\ DOMAIN capture_history.panes[w] = DOMAIN W[w].tabs
           /\ \A t \in DOMAIN W[w].tabs :
                capture_history.panes[w][t] = [q \in ToSet(W[w].tabs[t].panes) |-> who[q]]
  BY DEF capture_history
<1>4. \A w \in DOMAIN W : \A t \in DOMAIN W[w].tabs : ToSet(W[w].tabs[t].panes) \subseteq DOMAIN who
  BY DEF Memory, WhoSound, AllPanes, PanesOf
<1>5. CASE \E x \in captured.session : x.process = n /\ p \in DOMAIN x.who /\ v = x.who[p]
  BY <1>1, <1>2, <1>5
<1>6. CASE \E h \in captured.history :
             /\ h.process = n
             /\ \E w \in DOMAIN h.panes : \E t \in DOMAIN h.panes[w] :
                  p \in DOMAIN h.panes[w][t] /\ v = h.panes[w][t][p]
  <2>1. /\ n = process
        /\ \E w \in DOMAIN W : \E t \in DOMAIN W[w].tabs :
             /\ p \in DOMAIN capture_history.panes[w][t]
             /\ v = capture_history.panes[w][t][p]
    BY <1>1, <1>2, <1>3, <1>6
  <2>2. PICK w \in DOMAIN W : \E t \in DOMAIN W[w].tabs :
          p \in DOMAIN capture_history.panes[w][t] /\ v = capture_history.panes[w][t][p]
    BY <2>1
  <2>3. PICK t \in DOMAIN W[w].tabs :
          p \in DOMAIN capture_history.panes[w][t] /\ v = capture_history.panes[w][t][p]
    BY <2>2
  <2>4. capture_history.panes[w][t] = [q \in ToSet(W[w].tabs[t].panes) |-> who[q]]
    BY <1>3
  <2>5. p \in ToSet(W[w].tabs[t].panes) /\ v = who[p]
    BY <2>3, <2>4
  <2> QED
    BY <1>4, <2>1, <2>5
<1> QED
  BY <1>5, <1>6 DEF Says

\* A step after which nothing more is known, and no raw id was given.
LEMMA NothingNew ==
  ASSUME History, process' = process,
         \A n, p, v : Known(n, p, v)' => Known(n, p, v),
         server' # "killed" => server # "killed" /\ next_pane_id' = next_pane_id
  PROVE  History'
BY DEF History

\* A save takes what memory says.
LEMMA SavingHistory ==
  ASSUME Memory, History, Types, Save
  PROVE  History'
<1>1. /\ UNCHANGED <<who, process, disk, next_pane_id>>
      /\ server # "killed"
      /\ saves' = saves \/ \E place \in {"thread", "loop"} : SaveOn(place)
  BY DEF Save, sync_session_save_schedule, start_background_session_save, save_session_now,
         pane_vars, life, vars, Serving
<1>2. ASSUME NEW n, NEW p, NEW v, Known(n, p, v)' PROVE Known(n, p, v)
  <2>1. CASE saves' = saves
    BY <1>1, <1>2, <2>1 DEF Known, Says
  <2>2. ASSUME NEW place \in {"thread", "loop"}, SaveOn(place) PROVE Known(n, p, v)
    <3> DEFINE job == [files |-> captured, at |-> "session"]
    <3>1. /\ saves' = [saves EXCEPT ![place] = {job}]
          /\ saves = [thread |-> saves.thread, loop |-> saves.loop]
      BY <2>2 DEF SaveOn, Types
    <3>2. job.files = captured
      OBVIOUS
    <3> HIDE DEF job
    <3>3. \A other \in {"thread", "loop"} : \A x \in saves'[other] : x \in saves[other] \/ x = job
      BY <3>1
    <3>4. \/ n = process /\ p \in DOMAIN who /\ v = who[p]
          \/ Says(disk, n, p, v)
          \/ \E other \in {"thread", "loop"} : \E x \in saves'[other] : Says(x.files, n, p, v)
      BY <1>1, <1>2 DEF Known, Says
    <3>5. Says(captured, n, p, v) => n = process /\ p \in DOMAIN who /\ v = who[p]
      BY CapturedSays
    <3> QED
      BY <3>2, <3>3, <3>4, <3>5 DEF Known
  <2> QED
    BY <1>1, <2>1, <2>2
<1> QED
  BY <1>1, <1>2, NothingNew

\* A file takes what a save said.
LEMMA WritingHistory ==
  ASSUME History, Types, Writing
  PROVE  History'
<1>1. PICK place \in {"thread", "loop"} : Write(place) \/ WriteFails(place)
  BY DEF Writing, Writes
<1>2. UNCHANGED <<who, server, process, next_pane_id>>
  BY <1>1 DEF Write, WriteFails, pane_vars, life, vars
<1>3. /\ saves = [thread |-> saves.thread, loop |-> saves.loop]
      /\ disk = [session |-> disk.session, history |-> disk.history]
  BY DEF Types
<1>4. ASSUME NEW n, NEW p, NEW v, Known(n, p, v)' PROVE Known(n, p, v)
  <2>1. \/ n = process /\ p \in DOMAIN who /\ v = who[p]
        \/ Says(disk', n, p, v)
        \/ \E other \in {"thread", "loop"} : \E x \in saves'[other] : Says(x.files, n, p, v)
    BY <1>2, <1>4 DEF Known, Says
  <2>2. ASSUME WriteFails(place) PROVE Known(n, p, v)
    <3>1. disk' = disk /\ saves' = [saves EXCEPT ![place] = {}]
      BY <2>2 DEF WriteFails
    <3>2. \A other \in {"thread", "loop"} : saves'[other] \subseteq saves[other]
      BY <1>3, <3>1
    <3> QED
      BY <2>1, <3>1, <3>2 DEF Known
  <2>3. ASSUME Write(place) PROVE Known(n, p, v)
    <3>1. PICK job \in saves[place] :
            /\ disk' = [disk EXCEPT ![job.at] = job.files[job.at]]
            /\ saves' = [saves EXCEPT ![place] =
                           IF job.at = "session" THEN {[job EXCEPT !.at = "history"]} ELSE {}]
      BY <2>3 DEF Write
    <3>2. PICK files : \E at \in {"session", "history"} :
                         saves[place] = {[files |-> files, at |-> at]}
      BY <3>1 DEF Types, IsSave
    <3>3. job = [files |-> job.files, at |-> job.at] /\ job.at \in {"session", "history"}
      BY <3>1, <3>2
    <3>4. /\ disk'.session \in {disk.session, job.files.session}
          /\ disk'.history \in {disk.history, job.files.history}
      BY <1>3, <3>1, <3>3
    <3>5. Says(disk', n, p, v) => Says(disk, n, p, v) \/ Says(job.files, n, p, v)
      BY <3>4 DEF Says
    <3> DEFINE next == IF job.at = "session" THEN {[job EXCEPT !.at = "history"]} ELSE {}
    <3>6. \A x \in next : x.files = job.files
      BY <3>3
    <3>7. saves' = [saves EXCEPT ![place] = next]
      BY <3>1
    <3> HIDE DEF next
    <3>8. \A other \in {"thread", "loop"} : \A x \in saves'[other] : x \in saves[other] \/ x \in next
      BY <1>3, <3>7
    <3> QED
      BY <2>1, <3>1, <3>5, <3>6, <3>8 DEF Known
  <2> QED
    BY <1>1, <2>2, <2>3
<1> QED
  BY <1>2, <1>4, NothingNew

\* Other steps that make no pane.
LEMMA QuietHistory ==
  ASSUME History, Types, process' = process, saves' \in {saves, NoSaves},
         who' = who \/ who' = <<>>,
         disk' = disk \/ disk' = [disk EXCEPT !.history = {}],
         server' # "killed" => server # "killed" /\ next_pane_id' = next_pane_id
  PROVE  History'
<1>1. ASSUME NEW n, NEW p, NEW v, Known(n, p, v)' PROVE Known(n, p, v)
  <2>1. \/ n = process /\ p \in DOMAIN who' /\ v = who'[p]
        \/ Says(disk', n, p, v)
        \/ \E other \in {"thread", "loop"} : \E x \in saves'[other] : Says(x.files, n, p, v)
    BY <1>1 DEF Known, Says
  <2>2. p \in DOMAIN who' /\ v = who'[p] => p \in DOMAIN who /\ v = who[p]
    <3>1. DOMAIN <<>> = {}
      OBVIOUS
    <3> QED
      BY <3>1
  <2>3. disk'.session = disk.session /\ disk'.history \subseteq disk.history
    BY DEF Types
  <2>4. Says(disk', n, p, v) => Says(disk, n, p, v)
    BY <2>3 DEF Says
  <2>5. \A other \in {"thread", "loop"} : saves'[other] \subseteq saves[other]
    BY DEF NoSaves
  <2> QED
    BY <2>1, <2>2, <2>4, <2>5 DEF Known
<1> QED
  BY <1>1, NothingNew

\* A request gives a raw id that nothing knows yet.
LEMMA RequestHistory ==
  ASSUME SavedInv, History, Request
  PROVE  History'
<1> DEFINE old == next_pane_id
           W == app.workspaces
           X == app'.workspaces
<1>1. /\ Next /\ who' = [p \in Live(app') |-> Get(who, p, <<process, p>>)]
      /\ UNCHANGED <<server, process, saves, disk>> /\ server # "killed"
  BY DEF Request, life, Serving
<1>2. /\ IInv(FALSE)' /\ old <= next_pane_id' /\ AllPanes(X) \subseteq AllPanes(W) \cup {old}
  BY <1>1, NextKeeps DEF Keeps, SavedInv, Memory
<1>3. /\ old \in Nat /\ next_pane_id' \in Nat /\ AllPanes(X) \subseteq PaneIds(next_pane_id')
      /\ DOMAIN who = AllPanes(W) /\ process \in 1..process
  BY <1>2 DEF IInv, Counters, SavedInv, Memory, WhoSound
<1>4. Live(app') = AllPanes(X)
  BY Reading
<1>5. old \notin PaneIds(old) /\ PaneIds(old) \subseteq PaneIds(next_pane_id')
  <2>1. \A m, k \in Nat : m <= k => m \notin 1..(m - 1) /\ 1..(m - 1) \subseteq 1..(k - 1)
    OBVIOUS
  <2> QED
    BY <1>2, <1>3, <2>1 DEF PaneIds
<1> HIDE DEF W, X
<1>6. ASSUME NEW n, NEW p, NEW v, Known(n, p, v)'
      PROVE  \/ Known(n, p, v)
             \/ n = process /\ p = old /\ v = <<process, old>> /\ p \in AllPanes(X)
  <2>1. \/ n = process /\ p \in DOMAIN who' /\ v = who'[p]
        \/ Says(disk, n, p, v)
        \/ \E other \in {"thread", "loop"} : \E x \in saves[other] : Says(x.files, n, p, v)
    BY <1>1, <1>6 DEF Known, Says
  <2>2. ASSUME n = process, p \in DOMAIN who', v = who'[p]
        PROVE  \/ Known(n, p, v)
               \/ n = process /\ p = old /\ v = <<process, old>> /\ p \in AllPanes(X)
    <3>1. p \in AllPanes(X) /\ v = Get(who, p, <<process, p>>)
      BY <1>1, <1>4, <2>2
    <3>2. CASE p \in DOMAIN who
      BY <2>2, <3>1, <3>2 DEF Get, Known
    <3>3. CASE p \notin DOMAIN who
      BY <1>2, <1>3, <2>2, <3>1, <3>3 DEF Get
    <3> QED
      BY <3>2, <3>3
  <2> QED
    BY <2>1, <2>2 DEF Known
<1>7. \A v : ~Known(process, old, v)
  BY <1>1, <1>5 DEF History
<1> HIDE DEF old
<1>8. \A n, p, v, u : Known(n, p, v)' /\ Known(n, p, u)' => v = u
  BY <1>6, <1>7 DEF History
<1>9. ASSUME NEW n, NEW p, NEW v, Known(n, p, v)'
      PROVE  n \in 1..process /\ (n = process => p \in PaneIds(next_pane_id'))
  <2>1. CASE Known(n, p, v)
    <3>1. n \in 1..process /\ (n = process => p \in PaneIds(next_pane_id))
      BY <1>1, <2>1 DEF History
    <3> QED
      BY <1>5, <3>1 DEF old
  <2>2. CASE n = process /\ p \in AllPanes(X)
    BY <1>3, <2>2
  <2> QED
    BY <1>6, <1>9, <2>1, <2>2
<1> QED
  BY <1>1, <1>8, <1>9 DEF History

\* A new process knows of its own panes and of what is in the files.
LEMMA RestartHistory ==
  ASSUME SavedInv, History, StartAgain, IInv(FALSE)', DOMAIN who' = AllPanes(app'.workspaces)
  PROVE  History'
<1>1. /\ process' = process + 1 /\ saves' = NoSaves /\ disk' = disk /\ process \in Nat \ {0}
      /\ DOMAIN who' \subseteq PaneIds(next_pane_id')
  BY DEF StartAgain, SavedInv, Memory, IInv, Counters
<1>2. ASSUME NEW n, NEW p, NEW v, Known(n, p, v)'
      PROVE  \/ n = process + 1 /\ p \in DOMAIN who' /\ v = who'[p]
             \/ Known(n, p, v)
  <2>1. \/ n = process + 1 /\ p \in DOMAIN who' /\ v = who'[p]
        \/ Says(disk, n, p, v)
        \/ \E other \in {"thread", "loop"} : \E x \in NoSaves[other] : Says(x.files, n, p, v)
    BY <1>1, <1>2 DEF Known, Says
  <2> QED
    BY <2>1 DEF Known, NoSaves
<1>3. /\ \A m \in 1..process : m # process + 1 /\ m \in 1..(process + 1)
      /\ process + 1 \in 1..(process + 1)
  BY <1>1
<1>4. \A n, p, v : Known(n, p, v) => n # process + 1 /\ n \in 1..(process + 1)
  BY <1>3 DEF History
<1>5. \A n, p, v, u : Known(n, p, v)' /\ Known(n, p, u)' => v = u
  BY <1>2, <1>4 DEF History
<1>6. \A n, p, v : Known(n, p, v)' =>
        n \in 1..(process + 1) /\ (n = process + 1 => p \in PaneIds(next_pane_id'))
  BY <1>1, <1>2, <1>3, <1>4
<1> QED
  BY <1>1, <1>5, <1>6 DEF History

\* At first nothing is known.
LEMMA InitHistory ==
  ASSUME SavedInit
  PROVE  History
<1>1. DOMAIN who = {}
  BY DEF SavedInit
<1>2. disk = [session |-> {}, history |-> {}] /\ saves = NoSaves
  BY DEF SavedInit
<1>3. \A n, p, v : ~Known(n, p, v)
  BY <1>1, <1>2 DEF Known, Says, NoSaves
<1> QED
  BY <1>3 DEF History

\* What the files and memory say of a raw id of a process never differs.
THEOREM HistoryAgrees == SavedSpec => []History
<1>1. SavedInit => History
  BY InitHistory
<1>2. SavesInv /\ SavedInv /\ SavedInv' /\ History /\ [SavedNext]_saved_vars => History'
  <2> SUFFICES ASSUME Types, SavedInv, SavedInv', History, [SavedNext]_saved_vars PROVE History'
    BY DEF SavesInv
  <2>1. CASE UNCHANGED saved_vars
    BY <2>1 DEF saved_vars, vars, pane_vars, life, History, Known, Says
  <2>2. CASE Restart
    <3>1. IInv(FALSE)' /\ DOMAIN who' = AllPanes(app'.workspaces)
      BY DEF SavedInv, Memory, WhoSound
    <3>2. StartAgain
      BY <2>2 DEF Restart, StartEmpty, Start
    <3> QED
      BY <3>1, <3>2, RestartHistory
  <2>3. ASSUME \/ \E keep \in BOOLEAN : Reload(keep)
               \/ Stop \/ Exit \/ Kill
        PROVE  History'
    <3>1. /\ process' = process /\ saves' \in {saves, NoSaves} /\ who' \in {who, <<>>}
          /\ disk' = disk \/ disk' = [disk EXCEPT !.history = {}]
          /\ server' # "killed" => server # "killed" /\ next_pane_id' = next_pane_id
      BY <2>3 DEF Reload, Stop, Exit, Kill, Serving, vars, pane_vars, life
    <3> QED
      BY <3>1, QuietHistory
  <2>4. CASE Request
    BY <2>4, RequestHistory
  <2>5. CASE Save
    BY <2>5, SavingHistory DEF SavedInv
  <2>6. CASE Writing
    BY <2>6, WritingHistory
  <2> QED
    BY <2>1, <2>2, <2>3, <2>4, <2>5, <2>6 DEF SavedNext
<1> QED
  BY <1>1, <1>2, SavesInvariant, SavedSound, PTL DEF SavedSpec

\* The histories that are found are those of the panes, if both files are of
\* one process.
LEMMA FoundHistories ==
  ASSUME SavedInv, History, NEW saved \in disk.session, NEW h \in disk.history,
         h.process = saved.process,
         NEW p \in DOMAIN saved_histories(saved, h)
  PROVE  saved_histories(saved, h)[p] = saved.who[p]
<1> DEFINE At(q) == CHOOSE w \in DOMAIN saved.workspaces : q \in PanesOf(saved.workspaces[w])
           TabAt(q) == find_tab_index_for_pane(saved.workspaces[At(q)], q)
           Of(q) == IF At(q) \in DOMAIN h.panes /\ TabAt(q) \in DOMAIN h.panes[At(q)]
                    THEN h.panes[At(q)][TabAt(q)] ELSE <<>>
           found == [q \in {o \in SavedPanes(saved) : o \in DOMAIN Of(o)} |-> Of(q)[q]]
<1>1. saved_histories(saved, h) = found
  BY DEF saved_histories
<1> HIDE DEF At, TabAt
<1>2. p \in SavedPanes(saved) /\ p \in DOMAIN Of(p) /\ saved_histories(saved, h)[p] = Of(p)[p]
  <2> HIDE DEF Of
  <2> QED
    BY <1>1
<1>3. At(p) \in DOMAIN h.panes /\ TabAt(p) \in DOMAIN h.panes[At(p)] /\ Of(p) = h.panes[At(p)][TabAt(p)]
  <2>1. DOMAIN <<>> = {}
    OBVIOUS
  <2> QED
    BY <1>2, <2>1
<1> HIDE DEF Of
<1>4. Says(disk, saved.process, p, Of(p)[p])
  BY <1>2, <1>3 DEF Says
<1>5. p \in DOMAIN saved.who
  <2>1. SessionSound(saved, process)
    BY DEF SavedInv, Files, FilesSound
  <2> QED
    BY <1>2, <2>1, OldIds DEF SessionSound, WhoSound
<1>6. Says(disk, saved.process, p, saved.who[p])
  BY <1>5 DEF Says
<1> QED
  BY <1>2, <1>4, <1>6 DEF History, Known

\* A process that starts begins with the session of the file.
LEMMA StartBegins ==
  ASSUME SavedInv, SavedInv', History, NEW saved \in disk.session, NEW failing, NEW unlinked,
         Start(saved, failing, unlinked)
  PROVE  BeginsWith(saved)
<1> DEFINE W == saved.workspaces
           X == restore(saved, failing, unlinked)
           olds == reverse_id_map(saved)
           alive == {p \in DOMAIN olds : olds[p] \notin failing}
           Found == saved_histories(saved, CHOOSE h \in disk.history : TRUE)
           started == SavedPanes(saved) \ failing
<1>1. /\ Become(X, saved.active, saved.selected) /\ missing' = failing
      /\ who' = [p \in alive |-> saved.who[olds[p]]]
      /\ replayed' = IF ~keep_history \/ disk.history = {} THEN <<>>
                     ELSE [p \in {q \in alive : olds[q] \in DOMAIN Found} |-> Found[olds[p]]]
  BY DEF Start
<1>2. /\ app'.workspaces = X
      /\ app'.active = (IF saved.active <= Len(X) THEN saved.active ELSE None)
      /\ app'.selected = (IF Len(X) = 0 THEN 1 ELSE Smaller(saved.selected, Len(X)))
  BY <1>1 DEF Become
<1>3. SessionSound(saved, process)
  BY DEF SavedInv, Files, FilesSound
<1>4. WorkspacesSound(W) /\ SavedPanes(saved) = AllPanes(W)
  BY <1>3, OldIds DEF SessionSound
<1>5. DOMAIN who' = AllPanes(X)
  BY <1>2 DEF SavedInv, Memory, WhoSound
<1>6. ASSUME failing = {}
      PROVE  Alike(X, W) /\ app'.active = saved.active /\ app'.selected = saved.selected
  <2>1. Alike(X, W) /\ Len(X) = Len(W)
    BY <1>4, <1>6, AllRestored
  <2>2. Len(W) \in Nat \ {0} /\ DOMAIN W = 1..Len(W)
    BY <1>3, <1>4, LenProperties, EmptySeq DEF SessionSound, WorkspacesSound
  <2>3. saved.active \in 0..Len(W) /\ saved.selected \in 1..Len(W)
    BY <1>3, <2>2 DEF SessionSound, None
  <2> HIDE DEF X
  <2> QED
    BY <1>2, <2>1, <2>2, <2>3 DEF Smaller
<1>7. /\ Places(X, DOMAIN who') = Places(W, started)
      /\ Focuses(W, started) \subseteq Focuses(X, DOMAIN who')
  <2>1. /\ Places(X, AllPanes(X)) = Places(W, AllPanes(W) \ failing)
        /\ Focuses(W, AllPanes(W) \ failing) \subseteq Focuses(X, AllPanes(X))
    BY <1>4, PlacesRestored
  <2> HIDE DEF X, W
  <2> QED
    BY <1>4, <1>5, <2>1 DEF W
<1>8. ASSUME \A x \in disk.history : x.process = saved.process, NEW p \in DOMAIN replayed'
      PROVE  replayed'[p] = who'[p]
  <2>1. disk.history # {}
    <3>1. DOMAIN <<>> = {}
      OBVIOUS
    <3> QED
      BY <1>1, <1>8, <3>1
  <2>2. PICK h \in disk.history : h = CHOOSE x \in disk.history : TRUE
    BY <2>1
  <2>3. p \in alive /\ olds[p] \in DOMAIN Found /\ replayed'[p] = Found[olds[p]]
    <3>1. replayed' # <<>>
      BY <1>8
    <3> HIDE DEF Found, alive
    <3> QED
      BY <1>1, <1>8, <3>1
  <2>4. Found[olds[p]] = saved.who[olds[p]]
    BY <1>8, <2>2, <2>3, FoundHistories
  <2> QED
    BY <1>1, <2>3, <2>4
<1> HIDE DEF X, W, started
<1> QED
  BY <1>1, <1>2, <1>6, <1>7, <1>8 DEF BeginsWith, started, W

\* Whatever was saved when, a process begins with the session of the file, and
\* shows with a pane the history of no other one.
THEOREM Restored == SavedSpec => RestoresWhatWasSaved
<1>1. SavedInv /\ SavedInv' /\ History /\ [SavedNext]_saved_vars =>
        [process' # process => \A saved \in disk.session : BeginsWith(saved)]_saved_vars
  <2> SUFFICES ASSUME SavedInv, SavedInv', History, SavedNext, process' # process,
                      NEW saved \in disk.session
               PROVE  BeginsWith(saved)
    OBVIOUS
  <2>1. Restart
    BY DEF SavedNext, Request, Reload, Save, sync_session_save_schedule,
           start_background_session_save, save_session_now, Writing, Writes, Write, WriteFails,
           Stop, Exit, Kill, life
  <2>2. ~StartEmpty
    BY DEF StartEmpty
  <2>3. PICK x \in disk.session : \E failing, unlinked : Start(x, failing, unlinked)
    BY <2>1, <2>2 DEF Restart
  <2>4. x = saved
    BY DEF SavedInv, Files, FilesSound
  <2> QED
    BY <2>3, <2>4, StartBegins
<1> QED
  BY <1>1, SavedSound, HistoryAgrees, PTL DEF SavedSpec, RestoresWhatWasSaved

=============================================================================
