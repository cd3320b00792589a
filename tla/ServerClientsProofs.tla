------------------------- MODULE ServerClientsProofs -------------------------
(***************************************************************************)
(* Proofs about ServerClients: the registry and what is attached agree, for *)
(* any clients, terminals and sizes.                                        *)
(***************************************************************************)
EXTENDS ServerClients, ProofLemmas

-----------------------------------------------------------------------------
(* The inductive invariant.                                                *)

Partial(A, B) == UNION {[D -> B] : D \in SUBSET A}

Registry ==
  [clients : Partial(Clients, Connections), activity : SUBSET (Clients \X Clients),
   foreground : SUBSET Clients, effective : Sizes \cup {MinSize},
   owners : Partial(Terminals, Clients),
   locks : SUBSET Terminals, terminals : SUBSET Terminals,
   sizes : [Terminals -> Sizes \cup {MinSize}]]

\* A full client or one that has not asked yet shows no terminal; the others
\* show one.
Kinds(s) ==
  \A c \in DOMAIN s.clients :
    IF s.clients[c].mode = "app" THEN s.clients[c].terminal = {}
    ELSE ~s.clients[c].pending /\ \E t \in Terminals : s.clients[c].terminal = {t}

\* The stamps order the clients that there are.
Ordered(s) ==
  /\ IsFiniteSet(DOMAIN s.clients)
  /\ s.activity \subseteq (DOMAIN s.clients) \X (DOMAIN s.clients)
  /\ \A c, d \in DOMAIN s.clients :
       <<c, d>> \in s.activity <=> c # d /\ <<d, c>> \notin s.activity
  /\ \A c, d, e \in DOMAIN s.clients :
       <<c, d>> \in s.activity /\ <<d, e>> \in s.activity => <<c, e>> \in s.activity

\* A terminal has an owner exactly as long as a client is attached to it, and a
\* lock as long as both are there.
Owned(s) ==
  /\ \A t \in DOMAIN s.owners :
       /\ s.owners[t] \in DOMAIN s.clients
       /\ s.clients[s.owners[t]].mode = "attach" /\ s.clients[s.owners[t]].terminal = {t}
       /\ t \in s.terminals => s.sizes[t] = s.clients[s.owners[t]].size
  /\ \A c \in DOMAIN s.clients : s.clients[c].mode = "attach" =>
       \A t \in s.clients[c].terminal : t \in DOMAIN s.owners /\ s.owners[t] = c
  /\ \A t \in s.terminals : t \in s.locks <=> t \in DOMAIN s.owners

\* Nobody is in the foreground only if there is no full client; whoever is, is no
\* observer, and no full client was used after it.
Foremost(s) ==
  \/ s.foreground = {} /\ FullApps(s) = {}
  \/ \E f \in DOMAIN s.clients :
       /\ s.foreground = {f} /\ s.clients[f].mode # "observe"
       /\ \A d \in FullApps(s) \ {f} : <<d, f>> \in s.activity

\* The effective size is that of the foreground client, which an attached client
\* may have changed since.
Effective(s) ==
  /\ s.foreground = {} => s.effective = MinSize
  /\ \A f \in s.foreground : s.clients[f].mode = "app" => s.effective = s.clients[f].size

Foreground(s) == Foremost(s) /\ Effective(s)

Sound(s) == s \in Registry /\ Kinds(s) /\ Ordered(s) /\ Owned(s) /\ Foreground(s)

\* The shared terminals have the size of a full foreground client.
Fitted(s) ==
  \A t \in s.terminals \ DOMAIN s.owners : \A c \in s.foreground \cap FullApps(s) :
    s.clients[c].writer = "open" => s.sizes[t] = s.effective

\* Terminals come once and go once.
Lives ==
  /\ dead \subseteq Terminals \ server.terminals
  /\ DOMAIN server.owners \subseteq server.terminals \cup dead
  /\ server.locks \subseteq server.terminals \cup dead

\* The connections of the clients are open.
Peers ==
  /\ peer \in [Clients -> {"none", "open", "done"}]
  /\ \A c \in DOMAIN server.clients : peer[c] = "open"

\* When nothing is left to draw.
Settled ==
  ~needs_render =>
    /\ Fitted(server)
    /\ \A c \in DOMAIN server.clients :
         server.clients[c].writer # "none" =>
           server.clients[c].terminal \subseteq server.terminals
    /\ RemainingAreRedrawn

Rest ==
  /\ needs_render \in BOOLEAN /\ handoff \in BOOLEAN
  /\ drawn \in [Clients -> Sizes \cup {MinSize}]
  /\ handoff => DOMAIN server.clients = {}

IInv == Sound(server) /\ Lives /\ Peers /\ Settled /\ Rest

-----------------------------------------------------------------------------
(* Registries.                                                             *)

\* What a partial map is.
LEMMA PartialMap ==
  ASSUME NEW A, NEW B, NEW f
  PROVE  f \in Partial(A, B) <=> DOMAIN f \subseteq A /\ f \in [DOMAIN f -> B]
BY DEF Partial

\* The fields of a registry.
LEMMA Fields ==
  ASSUME NEW s \in Registry
  PROVE  /\ s.clients \in Partial(Clients, Connections) /\ s.activity \subseteq Clients \X Clients
         /\ s.foreground \subseteq Clients /\ s.effective \in Sizes \cup {MinSize}
         /\ s.owners \in Partial(Terminals, Clients)
         /\ s.locks \subseteq Terminals /\ s.terminals \subseteq Terminals
         /\ s.sizes \in [Terminals -> Sizes \cup {MinSize}]
         /\ DOMAIN s.clients \subseteq Clients /\ s.clients \in [DOMAIN s.clients -> Connections]
         /\ DOMAIN s.owners \subseteq Terminals /\ s.owners \in [DOMAIN s.owners -> Clients]
<1>1. /\ s.clients \in Partial(Clients, Connections) /\ s.activity \subseteq Clients \X Clients
      /\ s.foreground \subseteq Clients /\ s.effective \in Sizes \cup {MinSize}
      /\ s.owners \in Partial(Terminals, Clients)
      /\ s.locks \subseteq Terminals /\ s.terminals \subseteq Terminals
      /\ s.sizes \in [Terminals -> Sizes \cup {MinSize}]
  BY DEF Registry
<1> QED
  BY <1>1, PartialMap

-----------------------------------------------------------------------------
(* Who was used last.                                                      *)

\* At most one full client was used last, and one if there are any.
LEMMA Latest ==
  ASSUME NEW s, Ordered(s)
  PROVE  /\ latest_app_client(s) \subseteq FullApps(s)
         /\ \A c, d \in latest_app_client(s) : c = d
         /\ FullApps(s) # {} => latest_app_client(s) # {}
<1> DEFINE F == FullApps(s)
           Above(c) == {d \in F : <<c, d>> \in s.activity}
           T == {Above(c) : c \in F}
<1>1. F \subseteq DOMAIN s.clients /\ IsFiniteSet(F)
  <2>1. F \subseteq DOMAIN s.clients
    BY DEF FullApps
  <2> QED
    BY <2>1, FS_Subset DEF Ordered
<1>2. /\ \A c, d \in F : <<c, d>> \in s.activity <=> c # d /\ <<d, c>> \notin s.activity
      /\ \A c, d, e \in F :
           <<c, d>> \in s.activity /\ <<d, e>> \in s.activity => <<c, e>> \in s.activity
  <2> HIDE DEF F
  <2> QED
    BY <1>1 DEF Ordered
<1>3. latest_app_client(s) \subseteq F /\ \A c, d \in latest_app_client(s) : c = d
  <2> HIDE DEF F
  <2>1. latest_app_client(s) = {c \in F : \A d \in F \ {c} : <<d, c>> \in s.activity}
    BY DEF latest_app_client, F
  <2> QED
    BY <1>2, <2>1
<1>4. ASSUME F # {} PROVE latest_app_client(s) # {}
  <2>1. T # {} /\ T \subseteq FiniteSubsetsOf(F)
    <3>1. \A c \in F : Above(c) \in SUBSET F /\ IsFiniteSet(Above(c))
      BY <1>1, FS_Subset
    <3> QED
      BY <1>4, <3>1 DEF FiniteSubsetsOf
  <2>2. PICK U \in T : \A V \in T : ~(<<V, U>> \in StrictSubsetOrdering(F))
    <3> HIDE DEF T, F
    <3> QED
      BY ONLY <2>1, FS_StrictSubsetOrderingWellFounded, WFMin
  <2>3. PICK c \in F : U = Above(c)
    OBVIOUS
  <2>4. ASSUME NEW d \in Above(c) PROVE FALSE
    <3>1. d \in F /\ <<c, d>> \in s.activity
      OBVIOUS
    <3>2. Above(d) \subseteq Above(c) /\ d \notin Above(d)
      <4> HIDE DEF F
      <4> QED
        BY <1>2, <2>3, <3>1
    <3>3. <<Above(d), Above(c)>> \in StrictSubsetOrdering(F)
      BY <3>2, Above(d) \in SUBSET F, Above(c) \in SUBSET F DEF StrictSubsetOrdering
    <3> QED
      BY <2>2, <2>3, <3>1, <3>3
  <2>5. \A d \in F \ {c} : <<d, c>> \in s.activity
    <3>1. TAKE d \in F \ {c}
    <3>2. <<c, d>> \notin s.activity
      BY <2>4
    <3> HIDE DEF F
    <3> QED
      BY <1>2, <2>3, <3>2
  <2> QED
    BY <2>3, <2>5 DEF latest_app_client
<1> QED
  BY <1>3, <1>4

\* Nothing changes about who is in the foreground, and what is left of the full
\* clients was used before it as before.
LEMMA FrontKept ==
  ASSUME NEW s, NEW r, Foremost(s), r.foreground = s.foreground, FullApps(r) \subseteq FullApps(s),
         \A f \in s.foreground : f \in DOMAIN r.clients /\ r.clients[f].mode # "observe",
         \A f \in s.foreground : \A d \in FullApps(r) \ {f} :
           <<d, f>> \in s.activity => <<d, f>> \in r.activity
  PROVE  Foremost(r)
BY DEF Foremost

\* Being stamped keeps the order, and the client that is stamped is the latest.
LEMMA Stamped ==
  ASSUME NEW s \in Registry, Ordered(s), NEW c \in DOMAIN s.clients
  PROVE  /\ stamp(s, c) \in Registry /\ Ordered(stamp(s, c))
         /\ stamp(s, c) = [s EXCEPT !.activity = stamp(s, c).activity]
         /\ \A d \in DOMAIN s.clients \ {c} : <<d, c>> \in stamp(s, c).activity
         /\ \A d, e \in DOMAIN s.clients \ {c} :
              <<d, e>> \in stamp(s, c).activity <=> <<d, e>> \in s.activity
<1> DEFINE D == DOMAIN s.clients
           A == {pair \in s.activity : pair[1] # c} \cup ((D \ {c}) \X {c})
           r == [s EXCEPT !.activity = A]
<1>1. D \subseteq Clients
  BY Fields
<1>2. stamp(s, c) = r
  BY DEF stamp, Registry
<1>3. s.activity \subseteq D \X D
  BY DEF Ordered
<1>4. A \subseteq D \X D
  <2> HIDE DEF D
  <2> QED
    BY <1>3 DEF D
<1>5. r \in Registry /\ r.activity = A /\ r.clients = s.clients
  <2>1. A \in SUBSET (Clients \X Clients)
    <3> HIDE DEF A, D
    <3> QED
      BY <1>1, <1>4
  <2> HIDE DEF A
  <2> QED
    BY <2>1 DEF Registry
<1>6. \A d, e \in D : <<d, e>> \in A <=>
        \/ <<d, e>> \in s.activity /\ d # c
        \/ d # c /\ e = c
  <2> HIDE DEF D
  <2> QED
    BY <1>3 DEF D
<1>7. Ordered(r)
  <2>1. IsFiniteSet(D)
    BY DEF Ordered
  <2>2. /\ \A d, e \in D : <<d, e>> \in s.activity <=> d # e /\ <<e, d>> \notin s.activity
        /\ \A d, e, f \in D :
             <<d, e>> \in s.activity /\ <<e, f>> \in s.activity => <<d, f>> \in s.activity
    BY DEF Ordered
  <2>3. /\ \A d, e \in D : <<d, e>> \in A <=> d # e /\ <<e, d>> \notin A
        /\ \A d, e, f \in D : <<d, e>> \in A /\ <<e, f>> \in A => <<d, f>> \in A
    <3> HIDE DEF D, A
    <3> QED
      BY <1>6, <2>2
  <2> HIDE DEF r, A
  <2> QED
    BY <1>4, <1>5, <2>1, <2>3 DEF Ordered
<1>8. \A d \in D \ {c} : <<d, c>> \in A
  <2>1. c \in D
    OBVIOUS
  <2> HIDE DEF D, A
  <2> QED
    BY <1>6, <2>1
<1> HIDE DEF A
<1> QED
  BY <1>2, <1>5, <1>6, <1>7, <1>8

-----------------------------------------------------------------------------
(* The foreground and the sizes.                                           *)

\* `r` is `s` but for the foreground and the sizes.
Kept(s, r) ==
  /\ r \in Registry
  /\ r.clients = s.clients /\ r.activity = s.activity
  /\ r.owners = s.owners /\ r.locks = s.locks /\ r.terminals = s.terminals

\* What is left as it is then.
LEMMA KeptFacts ==
  ASSUME NEW s, NEW r, r.clients = s.clients, r.activity = s.activity
  PROVE  /\ FullApps(r) = FullApps(s)
         /\ Ordered(s) => Ordered(r)
         /\ Kinds(s) => Kinds(r)
         /\ Foremost(s) /\ r.foreground = s.foreground => Foremost(r)
         /\ Effective(s) /\ r.foreground = s.foreground /\ r.effective = s.effective
            => Effective(r)
<1>1. FullApps(r) = FullApps(s)
  BY DEF FullApps
<1>2. Ordered(s) => Ordered(r)
  BY DEF Ordered
<1>3. Kinds(s) => Kinds(r)
  BY DEF Kinds
<1>4. Foremost(s) /\ r.foreground = s.foreground => Foremost(r)
  BY <1>1 DEF Foremost
<1>5. Effective(s) /\ r.foreground = s.foreground /\ r.effective = s.effective => Effective(r)
  BY DEF Effective
<1> QED
  BY <1>1, <1>2, <1>3, <1>4, <1>5

\* ... and with the sizes the owners.
LEMMA KeptOwners ==
  ASSUME NEW s, NEW r, Kept(s, r), r.sizes = s.sizes, Owned(s)
  PROVE  Owned(r)
BY DEF Kept, Owned

\* sync_foreground: the effective size is that of the foreground client.
LEMMA Synced ==
  ASSUME NEW s \in Registry, Foremost(s)
  PROVE  LET r == sync_foreground(s)
         IN  /\ Kept(s, r) /\ r.sizes = s.sizes /\ r.foreground = s.foreground
             /\ Foreground(r)
<1> DEFINE r == sync_foreground(s)
           size == s.clients[CHOOSE c \in s.foreground : TRUE].size
<1>1. CASE s.foreground = {}
  <2> DEFINE q == [s EXCEPT !.foreground = {}, !.effective = MinSize]
  <2>1. r = q
    BY <1>1 DEF sync_foreground
  <2>2. q \in Registry
    BY DEF Registry
  <2>3. /\ q.clients = s.clients /\ q.activity = s.activity /\ q.owners = s.owners
        /\ q.locks = s.locks /\ q.terminals = s.terminals /\ q.sizes = s.sizes
        /\ q.foreground = {} /\ q.effective = MinSize
    BY DEF Registry
  <2> HIDE DEF q
  <2>4. Foremost(q)
    BY <1>1, <2>3, KeptFacts
  <2>5. Effective(q)
    BY <2>3 DEF Effective
  <2> QED
    BY <1>1, <2>1, <2>2, <2>3, <2>4, <2>5 DEF Kept, Foreground
<1>2. CASE s.foreground # {}
  <2> DEFINE q == [s EXCEPT !.effective = size]
  <2>1. PICK f \in DOMAIN s.clients : s.foreground = {f}
    BY <1>2 DEF Foremost
  <2>2. size = s.clients[f].size /\ s.foreground \cap DOMAIN s.clients # {}
    BY <2>1
  <2>3. r = q
    BY <2>2 DEF sync_foreground
  <2>4. size \in Sizes
    BY <2>2, Fields DEF Connections
  <2> HIDE DEF size
  <2>5. q \in Registry
    BY <2>4 DEF Registry
  <2>6. /\ q.clients = s.clients /\ q.activity = s.activity /\ q.owners = s.owners
        /\ q.locks = s.locks /\ q.terminals = s.terminals /\ q.sizes = s.sizes
        /\ q.foreground = s.foreground /\ q.effective = size
    BY DEF Registry
  <2> HIDE DEF q
  <2>7. Foremost(q)
    BY <2>6, KeptFacts
  <2>8. Effective(q)
    BY <2>1, <2>2, <2>6 DEF Effective
  <2> QED
    BY <2>3, <2>5, <2>6, <2>7, <2>8 DEF Kept, Foreground
<1> QED
  BY <1>1, <1>2

\* promote_latest: whoever was used last is the foreground client.
LEMMA PromotedLatest ==
  ASSUME NEW s \in Registry, Ordered(s)
  PROVE  LET r == promote_latest(s)
         IN  Kept(s, r) /\ r.sizes = s.sizes /\ Foreground(r)
<1> DEFINE L == latest_app_client(s)
           q == [s EXCEPT !.foreground = L]
<1>1. L \in SUBSET Clients
  BY Latest, Fields DEF FullApps
<1> HIDE DEF L
<1>2. q \in Registry
  BY <1>1 DEF Registry
<1>3. /\ q.clients = s.clients /\ q.activity = s.activity /\ q.owners = s.owners
      /\ q.locks = s.locks /\ q.terminals = s.terminals /\ q.sizes = s.sizes
      /\ q.foreground = L
  BY DEF Registry
<1>4. promote_latest(s) = sync_foreground(q)
  BY DEF promote_latest, L
<1> HIDE DEF q
<1>5. Foremost(q)
  <2>1. /\ L \subseteq FullApps(s) /\ \A c, d \in L : c = d
        /\ FullApps(s) # {} => L # {}
    BY Latest DEF L
  <2>2. FullApps(q) = FullApps(s)
    BY <1>3, KeptFacts
  <2>3. CASE L = {}
    BY <1>3, <2>1, <2>2, <2>3 DEF Foremost
  <2>4. CASE L # {}
    <3>1. PICK f \in L : TRUE
      BY <2>4
    <3>2. L = {f} /\ \A d \in FullApps(s) \ {f} : <<d, f>> \in s.activity
      BY <2>1, <3>1 DEF L, latest_app_client
    <3>3. f \in DOMAIN s.clients /\ s.clients[f].mode = "app"
      BY <2>1, <3>1 DEF FullApps, is_full_app
    <3> QED
      BY <1>3, <2>2, <3>2, <3>3 DEF Foremost
  <2> QED
    BY <2>3, <2>4
<1> QED
  BY <1>2, <1>3, <1>4, <1>5, Synced DEF Kept

\* promote_client_to_foreground, for any client but an observer.
LEMMA Promoted ==
  ASSUME NEW s \in Registry, Kinds(s), Ordered(s), Owned(s), NEW c \in DOMAIN s.clients,
         s.clients[c].mode # "observe"
  PROVE  LET r == promote(s, c)
         IN  /\ Sound(r) /\ r.clients = s.clients /\ r.owners = s.owners
             /\ r.locks = s.locks /\ r.terminals = s.terminals /\ r.sizes = s.sizes
             /\ r.foreground = {c}
<1> DEFINE p == stamp(s, c)
           q == [p EXCEPT !.foreground = {c}]
           r == promote(s, c)
<1>1. c \in Clients
  BY Fields
<1>2. /\ p \in Registry /\ Ordered(p) /\ p = [s EXCEPT !.activity = p.activity]
      /\ \A d \in DOMAIN s.clients \ {c} : <<d, c>> \in p.activity
  BY Stamped
<1>3. /\ p.clients = s.clients /\ p.owners = s.owners /\ p.locks = s.locks
      /\ p.terminals = s.terminals /\ p.sizes = s.sizes
  <2> DEFINE a == p.activity
  <2>1. p = [s EXCEPT !.activity = a]
    BY <1>2
  <2> HIDE DEF a, p
  <2> QED
    BY <2>1 DEF Registry
<1> HIDE DEF p
<1>4. /\ q \in Registry /\ q.foreground = {c}
      /\ q.clients = p.clients /\ q.activity = p.activity /\ q.owners = p.owners
      /\ q.locks = p.locks /\ q.terminals = p.terminals /\ q.sizes = p.sizes
  BY <1>1, <1>2 DEF Registry
<1>5. r = sync_foreground(q)
  BY DEF promote, p
<1> HIDE DEF q, r
<1>6. Ordered(q) /\ Foremost(q)
  <2>1. FullApps(q) \subseteq DOMAIN s.clients
    BY <1>3, <1>4 DEF FullApps
  <2> QED
    BY <1>2, <1>3, <1>4, <2>1, KeptFacts DEF Foremost
<1>7. Kept(q, r) /\ r.sizes = q.sizes /\ r.foreground = {c} /\ Foreground(r)
  BY <1>4, <1>5, <1>6, Synced
<1>8. Ordered(r)
  BY <1>6, <1>7, KeptFacts DEF Kept
<1>9. Kinds(r)
  BY <1>3, <1>4, <1>7 DEF Kept, Kinds
<1>10. Owned(r)
  BY <1>3, <1>4, <1>7 DEF Kept, Owned
<1> QED
  BY <1>3, <1>4, <1>7, <1>8, <1>9, <1>10 DEF Kept, Sound, r

\* The layout changes the sizes of terminals, and leaves owned ones alone.
LEMMA FittedPanes ==
  ASSUME NEW s, Sound(s)
  PROVE  LET r == fit_panes(s)
         IN  /\ Kept(s, r) /\ Sound(r) /\ Fitted(r)
             /\ r.foreground = s.foreground /\ r.effective = s.effective
<1> DEFINE z == [t \in Terminals |-> IF t \in s.terminals \ s.locks
                                     THEN s.effective ELSE s.sizes[t]]
           r == [s EXCEPT !.sizes = z]
<1>1. fit_panes(s) = r
  BY DEF fit_panes, Sound, Registry
<1>2. s \in Registry
  BY DEF Sound
<1>3. z \in [Terminals -> Sizes \cup {MinSize}]
  BY <1>2, Fields
<1>4. /\ \A t \in Terminals : t \in s.terminals \ s.locks => z[t] = s.effective
      /\ \A t \in Terminals : t \notin s.terminals \ s.locks => z[t] = s.sizes[t]
  OBVIOUS
<1> HIDE DEF z
<1>5. /\ r \in Registry /\ r.sizes = z
      /\ r.clients = s.clients /\ r.activity = s.activity /\ r.owners = s.owners
      /\ r.locks = s.locks /\ r.terminals = s.terminals
      /\ r.foreground = s.foreground /\ r.effective = s.effective
  BY <1>2, <1>3 DEF Registry
<1> HIDE DEF r
<1>6. Kinds(r) /\ Ordered(r)
  BY <1>5, KeptFacts DEF Sound
<1>7. Foreground(r)
  BY <1>5, KeptFacts DEF Sound, Foreground
<1>8. Owned(r) /\ Fitted(r)
  <2>1. Owned(s)
    BY DEF Sound
  <2>2. /\ s.terminals \subseteq Terminals /\ DOMAIN s.owners \subseteq Terminals
        /\ \A t \in s.terminals : t \in s.locks <=> t \in DOMAIN s.owners
    BY <1>2, <2>1, Fields DEF Owned
  <2>3. \A t \in s.terminals : t \in DOMAIN s.owners => z[t] = s.sizes[t]
    BY <1>4, <2>2
  <2>4. \A t \in s.terminals : t \notin DOMAIN s.owners => z[t] = s.effective
    BY <1>4, <2>2
  <2>5. Owned(r)
    BY <1>5, <2>1, <2>3 DEF Owned
  <2>6. Fitted(r)
    BY <1>5, <2>4 DEF Fitted
  <2> QED
    BY <2>5, <2>6
<1> QED
  BY <1>1, <1>5, <1>6, <1>7, <1>8 DEF Kept, Sound

\* resize_shared_runtime_to_effective_size.
LEMMA Resized ==
  ASSUME NEW s, Sound(s)
  PROVE  LET r == resize_shared(s)
         IN  /\ Kept(s, r) /\ Sound(r) /\ Fitted(r)
             /\ r.foreground = s.foreground /\ r.effective = s.effective
<1>1. CASE s.foreground = {}
  <2>1. resize_shared(s) = s
    BY <1>1 DEF resize_shared
  <2>2. Kept(s, s) /\ Fitted(s)
    BY <1>1 DEF Kept, Fitted, Sound
  <2> QED
    BY <2>1, <2>2
<1>2. CASE s.foreground # {}
  BY <1>2, FittedPanes DEF resize_shared
<1> QED
  BY <1>1, <1>2

\* While the same client is in the foreground, the shared sizes fit as before.
LEMMA SameFront ==
  ASSUME NEW s, NEW r, Foreground(s), Foreground(r), r.clients = s.clients,
         r.owners = s.owners, r.terminals = s.terminals, r.sizes = s.sizes,
         r.foreground = s.foreground
  PROVE  /\ (\A f \in s.foreground : s.clients[f].mode = "app") => r.effective = s.effective
         /\ Fitted(s) => Fitted(r)
<1>1. ASSUME NEW f \in s.foreground, s.clients[f].mode = "app" PROVE r.effective = s.effective
  BY <1>1 DEF Foreground, Effective
<1>2. s.foreground = {} => r.effective = s.effective
  BY DEF Foreground, Effective
<1>3. FullApps(r) = FullApps(s) /\ \A f \in FullApps(s) : s.clients[f].mode = "app"
  BY DEF FullApps, is_full_app
<1>4. Fitted(s) => Fitted(r)
  BY <1>1, <1>3 DEF Fitted
<1> QED
  BY <1>1, <1>2, <1>4

\* sync_foreground, at any time.
LEMMA Resynced ==
  ASSUME NEW s, Sound(s)
  PROVE  LET r == sync_foreground(s)
         IN  /\ Kept(s, r) /\ Sound(r) /\ r.sizes = s.sizes /\ r.foreground = s.foreground
             /\ (\A f \in s.foreground : s.clients[f].mode = "app")
                  => r.effective = s.effective
             /\ Fitted(s) => Fitted(r)
<1> DEFINE r == sync_foreground(s)
<1>1. s \in Registry /\ Kinds(s) /\ Ordered(s) /\ Owned(s) /\ Foreground(s)
  BY DEF Sound
<1>2. Kept(s, r) /\ r.sizes = s.sizes /\ r.foreground = s.foreground /\ Foreground(r)
  BY <1>1, Synced DEF Foreground
<1> HIDE DEF r
<1>3. Sound(r)
  BY <1>1, <1>2, KeptFacts, KeptOwners DEF Kept, Sound
<1>4. /\ (\A f \in s.foreground : s.clients[f].mode = "app") => r.effective = s.effective
      /\ Fitted(s) => Fitted(r)
  BY <1>1, <1>2, SameFront DEF Kept
<1> QED
  BY <1>2, <1>3, <1>4 DEF r

-----------------------------------------------------------------------------
(* Clients go.                                                             *)

\* `r` is `s` with some clients less, and what they owned.
Less(s, r) ==
  /\ r.terminals = s.terminals
  /\ DOMAIN r.clients \subseteq DOMAIN s.clients
  /\ \A c \in DOMAIN r.clients : r.clients[c] = s.clients[c]
  /\ DOMAIN r.owners \subseteq DOMAIN s.owners /\ r.locks \subseteq s.locks

\* What a client leaves behind that goes, and whose terminals are disowned.
LEMMA Forgotten ==
  ASSUME NEW s, Sound(s), NEW c \in DOMAIN s.clients, NEW owned \in SUBSET Terminals,
         s.clients[c].mode = "attach" => owned = s.clients[c].terminal,
         s.clients[c].mode # "attach" => owned = {}
  PROVE  LET r == disown(forget(s, c), owned)
         IN  /\ r \in Registry /\ Kinds(r) /\ Ordered(r) /\ Owned(r) /\ Less(s, r)
             /\ DOMAIN r.clients = DOMAIN s.clients \ {c}
             /\ r.sizes = s.sizes /\ r.foreground = s.foreground /\ r.effective = s.effective
             /\ s.foreground # {c} => Foremost(r)
             /\ s.clients[c].mode # "attach" => r.owners = s.owners
<1> DEFINE D == DOMAIN s.clients \ {c}
           C == [d \in D |-> s.clients[d]]
           A == {pair \in s.activity : c \notin {pair[1], pair[2]}}
           E == DOMAIN s.owners \ owned
           O == [t \in E |-> s.owners[t]]
           K == s.locks \ (owned \cap s.terminals)
           r == [s EXCEPT !.clients = C, !.activity = A, !.owners = O, !.locks = K]
<1>1. s \in Registry /\ Kinds(s) /\ Ordered(s) /\ Owned(s) /\ Foreground(s)
  BY DEF Sound
<1>2. disown(forget(s, c), owned) = r
  BY <1>1 DEF disown, forget, Without, Registry
<1>3. /\ DOMAIN s.clients \subseteq Clients /\ s.clients \in [DOMAIN s.clients -> Connections]
      /\ DOMAIN s.owners \subseteq Terminals /\ s.owners \in [DOMAIN s.owners -> Clients]
      /\ s.activity \subseteq Clients \X Clients
      /\ s.locks \subseteq Terminals /\ s.terminals \subseteq Terminals
  BY <1>1, Fields
<1>4. /\ DOMAIN C = D /\ D \subseteq Clients /\ C \in [D -> Connections]
      /\ \A d \in D : C[d] = s.clients[d]
  BY <1>3
<1>5. /\ DOMAIN O = E /\ E \subseteq Terminals /\ O \in [E -> Clients]
      /\ \A t \in E : O[t] = s.owners[t]
  BY <1>3
<1>6. C \in Partial(Clients, Connections) /\ O \in Partial(Terminals, Clients)
  <2> HIDE DEF C, O, D, E
  <2> QED
    BY <1>4, <1>5, PartialMap
<1>7. A \subseteq Clients \X Clients /\ A \subseteq D \X D
  <2> DEFINE F == DOMAIN s.clients
  <2>1. s.activity \subseteq F \X F
    BY <1>1 DEF Ordered
  <2> HIDE DEF F
  <2> QED
    BY <1>3, <2>1 DEF F
<1>8. \A d, e \in D : <<d, e>> \in A <=> <<d, e>> \in s.activity
  OBVIOUS
<1> HIDE DEF C, A, O, K, D, E
<1>9. /\ r \in Registry /\ r.sizes = s.sizes /\ r.foreground = s.foreground
      /\ r.effective = s.effective /\ r.terminals = s.terminals
      /\ r.clients = C /\ r.activity = A /\ r.owners = O /\ r.locks = K
  <2>1. K \in SUBSET Terminals /\ A \in SUBSET (Clients \X Clients)
    BY <1>3, <1>7 DEF K
  <2> QED
    BY <1>1, <1>6, <2>1 DEF Registry
<1> HIDE DEF r
<1>10. Kinds(r)
  BY <1>1, <1>4, <1>9 DEF Kinds, D
<1>11. Ordered(r)
  <2>1. IsFiniteSet(D)
    BY <1>1, FS_RemoveElement DEF Ordered, D
  <2>2. /\ \A d, e \in D : <<d, e>> \in A <=> d # e /\ <<e, d>> \notin A
        /\ \A d, e, f \in D : <<d, e>> \in A /\ <<e, f>> \in A => <<d, f>> \in A
    <3>1. D \subseteq DOMAIN s.clients
      BY DEF D
    <3> QED
      BY <1>1, <1>8, <3>1 DEF Ordered
  <2> QED
    BY <1>4, <1>7, <1>9, <2>1, <2>2 DEF Ordered
<1>12. Owned(r)
  <2>1. /\ \A t \in DOMAIN s.owners :
             /\ s.owners[t] \in DOMAIN s.clients
             /\ s.clients[s.owners[t]].mode = "attach" /\ s.clients[s.owners[t]].terminal = {t}
             /\ t \in s.terminals => s.sizes[t] = s.clients[s.owners[t]].size
        /\ \A d \in DOMAIN s.clients : s.clients[d].mode = "attach" =>
             \A t \in s.clients[d].terminal : t \in DOMAIN s.owners /\ s.owners[t] = d
        /\ \A t \in s.terminals : t \in s.locks <=> t \in DOMAIN s.owners
    BY <1>1 DEF Owned
  <2>2. ASSUME NEW t \in DOMAIN s.owners PROVE t \in owned <=> s.owners[t] = c
    <3>1. s.owners[t] = c => s.clients[c].mode = "attach" /\ s.clients[c].terminal = {t}
      BY <2>1
    <3>2. t \in owned => s.clients[c].mode = "attach" /\ t \in s.clients[c].terminal
      OBVIOUS
    <3> QED
      BY <2>1, <3>1, <3>2
  <2>3. \A t \in DOMAIN O :
          /\ O[t] \in DOMAIN C
          /\ C[O[t]].mode = "attach" /\ C[O[t]].terminal = {t}
          /\ t \in s.terminals => s.sizes[t] = C[O[t]].size
    <3>1. TAKE t \in DOMAIN O
    <3>2. t \in DOMAIN s.owners /\ t \notin owned /\ O[t] = s.owners[t]
      BY <1>5 DEF E
    <3>3. O[t] \in D
      BY <2>1, <2>2, <3>2 DEF D
    <3> QED
      BY <1>4, <2>1, <3>2, <3>3
  <2>4. \A d \in DOMAIN C : C[d].mode = "attach" =>
          \A t \in C[d].terminal : t \in DOMAIN O /\ O[t] = d
    <3>1. TAKE d \in DOMAIN C
    <3>2. d \in DOMAIN s.clients /\ d # c /\ C[d] = s.clients[d]
      BY <1>4 DEF D
    <3>3. HAVE C[d].mode = "attach"
    <3>4. TAKE t \in C[d].terminal
    <3>5. t \in DOMAIN s.owners /\ s.owners[t] = d
      BY <2>1, <3>2, <3>3
    <3>6. t \in E
      BY <2>2, <3>2, <3>5 DEF E
    <3> QED
      BY <1>5, <3>5, <3>6
  <2>5. \A t \in s.terminals : t \in K <=> t \in DOMAIN O
    BY <1>5, <2>1 DEF E, K
  <2> QED
    BY <1>9, <2>3, <2>4, <2>5 DEF Owned
<1>13. Less(s, r)
  BY <1>4, <1>5, <1>9 DEF Less, D, E, K
<1>14. ASSUME s.foreground # {c} PROVE Foremost(r)
  <2>1. FullApps(r) = FullApps(s) \ {c} /\ FullApps(r) \subseteq D
    BY <1>4, <1>9 DEF FullApps, D
  <2>2. Foremost(s)
    BY <1>1 DEF Foreground
  <2>3. \A f \in s.foreground : f \in D /\ s.clients[f].mode # "observe"
    BY <1>14, <2>2 DEF Foremost, D
  <2>4. \A f \in s.foreground : f \in DOMAIN r.clients /\ r.clients[f].mode # "observe"
    BY <1>4, <1>9, <2>3
  <2>5. \A f \in s.foreground : \A d \in FullApps(r) \ {f} :
          <<d, f>> \in s.activity => <<d, f>> \in r.activity
    BY <1>8, <1>9, <2>1, <2>3
  <2>6. r.foreground = s.foreground /\ FullApps(r) \subseteq FullApps(s)
    BY <1>9, <2>1
  <2> QED
    BY ONLY <2>2, <2>4, <2>5, <2>6, FrontKept
<1>15. ASSUME s.clients[c].mode # "attach" PROVE O = s.owners
  <2>1. E = DOMAIN s.owners
    BY <1>15 DEF E
  <2> QED
    BY <1>3, <1>5, <2>1
<1> QED
  BY <1>2, <1>4, <1>9, <1>10, <1>11, <1>12, <1>13, <1>14, <1>15 DEF D, r

\* remove_client keeps the registry sound, and where it asks for no resize
\* nothing needs one.
LEMMA Removed ==
  ASSUME NEW s, Sound(s), NEW c \in DOMAIN s.clients
  PROVE  LET r == remove_client(s, c)
         IN  /\ Sound(r) /\ Less(s, r) /\ DOMAIN r.clients = DOMAIN s.clients \ {c}
             /\ ~needs_shared_resize(s, c) /\ Fitted(s) => Fitted(r)
<1> DEFINE owned == IF s.clients[c].mode = "attach" THEN s.clients[c].terminal ELSE {}
           gone == disown(forget(s, c), owned)
           r == remove_client(s, c)
<1>1. s \in Registry /\ Foreground(s) /\ s.clients[c] \in Connections
  <2>1. s \in Registry /\ Foreground(s)
    BY DEF Sound
  <2> QED
    BY <2>1, Fields
<1>2. owned \in SUBSET Terminals
  BY <1>1 DEF Connections
<1>3. /\ s.clients[c].mode = "attach" => owned = s.clients[c].terminal
      /\ s.clients[c].mode # "attach" => owned = {}
  OBVIOUS
<1>4. r = IF s.foreground = {c} THEN promote_latest(gone) ELSE gone
  BY DEF remove_client
<1> HIDE DEF owned
<1>5. /\ gone \in Registry /\ Kinds(gone) /\ Ordered(gone) /\ Owned(gone) /\ Less(s, gone)
      /\ DOMAIN gone.clients = DOMAIN s.clients \ {c}
      /\ gone.sizes = s.sizes /\ gone.foreground = s.foreground
      /\ gone.effective = s.effective
      /\ s.foreground # {c} => Foremost(gone)
      /\ s.clients[c].mode # "attach" => gone.owners = s.owners
  BY <1>2, <1>3, Forgotten
<1> HIDE DEF gone, r
<1>6. CASE s.foreground = {c}
  <2>1. Kept(gone, r) /\ r.sizes = gone.sizes /\ Foreground(r)
    BY <1>4, <1>5, <1>6, PromotedLatest
  <2>2. Kinds(r) /\ Ordered(r) /\ Owned(r)
    BY <1>5, <2>1, KeptFacts, KeptOwners DEF Kept
  <2>3. Less(s, r) /\ DOMAIN r.clients = DOMAIN s.clients \ {c}
    BY <1>5, <2>1 DEF Kept, Less
  <2> QED
    BY <1>6, <2>1, <2>2, <2>3 DEF Sound, Kept, needs_shared_resize, r
<1>7. CASE s.foreground # {c}
  <2>1. r = gone
    BY <1>4, <1>7
  <2>2. \A d \in s.foreground : d \in DOMAIN gone.clients /\ gone.clients[d] = s.clients[d]
    <3>1. \A d \in s.foreground : d \in DOMAIN s.clients /\ d # c
      BY <1>1, <1>7 DEF Foreground, Foremost
    <3> QED
      BY <1>5, <3>1 DEF Less
  <2>3. Foreground(gone)
    BY <1>1, <1>5, <1>7, <2>2 DEF Foreground, Effective
  <2>4. ASSUME ~needs_shared_resize(s, c), Fitted(s) PROVE Fitted(gone)
    <3>1. CASE s.foreground = {}
      BY <1>5, <3>1 DEF Fitted
    <3>2. CASE s.clients[c].mode = "app"
      <4>1. gone.owners = s.owners /\ gone.terminals = s.terminals
        BY <1>5, <3>2 DEF Less
      <4>2. \A d \in gone.foreground \cap FullApps(gone) : d \in s.foreground \cap FullApps(s)
        BY <1>5, <2>2 DEF FullApps
      <4> QED
        BY <1>5, <2>2, <2>4, <4>1, <4>2 DEF Fitted
    <3> QED
      BY <2>4, <3>1, <3>2 DEF needs_shared_resize
  <2> QED
    BY <1>5, <2>1, <2>3, <2>4 DEF Sound, r
<1> QED
  BY <1>6, <1>7

\* What is less stays less.
LEMMA LessTransitive ==
  ASSUME NEW s, NEW r, NEW q, Less(s, r), Less(r, q)
  PROVE  Less(s, q)
BY DEF Less

\* remove_client_and_resize_if_needed also keeps the shared sizes.
LEMMA Dropped ==
  ASSUME NEW s, Sound(s), NEW c
  PROVE  LET r == drop(s, c)
         IN  /\ Sound(r) /\ Less(s, r) /\ DOMAIN r.clients = DOMAIN s.clients \ {c}
             /\ Fitted(s) => Fitted(r)
<1>1. CASE c \notin DOMAIN s.clients
  BY <1>1 DEF drop, Less
<1>2. CASE c \in DOMAIN s.clients
  <2> DEFINE q == remove_client(s, c)
             r == drop(s, c)
  <2>1. /\ Sound(q) /\ Less(s, q) /\ DOMAIN q.clients = DOMAIN s.clients \ {c}
        /\ ~needs_shared_resize(s, c) /\ Fitted(s) => Fitted(q)
    BY <1>2, Removed
  <2>2. r = IF needs_shared_resize(s, c) THEN resize_shared(q) ELSE q
    BY <1>2 DEF drop
  <2> HIDE DEF q, r
  <2>3. CASE needs_shared_resize(s, c)
    <3>1. Kept(q, r) /\ Sound(r) /\ Fitted(r)
      BY <2>1, <2>2, <2>3, Resized
    <3> QED
      BY <2>1, <3>1 DEF Kept, Less, r
  <2>4. CASE ~needs_shared_resize(s, c)
    BY <2>1, <2>2, <2>4 DEF r
  <2> QED
    BY <2>3, <2>4
<1> QED
  BY <1>1, <1>2

-----------------------------------------------------------------------------
(* Many clients go, one after the other.                                   *)

\* An order of a set has every element of it once.
LEMMA OrderProperties ==
  ASSUME NEW set, IsFiniteSet(set), NEW order \in Orders(set)
  PROVE  /\ Len(order) = Cardinality(set) /\ Cardinality(set) \in Nat
         /\ \A k \in 1..Len(order) : order[k] \in set
         /\ \A i, j \in 1..Len(order) : order[i] = order[j] => i = j
         /\ \A c \in set : \E k \in 1..Len(order) : c = order[k]
         /\ set = {} => Len(order) = 0
<1> DEFINE n == Cardinality(set)
<1>1. n \in Nat
  BY FS_CardinalityType
<1>2. /\ order \in [1..n -> set]
      /\ \A i, j \in 1..n : order[i] = order[j] => i = j
  <2>1. order \in [1..n -> set] /\ \A i, j \in DOMAIN order : order[i] = order[j] => i = j
    BY DEF Orders
  <2> QED
    BY <2>1
<1> HIDE DEF n
<1>3. order \in Seq(set)
  BY <1>1, <1>2
<1>4. Len(order) = n
  BY <1>1, <1>2
<1>5. order \in Injection(1..n, set)
  BY <1>2 DEF Injection, IsInjective
<1>6. IsFiniteSet(1..n) /\ Cardinality(1..n) = n
  BY <1>1, FS_Interval
<1>7. order \in Surjection(1..n, set)
  BY <1>5, <1>6, FS_Injection DEF n
<1>8. \A c \in set : \E k \in 1..n : order[k] = c
  BY <1>7 DEF Surjection
<1>9. set = {} => n = 0
  BY FS_EmptySet DEF n
<1> QED
  BY <1>1, <1>2, <1>4, <1>8, <1>9 DEF n

\* A loop over a set of clients of `s`, with registries of `V` from turn to
\* turn, each of which takes one client away ...
Looping(s, set, order, V, Turn) ==
  /\ set \subseteq DOMAIN s.clients /\ IsFiniteSet(set) /\ order \in Orders(set)
  /\ s \in V /\ Turn \in [set -> [V -> V]]
  /\ \A c \in set : \A r \in V : DOMAIN Turn[c][r].clients = DOMAIN r.clients \ {c}

\* ... has one registry after each turn, and in the end all are gone.
Looped(s, set, order, V, Turn, f) ==
  /\ f \in [0..Len(order) -> V] /\ f[0] = s
  /\ \A k \in 1..Len(order) : /\ f[k] = Turn[order[k]][f[k - 1]]
                              /\ order[k] \in DOMAIN f[k - 1].clients
  /\ DOMAIN f[Len(order)].clients = DOMAIN s.clients \ set

\* Such a loop runs to its end.
LEMMA AllGone ==
  ASSUME NEW s, NEW set, NEW order, NEW V, NEW Turn, Looping(s, set, order, V, Turn)
  PROVE  \E f : Looped(s, set, order, V, Turn, f)
<1> DEFINE n == Len(order)
           F == [k \in 1..n |-> Turn[order[k]]]
<1>0. /\ set \subseteq DOMAIN s.clients /\ IsFiniteSet(set) /\ order \in Orders(set)
      /\ s \in V /\ Turn \in [set -> [V -> V]]
      /\ \A c \in set : \A r \in V : DOMAIN Turn[c][r].clients = DOMAIN r.clients \ {c}
  BY DEF Looping
<1>1. /\ n \in Nat /\ \A k \in 1..n : order[k] \in set
      /\ \A i, j \in 1..n : order[i] = order[j] => i = j
      /\ \A c \in set : \E k \in 1..n : c = order[k]
  BY <1>0, OrderProperties
<1> HIDE DEF n
<1>2. F \in [1..n -> [V -> V]]
  BY <1>0, <1>1
<1>3. PICK f \in [0..n -> V] :
        f[0] = s /\ \A k \in 1..n : f[k] = F[k][f[k - 1]]
  <2>1. n \in Nat /\ s \in V
    BY <1>0, <1>1
  <2> HIDE DEF F
  <2> QED
    BY ONLY <1>2, <2>1, FunctionByRecursion
<1>4. \A k \in 1..n : f[k] = Turn[order[k]][f[k - 1]]
  BY <1>3
<1> DEFINE Gone(k) == {order[i] : i \in 1..k}
           Good == {k \in Nat : k <= n => DOMAIN f[k].clients = DOMAIN s.clients \ Gone(k)}
<1>5. 0 \in Good
  BY <1>3
<1>6. ASSUME NEW k \in Nat, k \in Good PROVE k + 1 \in Good
  <2>1. SUFFICES ASSUME k + 1 <= n
                 PROVE  DOMAIN f[k + 1].clients = DOMAIN s.clients \ Gone(k + 1)
    OBVIOUS
  <2>2. k <= n /\ k + 1 \in 1..n /\ (k + 1) - 1 = k /\ k \in 0..n
    BY <1>1, <2>1
  <2>3. DOMAIN f[k].clients = DOMAIN s.clients \ Gone(k)
    BY <1>6, <2>2
  <2>4. f[k + 1] = Turn[order[k + 1]][f[k]] /\ f[k] \in V /\ order[k + 1] \in set
    BY <1>0, <1>1, <1>3, <1>4, <2>2
  <2>5. DOMAIN f[k + 1].clients = DOMAIN f[k].clients \ {order[k + 1]}
    BY <1>0, <2>4
  <2>6. Gone(k + 1) = Gone(k) \cup {order[k + 1]}
    <3>1. 1..(k + 1) = 1..k \cup {k + 1}
      OBVIOUS
    <3> QED
      BY <3>1
  <2> HIDE DEF Gone
  <2> QED
    BY <2>3, <2>5, <2>6
<1>7. \A k \in 0..n : DOMAIN f[k].clients = DOMAIN s.clients \ Gone(k)
  <2>1. Nat \subseteq Good
    <3> HIDE DEF Good
    <3> QED
      BY ONLY <1>5, <1>6, SetInduction
  <2> QED
    BY <1>1, <2>1
<1>8. \A k \in 1..n : order[k] \in DOMAIN f[k - 1].clients
  <2>1. TAKE k \in 1..n
  <2>2. k - 1 \in 0..n /\ \A i \in 1..(k - 1) : i \in 1..n /\ i # k
    BY <1>1
  <2>3. order[k] \notin Gone(k - 1)
    BY <1>1, <2>2
  <2>4. order[k] \in DOMAIN s.clients
    BY <1>0, <1>1
  <2> HIDE DEF Gone
  <2> QED
    BY <1>7, <2>2, <2>3, <2>4
<1>9. DOMAIN f[n].clients = DOMAIN s.clients \ set
  <2>1. Gone(n) = set
    BY <1>0, <1>1
  <2>2. n \in 0..n
    BY <1>1
  <2> HIDE DEF Gone
  <2> QED
    BY <1>7, <2>1, <2>2
<1> QED
  BY <1>3, <1>4, <1>8, <1>9 DEF n, Looped

\* drop_all keeps the registry sound and the shared sizes, and all are gone.
LEMMA AllDropped ==
  ASSUME NEW s, Sound(s), NEW set \in SUBSET DOMAIN s.clients, NEW order \in Orders(set)
  PROVE  LET r == drop_all(s, order)
         IN  /\ Sound(r) /\ Less(s, r) /\ DOMAIN r.clients = DOMAIN s.clients \ set
             /\ Fitted(s) => Fitted(r)
             /\ set = {} => r = s
<1> DEFINE n == Len(order)
           V == {r \in Registry : Sound(r) /\ Less(s, r) /\ (Fitted(s) => Fitted(r))}
           Turn == [c \in set |-> [r \in V |-> drop(r, c)]]
           Turns(f) == f = [k \in 0..n |-> IF k = 0 THEN s ELSE drop(f[k - 1], order[k])]
<1>1. IsFiniteSet(set)
  BY FS_Subset DEF Sound, Ordered
<1>2. n \in Nat /\ (\A k \in 1..n : order[k] \in set) /\ (set = {} => n = 0)
  BY <1>1, OrderProperties
<1>3. \A r \in V, c \in set : drop(r, c) \in V /\ DOMAIN drop(r, c).clients = DOMAIN r.clients \ {c}
  <2>1. TAKE r \in V, c \in set
  <2> DEFINE q == drop(r, c)
  <2>2. /\ Sound(q) /\ Less(r, q) /\ DOMAIN q.clients = DOMAIN r.clients \ {c}
        /\ Fitted(r) => Fitted(q)
    BY Dropped
  <2> HIDE DEF q
  <2>3. q \in V
    BY <2>2, LessTransitive DEF Sound
  <2> QED
    BY <2>2, <2>3 DEF q
<1>4. s \in V
  BY DEF Sound, Less
<1> HIDE DEF V, n
<1>5. /\ Turn \in [set -> [V -> V]]
      /\ \A c \in set : \A r \in V : DOMAIN Turn[c][r].clients = DOMAIN r.clients \ {c}
  BY <1>3
<1>6. PICK f \in [0..n -> V] :
        /\ f[0] = s
        /\ \A k \in 1..n : /\ f[k] = Turn[order[k]][f[k - 1]]
                           /\ order[k] \in DOMAIN f[k - 1].clients
        /\ DOMAIN f[n].clients = DOMAIN s.clients \ set
  <2> HIDE DEF Turn
  <2>1. Looping(s, set, order, V, Turn)
    BY <1>1, <1>4, <1>5 DEF Looping
  <2>2. PICK f : Looped(s, set, order, V, Turn, f)
    BY <2>1, AllGone
  <2> QED
    BY <2>2 DEF Looped, n
<1>7. Turns(f)
  <2>1. ASSUME NEW k \in 1..n PROVE f[k] = drop(f[k - 1], order[k])
    <3>1. k - 1 \in 0..n /\ f[k - 1] \in V /\ order[k] \in set
      BY <1>2, <1>6
    <3> QED
      BY <1>6, <3>1
  <2> QED
    BY <1>2, <1>6, <2>1
<1> DEFINE left == CHOOSE g : Turns(g)
<1>8. drop_all(s, order) = left[n]
  BY DEF drop_all, n
<1>9. Turns(left)
  <2> HIDE DEF Turns
  <2> QED
    BY <1>7
<1> HIDE DEF left
<1>10. left = f
  <2> DEFINE Good == {k \in Nat : k <= n => left[k] = f[k]}
  <2>1. 0 \in Good
    BY <1>2, <1>6, <1>9
  <2>2. ASSUME NEW k \in Nat, k \in Good PROVE k + 1 \in Good
    BY <1>2, <1>7, <1>9, <2>2, (k + 1) - 1 = k
  <2>3. Nat \subseteq Good
    <3> HIDE DEF Good
    <3> QED
      BY ONLY <2>1, <2>2, SetInduction
  <2>4. DOMAIN left = 0..n /\ left = [k \in 0..n |-> left[k]]
    BY <1>9
  <2>5. \A k \in 0..n : left[k] = f[k]
    BY <1>2, <2>3
  <2> QED
    BY <1>6, <2>4, <2>5
<1>11. f[n] \in V
  BY <1>2, <1>6
<1>12. set = {} => f[n] = s
  BY <1>2, <1>6
<1> QED
  BY <1>6, <1>8, <1>10, <1>11, <1>12 DEF V

\* remove_all, of everybody, leaves nobody.
LEMMA AllRemoved ==
  ASSUME NEW s, Sound(s), NEW order \in Orders(DOMAIN s.clients)
  PROVE  LET r == remove_all(s, order)
         IN  Sound(r) /\ Less(s, r) /\ DOMAIN r.clients = {}
<1> DEFINE n == Len(order)
           set == DOMAIN s.clients
           V == {r \in Registry : Sound(r) /\ Less(s, r)}
           Turn == [c \in set |-> [r \in V |-> IF c \in DOMAIN r.clients
                                               THEN remove_client(r, c) ELSE r]]
           Turns(f) == f = [k \in 0..n |-> IF k = 0 THEN s
                                           ELSE remove_client(f[k - 1], order[k])]
<1>1. IsFiniteSet(set)
  BY DEF Sound, Ordered
<1>2. n \in Nat /\ \A k \in 1..n : order[k] \in set
  BY <1>1, OrderProperties
<1>3. \A c \in set : \A r \in V :
        Turn[c][r] \in V /\ DOMAIN Turn[c][r].clients = DOMAIN r.clients \ {c}
  <2>1. TAKE c \in set
  <2>2. TAKE r \in V
  <2>3. CASE c \in DOMAIN r.clients
    <3> DEFINE q == remove_client(r, c)
    <3>1. Sound(q) /\ Less(r, q) /\ DOMAIN q.clients = DOMAIN r.clients \ {c}
      BY <2>3, Removed
    <3>2. Turn[c][r] = q
      BY <2>3
    <3> HIDE DEF q, Turn
    <3> QED
      BY <3>1, <3>2, LessTransitive DEF Sound
  <2>4. CASE c \notin DOMAIN r.clients
    BY <2>4
  <2> QED
    BY <2>3, <2>4
<1>4. s \in V
  BY DEF Sound, Less
<1>5. Turn \in [set -> [V -> V]]
  <2> DEFINE G(c, r) == IF c \in DOMAIN r.clients THEN remove_client(r, c) ELSE r
  <2>1. \A c \in set : \A r \in V : G(c, r) \in V
    BY <1>3
  <2>2. Turn = [c \in set |-> [r \in V |-> G(c, r)]]
    OBVIOUS
  <2> HIDE DEF V, Turn, G
  <2> QED
    BY <2>1, <2>2
<1>6. PICK f \in [0..n -> V] :
        /\ f[0] = s
        /\ \A k \in 1..n : /\ f[k] = Turn[order[k]][f[k - 1]]
                           /\ order[k] \in DOMAIN f[k - 1].clients
        /\ DOMAIN f[n].clients = DOMAIN s.clients \ set
  <2> HIDE DEF Turn, V
  <2>1. Looping(s, set, order, V, Turn)
    BY <1>1, <1>3, <1>4, <1>5 DEF Looping
  <2>2. PICK f : Looped(s, set, order, V, Turn, f)
    BY <2>1, AllGone
  <2> QED
    BY <2>2 DEF Looped
<1> HIDE DEF V, n
<1>7. Turns(f)
  <2>1. ASSUME NEW k \in 1..n PROVE f[k] = remove_client(f[k - 1], order[k])
    <3>1. k - 1 \in 0..n /\ f[k - 1] \in V /\ order[k] \in set
      BY <1>2, <1>6
    <3> QED
      BY <1>6, <3>1
  <2> QED
    BY <1>2, <1>6, <2>1
<1> DEFINE left == CHOOSE g : Turns(g)
<1>8. remove_all(s, order) = left[n]
  BY DEF remove_all, n
<1>9. Turns(left)
  <2> HIDE DEF Turns
  <2> QED
    BY <1>7
<1> HIDE DEF left
<1>10. left[n] = f[n]
  <2> DEFINE Good == {k \in Nat : k <= n => left[k] = f[k]}
  <2>1. 0 \in Good
    BY <1>2, <1>6, <1>9
  <2>2. ASSUME NEW k \in Nat, k \in Good PROVE k + 1 \in Good
    BY <1>2, <1>7, <1>9, <2>2, (k + 1) - 1 = k
  <2>3. Nat \subseteq Good
    <3> HIDE DEF Good
    <3> QED
      BY ONLY <2>1, <2>2, SetInduction
  <2> QED
    BY <1>2, <2>3
<1>11. f[n] \in V
  BY <1>2, <1>6
<1> QED
  BY <1>6, <1>8, <1>10, <1>11 DEF V

-----------------------------------------------------------------------------
(* Clients come, and become clients of a terminal.                         *)

\* become_terminal_client: the client shows the terminal and is not in the
\* foreground.
LEMMA Turned ==
  ASSUME NEW s, Sound(s), NEW c \in DOMAIN s.clients, s.clients[c].mode = "app",
         s.clients[c].pending, NEW t \in Terminals, NEW mode \in {"attach", "observe"}
  PROVE  LET r == become_terminal_client(s, c, t, mode)
         IN  /\ r \in Registry /\ Kinds(r) /\ Ordered(r) /\ Foreground(r)
             /\ r.owners = s.owners /\ r.locks = s.locks /\ r.terminals = s.terminals
             /\ r.sizes = s.sizes /\ DOMAIN r.clients = DOMAIN s.clients
             /\ \A d \in DOMAIN s.clients \ {c} : r.clients[d] = s.clients[d]
             /\ r.clients[c].mode = mode /\ r.clients[c].terminal = {t}
             /\ ~r.clients[c].pending /\ r.clients[c].size = s.clients[c].size
<1> DEFINE p == stamp(s, c)
           x == [s.clients[c] EXCEPT !.mode = mode, !.pending = FALSE, !.terminal = {t}]
           C == [s.clients EXCEPT ![c] = x]
           q == [p EXCEPT !.clients = C]
           r == become_terminal_client(s, c, t, mode)
<1>1. /\ s \in Registry /\ Kinds(s) /\ Ordered(s) /\ Foreground(s)
      /\ DOMAIN s.clients \subseteq Clients /\ s.clients \in [DOMAIN s.clients -> Connections]
  BY Fields DEF Sound
<1>2. /\ p \in Registry /\ Ordered(p) /\ p = [s EXCEPT !.activity = p.activity]
      /\ \A d, e \in DOMAIN s.clients \ {c} :
           <<d, e>> \in p.activity <=> <<d, e>> \in s.activity
  BY <1>1, Stamped
<1>3. /\ p.clients = s.clients /\ p.owners = s.owners /\ p.locks = s.locks
      /\ p.terminals = s.terminals /\ p.sizes = s.sizes
      /\ p.foreground = s.foreground /\ p.effective = s.effective
  <2> DEFINE a == p.activity
  <2>1. p = [s EXCEPT !.activity = a]
    BY <1>2
  <2> HIDE DEF a, p
  <2> QED
    BY <1>1, <2>1 DEF Registry
<1> HIDE DEF p
<1>4. /\ x \in Connections /\ x.mode = mode /\ ~x.pending /\ x.terminal = {t}
      /\ x.size = s.clients[c].size /\ x.writer = s.clients[c].writer
  BY <1>1 DEF Connections, Modes
<1>5. [p EXCEPT !.clients[c].mode = mode, !.clients[c].pending = FALSE,
                !.clients[c].terminal = {t}] = q
  <2> DEFINE f == [s.clients EXCEPT ![c].mode = mode]
             g == [f EXCEPT ![c].pending = FALSE]
             h == [g EXCEPT ![c].terminal = {t}]
             p1 == [p EXCEPT !.clients[c].mode = mode]
             p2 == [p1 EXCEPT !.clients[c].pending = FALSE]
  <2>1. "clients" \in DOMAIN p
    BY <1>2 DEF Registry
  <2> HIDE DEF p
  <2>2. p1 = [p EXCEPT !.clients = f] /\ p1.clients = f /\ "clients" \in DOMAIN p1
    BY <1>3, <2>1
  <2> HIDE DEF p1
  <2>3. p2 = [p EXCEPT !.clients = g] /\ p2.clients = g /\ "clients" \in DOMAIN p2
    <3> HIDE DEF f
    <3> QED
      BY <2>1, <2>2
  <2> HIDE DEF p2
  <2>4. [p2 EXCEPT !.clients[c].terminal = {t}] = [p EXCEPT !.clients = h]
    <3> HIDE DEF g
    <3> QED
      BY <2>1, <2>3
  <2>5. h = C
    BY <1>1, Zenon
  <2> HIDE DEF h, C
  <2>6. [p EXCEPT !.clients[c].mode = mode, !.clients[c].pending = FALSE,
                  !.clients[c].terminal = {t}] = [p2 EXCEPT !.clients[c].terminal = {t}]
    BY DEF p2, p1
  <2> QED
    BY <2>4, <2>5, <2>6
<1> HIDE DEF x
<1>6. /\ DOMAIN C = DOMAIN s.clients /\ C \in [DOMAIN s.clients -> Connections]
      /\ C[c] = x /\ \A d \in DOMAIN s.clients \ {c} : C[d] = s.clients[d]
  BY <1>1, <1>4
<1>7. C \in Partial(Clients, Connections)
  <2> HIDE DEF C
  <2> QED
    BY <1>1, <1>6, PartialMap
<1> HIDE DEF C
<1>8. /\ q \in Registry /\ q.clients = C /\ q.activity = p.activity /\ q.owners = s.owners
      /\ q.locks = s.locks /\ q.terminals = s.terminals /\ q.sizes = s.sizes
      /\ q.foreground = s.foreground /\ q.effective = s.effective
  BY <1>2, <1>3, <1>7 DEF Registry
<1>9. r = IF s.foreground = {c} THEN promote_latest(q) ELSE q
  BY <1>5 DEF become_terminal_client, turned, p
<1> HIDE DEF q, r
<1>10. Ordered(q)
  BY <1>2, <1>3, <1>6, <1>8 DEF Ordered
<1>11. Kinds(q)
  <2>1. ASSUME NEW d \in DOMAIN C
        PROVE  IF C[d].mode = "app" THEN C[d].terminal = {}
               ELSE ~C[d].pending /\ \E u \in Terminals : C[d].terminal = {u}
    <3>1. CASE d = c
      BY <1>4, <1>6, <3>1
    <3>2. CASE d # c
      BY <1>1, <1>6, <3>2 DEF Kinds
    <3> QED
      BY <3>1, <3>2
  <2> QED
    BY <1>8, <2>1 DEF Kinds
<1>12. CASE s.foreground = {c}
  <2>1. Kept(q, r) /\ r.sizes = q.sizes /\ Foreground(r)
    BY <1>8, <1>9, <1>10, <1>12, PromotedLatest
  <2>2. Kinds(r) /\ Ordered(r)
    BY <1>10, <1>11, <2>1, KeptFacts DEF Kept
  <2> QED
    BY <1>4, <1>6, <1>8, <2>1, <2>2 DEF Kept, r
<1>13. CASE s.foreground # {c}
  <2>1. FullApps(q) \subseteq FullApps(s) \ {c} /\ FullApps(s) \subseteq DOMAIN s.clients
    BY <1>4, <1>6, <1>8 DEF FullApps, is_full_app
  <2>2. Foremost(s) /\ \A f \in s.foreground :
          f \in DOMAIN s.clients \ {c} /\ s.clients[f].mode # "observe"
    BY <1>1, <1>13 DEF Foreground, Foremost
  <2>3. \A f \in s.foreground : f \in DOMAIN q.clients /\ q.clients[f] = s.clients[f]
    BY <1>6, <1>8, <2>2
  <2>4. Foremost(q)
    <3>1. \A f \in s.foreground : f \in DOMAIN q.clients /\ q.clients[f].mode # "observe"
      BY <2>2, <2>3
    <3>2. \A f \in s.foreground : \A d \in FullApps(q) \ {f} :
            <<d, f>> \in s.activity => <<d, f>> \in q.activity
      BY <1>2, <1>8, <2>1, <2>2
    <3>3. q.foreground = s.foreground /\ FullApps(q) \subseteq FullApps(s)
      BY <1>8, <2>1
    <3> QED
      BY ONLY <2>2, <3>1, <3>2, <3>3, FrontKept
  <2>5. Foreground(q)
    BY <1>1, <1>8, <2>3, <2>4 DEF Foreground, Effective
  <2> QED
    BY <1>4, <1>6, <1>8, <1>9, <1>10, <1>11, <1>13, <2>5 DEF r
<1> QED
  BY <1>12, <1>13

\* A client that observes owns nothing.
LEMMA Observed ==
  ASSUME NEW s, Sound(s), NEW c \in DOMAIN s.clients, s.clients[c].mode = "app",
         s.clients[c].pending, NEW t \in Terminals
  PROVE  Sound(become_terminal_client(s, c, t, "observe"))
<1> DEFINE r == become_terminal_client(s, c, t, "observe")
<1>1. Owned(s)
  BY DEF Sound
<1>2. /\ r \in Registry /\ Kinds(r) /\ Ordered(r) /\ Foreground(r)
      /\ r.owners = s.owners /\ r.locks = s.locks /\ r.terminals = s.terminals
      /\ r.sizes = s.sizes /\ DOMAIN r.clients = DOMAIN s.clients
      /\ \A d \in DOMAIN s.clients \ {c} : r.clients[d] = s.clients[d]
      /\ r.clients[c].mode = "observe"
  BY Turned
<1> HIDE DEF r
<1>3. \A u \in DOMAIN s.owners : s.owners[u] # c
  BY <1>1 DEF Owned
<1>4. Owned(r)
  BY <1>1, <1>2, <1>3 DEF Owned
<1> QED
  BY <1>2, <1>4 DEF Sound, r

\* The client owns the terminal that nobody owned before.
LEMMA OwnedNow ==
  ASSUME NEW s, Sound(s), NEW c \in DOMAIN s.clients, s.clients[c].mode = "app",
         s.clients[c].pending, NEW t \in s.terminals, t \notin DOMAIN s.owners
  PROVE  LET r == own_terminal(s, c, t)
         IN  /\ Sound(r) /\ DOMAIN r.clients = DOMAIN s.clients /\ r.terminals = s.terminals
             /\ \A d \in DOMAIN s.clients \ {c} : r.clients[d] = s.clients[d]
             /\ ~r.clients[c].pending
             /\ DOMAIN r.owners = DOMAIN s.owners \cup {t} /\ r.locks = s.locks \cup {t}
<1> DEFINE p == become_terminal_client(s, c, t, "attach")
           O == Put(s.owners, t, c)
           K == s.locks \cup {t}
           Z == [s.sizes EXCEPT ![t] = s.clients[c].size]
           q == [p EXCEPT !.owners = O, !.locks = K, !.sizes = Z]
           r == own_terminal(s, c, t)
<1>1. /\ s \in Registry /\ Owned(s)
      /\ DOMAIN s.clients \subseteq Clients /\ s.clients \in [DOMAIN s.clients -> Connections]
      /\ s.locks \subseteq Terminals /\ s.terminals \subseteq Terminals
      /\ s.sizes \in [Terminals -> Sizes \cup {MinSize}]
      /\ DOMAIN s.owners \subseteq Terminals /\ s.owners \in [DOMAIN s.owners -> Clients]
  BY Fields DEF Sound
<1>2. t \in Terminals /\ c \in Clients
  BY <1>1
<1>3. /\ p \in Registry /\ Kinds(p) /\ Ordered(p) /\ Foreground(p)
      /\ p.owners = s.owners /\ p.locks = s.locks /\ p.terminals = s.terminals
      /\ p.sizes = s.sizes /\ DOMAIN p.clients = DOMAIN s.clients
      /\ \A d \in DOMAIN s.clients \ {c} : p.clients[d] = s.clients[d]
      /\ p.clients[c].mode = "attach" /\ p.clients[c].terminal = {t}
      /\ ~p.clients[c].pending /\ p.clients[c].size = s.clients[c].size
  BY <1>2, Turned
<1>4. r = q
  BY <1>3 DEF own_terminal, Registry
<1> HIDE DEF p
<1>5. /\ DOMAIN O = DOMAIN s.owners \cup {t} /\ O \in [DOMAIN s.owners \cup {t} -> Clients]
      /\ O[t] = c /\ \A u \in DOMAIN s.owners : O[u] = s.owners[u]
  BY <1>1, <1>2 DEF Put
<1>6. O \in Partial(Terminals, Clients)
  <2> HIDE DEF O
  <2> QED
    BY <1>1, <1>2, <1>5, PartialMap
<1>7. /\ Z \in [Terminals -> Sizes \cup {MinSize}]
      /\ Z[t] = s.clients[c].size /\ \A u \in Terminals \ {t} : Z[u] = s.sizes[u]
  BY <1>1, <1>2 DEF Connections
<1>8. K \subseteq Terminals
  BY <1>1, <1>2
<1> HIDE DEF O, Z, K
<1>9. /\ q \in Registry /\ q.clients = p.clients /\ q.activity = p.activity
      /\ q.owners = O /\ q.locks = K /\ q.terminals = s.terminals /\ q.sizes = Z
      /\ q.foreground = p.foreground /\ q.effective = p.effective
  BY <1>3, <1>6, <1>7, <1>8 DEF Registry
<1> HIDE DEF q
<1>10. Kinds(q) /\ Ordered(q)
  BY <1>3, <1>9, KeptFacts
<1>11. Foreground(q)
  BY <1>3, <1>9, KeptFacts DEF Foreground
<1>12. Owned(q)
  <2>1. /\ \A u \in DOMAIN s.owners :
             /\ s.owners[u] \in DOMAIN s.clients
             /\ s.clients[s.owners[u]].mode = "attach" /\ s.clients[s.owners[u]].terminal = {u}
             /\ u \in s.terminals => s.sizes[u] = s.clients[s.owners[u]].size
        /\ \A d \in DOMAIN s.clients : s.clients[d].mode = "attach" =>
             \A u \in s.clients[d].terminal : u \in DOMAIN s.owners /\ s.owners[u] = d
        /\ \A u \in s.terminals : u \in s.locks <=> u \in DOMAIN s.owners
    BY <1>1 DEF Owned
  <2>2. \A u \in DOMAIN O :
          /\ O[u] \in DOMAIN p.clients
          /\ p.clients[O[u]].mode = "attach" /\ p.clients[O[u]].terminal = {u}
          /\ u \in s.terminals => Z[u] = p.clients[O[u]].size
    <3>1. TAKE u \in DOMAIN O
    <3>2. CASE u = t
      BY <1>3, <1>5, <1>7, <3>2
    <3>3. CASE u # t
      <4>1. u \in DOMAIN s.owners /\ O[u] = s.owners[u] /\ Z[u] = s.sizes[u]
        BY <1>1, <1>5, <1>7, <3>3
      <4>2. s.owners[u] # c
        BY <2>1, <4>1
      <4> QED
        BY <1>3, <2>1, <4>1, <4>2
    <3> QED
      BY <3>2, <3>3
  <2>3. \A d \in DOMAIN p.clients : p.clients[d].mode = "attach" =>
          \A u \in p.clients[d].terminal : u \in DOMAIN O /\ O[u] = d
    <3>1. TAKE d \in DOMAIN p.clients
    <3>2. CASE d = c
      BY <1>3, <1>5, <3>2
    <3>3. CASE d # c
      BY <1>3, <1>5, <2>1, <3>3
    <3> QED
      BY <3>2, <3>3
  <2>4. \A u \in s.terminals : u \in K <=> u \in DOMAIN O
    BY <1>5, <2>1 DEF K
  <2> QED
    BY <1>9, <2>2, <2>3, <2>4 DEF Owned
<1> QED
  BY <1>3, <1>4, <1>5, <1>9, <1>10, <1>11, <1>12 DEF Sound, K, r

\* attach_terminal_client: the client that asked is gone or owns the terminal,
\* and with a takeover the one before it is gone.
LEMMA Attached ==
  ASSUME NEW s, Sound(s), NEW c \in DOMAIN s.clients, s.clients[c].mode = "app",
         s.clients[c].pending, NEW t \in Terminals, NEW takeover
  PROVE  LET r == attach(s, c, t, takeover)
         IN  /\ Sound(r) /\ r.terminals = s.terminals
             /\ DOMAIN r.clients \subseteq DOMAIN s.clients
             /\ \A d \in DOMAIN r.clients \ {c} : r.clients[d] = s.clients[d]
             /\ c \in DOMAIN r.clients => ~r.clients[c].pending
             /\ c \notin DOMAIN r.clients => r = drop(s, c)
             /\ DOMAIN r.owners \subseteq DOMAIN s.owners \cup (s.terminals \cap {t})
             /\ r.locks \subseteq s.locks \cup (s.terminals \cap {t})
<1> DEFINE r == attach(s, c, t, takeover)
<1>1. CASE t \notin s.terminals \/ (t \in DOMAIN s.owners /\ ~takeover)
  <2>1. r = drop(s, c)
    BY <1>1 DEF attach
  <2>2. Sound(r) /\ Less(s, r) /\ DOMAIN r.clients = DOMAIN s.clients \ {c}
    BY <2>1, Dropped
  <2> HIDE DEF r
  <2> QED
    BY <2>1, <2>2 DEF Less, r
<1>2. CASE t \in s.terminals /\ ~(t \in DOMAIN s.owners /\ ~takeover)
  <2> DEFINE q == IF t \in DOMAIN s.owners THEN drop(s, s.owners[t]) ELSE s
  <2>1. r = own_terminal(q, c, t)
    BY <1>2 DEF attach
  <2>2. /\ Sound(q) /\ Less(s, q) /\ c \in DOMAIN q.clients
        /\ t \notin DOMAIN q.owners
    <3>1. CASE t \in DOMAIN s.owners
      <4> DEFINE o == s.owners[t]
      <4>1. /\ o \in DOMAIN s.clients /\ s.clients[o].mode = "attach"
            /\ s.clients[o].terminal = {t}
        BY <3>1 DEF Sound, Owned
      <4>2. q = drop(s, o)
        BY <3>1
      <4> HIDE DEF o, q
      <4>3. Sound(q) /\ Less(s, q) /\ DOMAIN q.clients = DOMAIN s.clients \ {o}
        BY <4>2, Dropped
      <4>4. ASSUME t \in DOMAIN q.owners PROVE FALSE
        <5> DEFINE d == q.owners[t]
        <5>1. /\ d \in DOMAIN q.clients /\ q.clients[d].mode = "attach"
              /\ q.clients[d].terminal = {t}
          BY <4>3, <4>4 DEF Sound, Owned
        <5> HIDE DEF d
        <5>2. d \in DOMAIN s.clients /\ d # o /\ s.clients[d] = q.clients[d]
          BY <4>3, <5>1 DEF Less
        <5>3. s.owners[t] = d
          BY <5>1, <5>2 DEF Sound, Owned
        <5> QED
          BY <5>2, <5>3 DEF o
      <4>5. c # o
        BY <4>1
      <4> QED
        BY <4>3, <4>4, <4>5
    <3>2. CASE t \notin DOMAIN s.owners
      BY <3>2 DEF Less
    <3> QED
      BY <3>1, <3>2
  <2> HIDE DEF q, r
  <2>3. q.clients[c] = s.clients[c] /\ t \in q.terminals
    BY <1>2, <2>2 DEF Less
  <2>4. /\ Sound(r) /\ DOMAIN r.clients = DOMAIN q.clients /\ r.terminals = q.terminals
        /\ \A d \in DOMAIN q.clients \ {c} : r.clients[d] = q.clients[d]
        /\ ~r.clients[c].pending
        /\ DOMAIN r.owners = DOMAIN q.owners \cup {t} /\ r.locks = q.locks \cup {t}
    BY <2>1, <2>2, <2>3, OwnedNow
  <2> QED
    BY <1>2, <2>2, <2>4 DEF Less, r
<1> QED
  BY <1>1, <1>2

\* What ClientConnected adds to the registry.
Added(s, c, x) ==
  [stamp(s, c) EXCEPT !.clients = Put(@, c, x),
                      !.foreground = IF x.pending THEN @ ELSE {c}]

\* A new connection: a full client is the one last used, one that has not asked
\* yet changes nothing for the others.
LEMMA Joined ==
  ASSUME NEW s, Sound(s), NEW c \in Clients, c \notin DOMAIN s.clients,
         NEW x \in Connections, x.mode = "app", x.terminal = {}, x.writer = "open"
  PROVE  LET r == resize_shared(sync_foreground(Added(s, c, x)))
         IN  /\ Sound(r) /\ DOMAIN r.clients = DOMAIN s.clients \cup {c}
             /\ r.clients[c] = x
             /\ \A d \in DOMAIN s.clients : r.clients[d] = s.clients[d]
             /\ r.owners = s.owners /\ r.locks = s.locks /\ r.terminals = s.terminals
<1> DEFINE direct == x.pending
           D == DOMAIN s.clients
           C == Put(s.clients, c, x)
           A == {pair \in s.activity : pair[1] # c} \cup ((D \ {c}) \X {c})
           G == IF direct THEN s.foreground ELSE {c}
           q == [s EXCEPT !.clients = C, !.activity = A, !.foreground = G]
           p == sync_foreground(q)
           r == resize_shared(p)
<1>1. /\ s \in Registry /\ Kinds(s) /\ Ordered(s) /\ Owned(s) /\ Foreground(s)
      /\ D \subseteq Clients /\ s.clients \in [D -> Connections]
  BY Fields DEF Sound
<1>2. Added(s, c, x) = q
  BY <1>1 DEF Added, stamp, Registry
<1>3. direct \in BOOLEAN /\ x.pending = direct
  BY DEF Connections
<1>4. is_full_app(x) <=> ~direct
  BY <1>3 DEF is_full_app
<1> HIDE DEF direct
<1>5. /\ DOMAIN C = D \cup {c} /\ C \in [D \cup {c} -> Connections]
      /\ C[c] = x /\ \A d \in D : C[d] = s.clients[d]
  BY <1>1, <1>3 DEF Put
<1>6. C \in Partial(Clients, Connections)
  <2> HIDE DEF C
  <2> QED
    BY <1>1, <1>5, PartialMap
<1> HIDE DEF C
<1>7. s.activity \subseteq D \X D
  BY <1>1 DEF Ordered
<1>8. A \subseteq (D \cup {c}) \X (D \cup {c})
  <2> HIDE DEF D
  <2> QED
    BY <1>7
<1>9. \A d, e \in D \cup {c} : <<d, e>> \in A <=>
        \/ <<d, e>> \in s.activity
        \/ d # c /\ e = c
  <2>1. c \notin D
    OBVIOUS
  <2> HIDE DEF D
  <2> QED
    BY <1>7, <2>1
<1> HIDE DEF A
<1>10. G \subseteq Clients /\ A \subseteq Clients \X Clients
  <2>1. s.foreground \subseteq Clients
    BY <1>1, Fields
  <2> HIDE DEF D
  <2> QED
    BY <1>1, <1>8, <2>1
<1> HIDE DEF G
<1>11. /\ q \in Registry /\ q.clients = C /\ q.activity = A /\ q.foreground = G
       /\ q.owners = s.owners /\ q.locks = s.locks /\ q.terminals = s.terminals
       /\ q.sizes = s.sizes
  BY <1>1, <1>6, <1>10 DEF Registry
<1> HIDE DEF q
<1>12. Ordered(q)
  <2>1. IsFiniteSet(D \cup {c})
    BY <1>1, FS_AddElement DEF Ordered
  <2>2. /\ \A d, e \in D : <<d, e>> \in s.activity <=> d # e /\ <<e, d>> \notin s.activity
        /\ \A d, e, f \in D :
             <<d, e>> \in s.activity /\ <<e, f>> \in s.activity => <<d, f>> \in s.activity
    BY <1>1 DEF Ordered
  <2>3. \A d \in D : d # c /\ <<d, c>> \notin s.activity /\ <<c, d>> \notin s.activity
    <3>1. c \notin D
      OBVIOUS
    <3> HIDE DEF D
    <3> QED
      BY <1>7, <3>1
  <2>4. <<c, c>> \notin s.activity
    <3>1. c \notin D
      OBVIOUS
    <3> HIDE DEF D
    <3> QED
      BY <1>7, <3>1
  <2> HIDE DEF D
  <2>5. \A d, e \in D \cup {c} : <<d, e>> \in A <=> d # e /\ <<e, d>> \notin A
    BY <1>9, <2>2, <2>3, <2>4
  <2>6. \A d, e, f \in D \cup {c} : <<d, e>> \in A /\ <<e, f>> \in A => <<d, f>> \in A
    BY <1>9, <2>2, <2>3, <2>4
  <2> QED
    BY <1>5, <1>8, <1>11, <2>1, <2>5, <2>6 DEF Ordered
<1>13. Kinds(q)
  BY <1>1, <1>3, <1>5, <1>11 DEF Kinds
<1>14. Owned(q)
  <2>1. \A t \in DOMAIN s.owners : s.owners[t] \in D
    BY <1>1 DEF Owned
  <2> QED
    BY <1>1, <1>3, <1>5, <1>11, <2>1 DEF Owned
<1>15. FullApps(q) = FullApps(s) \cup (IF direct THEN {} ELSE {c}) /\ FullApps(s) \subseteq D
  BY <1>4, <1>5, <1>11 DEF FullApps
<1>16. Foremost(q)
  <2>1. CASE direct
    <3>1. FullApps(q) \subseteq FullApps(s) /\ q.foreground = s.foreground
      BY <1>11, <1>15, <2>1 DEF G
    <3>2. Foremost(s) /\ \A f \in s.foreground : f \in D /\ s.clients[f].mode # "observe"
      BY <1>1 DEF Foreground, Foremost
    <3>3. \A f \in s.foreground : f \in DOMAIN q.clients /\ q.clients[f].mode # "observe"
      BY <1>5, <1>11, <3>2
    <3>4. \A f \in s.foreground : \A d \in FullApps(q) \ {f} :
            <<d, f>> \in s.activity => <<d, f>> \in q.activity
      <4>1. \A f \in s.foreground : f \in D
        BY <3>2
      <4>2. \A d \in FullApps(q) : d \in D
        BY <1>15, <3>1
      <4> HIDE DEF D
      <4> QED
        BY <1>9, <1>11, <4>1, <4>2
    <3> QED
      BY ONLY <3>1, <3>2, <3>3, <3>4, FrontKept
  <2>2. CASE ~direct
    <3>1. \A d \in FullApps(q) \ {c} : <<d, c>> \in A
      <4>1. \A d \in FullApps(q) \ {c} : d \in D
        BY <1>15
      <4> HIDE DEF D
      <4> QED
        BY <1>9, <4>1
    <3>2. q.foreground = {c} /\ c \in DOMAIN q.clients /\ q.clients[c].mode # "observe"
      BY <1>5, <1>11, <2>2 DEF G
    <3> QED
      BY <1>11, <3>1, <3>2 DEF Foremost
  <2> QED
    BY <2>1, <2>2
<1>17. /\ Kept(q, p) /\ p.sizes = q.sizes /\ Foreground(p)
  BY <1>11, <1>16, Synced
<1> HIDE DEF p
<1>18. Sound(p)
  BY <1>12, <1>13, <1>14, <1>17, KeptFacts, KeptOwners DEF Kept, Sound
<1>19. Kept(p, r) /\ Sound(r)
  BY <1>18, Resized
<1> HIDE DEF r
<1>20. /\ Sound(r) /\ DOMAIN r.clients = DOMAIN s.clients \cup {c}
       /\ r.clients[c] = x
       /\ \A d \in DOMAIN s.clients : r.clients[d] = s.clients[d]
       /\ r.owners = s.owners /\ r.locks = s.locks /\ r.terminals = s.terminals
  BY <1>3, <1>5, <1>11, <1>17, <1>19 DEF Kept
<1> QED
  BY <1>2, <1>20 DEF p, r

-----------------------------------------------------------------------------
(* What happens to one client, and to one terminal.                        *)

\* What the server knows of a client's writer thread.
Writers == {"open", "broken", "none"}

\* Whether a client can be written to matters to nobody else.
LEMMA Rewritten ==
  ASSUME NEW s, Sound(s), NEW c \in DOMAIN s.clients, NEW w \in Writers
  PROVE  LET r == [s EXCEPT !.clients[c].writer = w]
         IN  /\ Sound(r) /\ DOMAIN r.clients = DOMAIN s.clients
             /\ FullApps(r) = FullApps(s)
             /\ \A d \in DOMAIN s.clients :
                  /\ r.clients[d].mode = s.clients[d].mode
                  /\ r.clients[d].terminal = s.clients[d].terminal
                  /\ r.clients[d].writer = IF d = c THEN w ELSE s.clients[d].writer
             /\ r.owners = s.owners /\ r.locks = s.locks /\ r.terminals = s.terminals
             /\ r.sizes = s.sizes /\ r.foreground = s.foreground /\ r.effective = s.effective
<1> DEFINE x == [s.clients[c] EXCEPT !.writer = w]
           C == [s.clients EXCEPT ![c] = x]
           r == [s EXCEPT !.clients = C]
<1>1. /\ s \in Registry /\ Kinds(s) /\ Ordered(s) /\ Owned(s) /\ Foreground(s)
      /\ DOMAIN s.clients \subseteq Clients /\ s.clients \in [DOMAIN s.clients -> Connections]
  BY Fields DEF Sound
<1>2. [s EXCEPT !.clients[c].writer = w] = r
  BY <1>1 DEF Registry
<1>3. /\ x \in Connections /\ x.mode = s.clients[c].mode /\ x.terminal = s.clients[c].terminal
      /\ x.pending = s.clients[c].pending /\ x.size = s.clients[c].size /\ x.writer = w
  BY <1>1 DEF Connections, Writers
<1> HIDE DEF x
<1>4. /\ DOMAIN C = DOMAIN s.clients /\ C \in [DOMAIN s.clients -> Connections]
      /\ C[c] = x /\ \A d \in DOMAIN s.clients \ {c} : C[d] = s.clients[d]
  BY <1>1, <1>3
<1>5. C \in Partial(Clients, Connections)
  <2> HIDE DEF C
  <2> QED
    BY <1>1, <1>4, PartialMap
<1>6. \A d \in DOMAIN s.clients :
        /\ C[d].mode = s.clients[d].mode /\ C[d].terminal = s.clients[d].terminal
        /\ C[d].pending = s.clients[d].pending /\ C[d].size = s.clients[d].size
        /\ C[d].writer = IF d = c THEN w ELSE s.clients[d].writer
  BY <1>3, <1>4
<1> HIDE DEF C
<1>7. /\ r \in Registry /\ r.clients = C /\ r.activity = s.activity
      /\ r.owners = s.owners /\ r.locks = s.locks /\ r.terminals = s.terminals
      /\ r.sizes = s.sizes /\ r.foreground = s.foreground /\ r.effective = s.effective
  BY <1>1, <1>5 DEF Registry
<1> HIDE DEF r
<1>8. FullApps(r) = FullApps(s) /\ FullApps(s) \subseteq DOMAIN s.clients
  BY <1>4, <1>6, <1>7 DEF FullApps, is_full_app
<1>9. Ordered(r)
  BY <1>1, <1>4, <1>7 DEF Ordered
<1>10. Kinds(r)
  BY <1>1, <1>4, <1>6, <1>7 DEF Kinds
<1>11. Owned(r)
  BY <1>1, <1>4, <1>6, <1>7 DEF Owned
<1>12. Foreground(r)
  <2>1. s.foreground \subseteq DOMAIN s.clients
    BY <1>1 DEF Foreground, Foremost
  <2>2. Foremost(r)
    BY <1>1, <1>4, <1>6, <1>7, <1>8 DEF Foreground, Foremost
  <2>3. Effective(r)
    BY <1>1, <1>6, <1>7, <2>1 DEF Foreground, Effective
  <2> QED
    BY <2>2, <2>3 DEF Foreground
<1> QED
  BY <1>2, <1>4, <1>6, <1>7, <1>8, <1>9, <1>10, <1>11, <1>12 DEF Sound, r

\* A client's size matters to the terminals that it owns, and to the shared ones
\* if it is a full client.
LEMMA Sized ==
  ASSUME NEW s, Sound(s), NEW c \in DOMAIN s.clients, NEW size \in Sizes
  PROVE  LET r == [s EXCEPT !.clients[c].size = size]
         IN  /\ r \in Registry /\ Kinds(r) /\ Ordered(r)
             /\ s.clients[c].mode # "attach" => Owned(r)
             /\ s.clients[c].mode # "app" => Foreground(r)
             /\ FullApps(r) = FullApps(s)
             /\ DOMAIN r.clients = DOMAIN s.clients
             /\ \A d \in DOMAIN s.clients :
                  /\ r.clients[d].mode = s.clients[d].mode
                  /\ r.clients[d].pending = s.clients[d].pending
                  /\ r.clients[d].terminal = s.clients[d].terminal
                  /\ r.clients[d].size = IF d = c THEN size ELSE s.clients[d].size
             /\ r.owners = s.owners /\ r.locks = s.locks /\ r.terminals = s.terminals
             /\ r.sizes = s.sizes
<1> DEFINE x == [s.clients[c] EXCEPT !.size = size]
           C == [s.clients EXCEPT ![c] = x]
           r == [s EXCEPT !.clients = C]
<1>1. /\ s \in Registry /\ Kinds(s) /\ Ordered(s) /\ Owned(s) /\ Foreground(s)
      /\ DOMAIN s.clients \subseteq Clients /\ s.clients \in [DOMAIN s.clients -> Connections]
  BY Fields DEF Sound
<1>2. [s EXCEPT !.clients[c].size = size] = r
  BY <1>1 DEF Registry
<1>3. /\ x \in Connections /\ x.mode = s.clients[c].mode /\ x.terminal = s.clients[c].terminal
      /\ x.pending = s.clients[c].pending /\ x.size = size
      /\ x.writer = s.clients[c].writer
  BY <1>1 DEF Connections
<1> HIDE DEF x
<1>4. /\ DOMAIN C = DOMAIN s.clients /\ C \in [DOMAIN s.clients -> Connections]
      /\ C[c] = x /\ \A d \in DOMAIN s.clients \ {c} : C[d] = s.clients[d]
  BY <1>1, <1>3
<1>5. C \in Partial(Clients, Connections)
  <2> HIDE DEF C
  <2> QED
    BY <1>1, <1>4, PartialMap
<1>6. \A d \in DOMAIN s.clients :
        /\ C[d].mode = s.clients[d].mode /\ C[d].terminal = s.clients[d].terminal
        /\ C[d].pending = s.clients[d].pending /\ C[d].writer = s.clients[d].writer
        /\ C[d].size = IF d = c THEN size ELSE s.clients[d].size
  BY <1>3, <1>4
<1> HIDE DEF C
<1>7. /\ r \in Registry /\ r.clients = C /\ r.activity = s.activity
      /\ r.owners = s.owners /\ r.locks = s.locks /\ r.terminals = s.terminals
      /\ r.sizes = s.sizes /\ r.foreground = s.foreground /\ r.effective = s.effective
  BY <1>1, <1>5 DEF Registry
<1> HIDE DEF r
<1>8. FullApps(r) = FullApps(s) /\ FullApps(s) \subseteq DOMAIN s.clients
  BY <1>4, <1>6, <1>7 DEF FullApps, is_full_app
<1>9. Ordered(r)
  BY <1>1, <1>4, <1>7 DEF Ordered
<1>10. Kinds(r)
  BY <1>1, <1>4, <1>6, <1>7 DEF Kinds
<1>11. ASSUME s.clients[c].mode # "attach" PROVE Owned(r)
  <2>1. \A t \in DOMAIN s.owners : s.owners[t] # c
    BY <1>1, <1>11 DEF Owned
  <2> QED
    BY <1>1, <1>4, <1>6, <1>7, <2>1 DEF Owned
<1>12. ASSUME s.clients[c].mode # "app" PROVE Foreground(r)
  <2>1. s.foreground \subseteq DOMAIN s.clients
    BY <1>1 DEF Foreground, Foremost
  <2>2. Foremost(r)
    BY <1>1, <1>4, <1>6, <1>7, <1>8 DEF Foreground, Foremost
  <2>3. Effective(r)
    BY <1>1, <1>6, <1>7, <1>12, <2>1 DEF Foreground, Effective
  <2> QED
    BY <2>2, <2>3 DEF Foreground
<1> QED
  BY <1>2, <1>4, <1>6, <1>7, <1>8, <1>9, <1>10, <1>11, <1>12 DEF r

\* The owner of a terminal brings its new size with it.
LEMMA OwnerSized ==
  ASSUME NEW s, Sound(s), NEW c \in DOMAIN s.clients, s.clients[c].mode = "attach",
         NEW size \in Sizes
  PROVE  LET q == [s EXCEPT !.clients[c].size = size]
             Z == [t \in Terminals |-> IF t \in s.clients[c].terminal \cap s.terminals
                                       THEN size ELSE q.sizes[t]]
         IN  Sound([q EXCEPT !.sizes = Z])
<1> DEFINE q == [s EXCEPT !.clients[c].size = size]
           Z == [t \in Terminals |-> IF t \in s.clients[c].terminal \cap s.terminals
                                     THEN size ELSE s.sizes[t]]
           r == [q EXCEPT !.sizes = Z]
<1>1. /\ s \in Registry /\ Owned(s)
      /\ s.terminals \subseteq Terminals /\ DOMAIN s.owners \subseteq Terminals
      /\ s.sizes \in [Terminals -> Sizes \cup {MinSize}]
  BY Fields DEF Sound
<1>2. /\ q \in Registry /\ Kinds(q) /\ Ordered(q) /\ Foreground(q)
      /\ DOMAIN q.clients = DOMAIN s.clients
      /\ \A d \in DOMAIN s.clients :
           /\ q.clients[d].mode = s.clients[d].mode
           /\ q.clients[d].terminal = s.clients[d].terminal
           /\ q.clients[d].size = IF d = c THEN size ELSE s.clients[d].size
      /\ q.owners = s.owners /\ q.locks = s.locks /\ q.terminals = s.terminals
      /\ q.sizes = s.sizes
  BY Sized
<1> HIDE DEF q
<1>3. /\ Z \in [Terminals -> Sizes \cup {MinSize}]
      /\ \A t \in Terminals : Z[t] = IF t \in s.clients[c].terminal \cap s.terminals
                                     THEN size ELSE s.sizes[t]
  BY <1>1
<1> HIDE DEF Z
<1>4. /\ r \in Registry /\ r.clients = q.clients /\ r.activity = q.activity
      /\ r.owners = q.owners /\ r.locks = q.locks /\ r.terminals = q.terminals
      /\ r.sizes = Z /\ r.foreground = q.foreground /\ r.effective = q.effective
  BY <1>2, <1>3 DEF Registry
<1> HIDE DEF r
<1>5. Kinds(r) /\ Ordered(r)
  BY <1>2, <1>4, KeptFacts
<1>6. Foreground(r)
  BY <1>2, <1>4, KeptFacts DEF Foreground
<1>7. Owned(r)
  <2>1. /\ \A t \in DOMAIN s.owners :
             /\ s.owners[t] \in DOMAIN s.clients
             /\ s.clients[s.owners[t]].mode = "attach" /\ s.clients[s.owners[t]].terminal = {t}
             /\ t \in s.terminals => s.sizes[t] = s.clients[s.owners[t]].size
        /\ \A t \in s.clients[c].terminal : t \in DOMAIN s.owners /\ s.owners[t] = c
    BY <1>1 DEF Owned
  <2>2. \A t \in DOMAIN s.owners : t \in s.terminals => Z[t] = q.clients[s.owners[t]].size
    <3>1. TAKE t \in DOMAIN s.owners
    <3>2. HAVE t \in s.terminals
    <3>3. CASE s.owners[t] = c
      BY <1>1, <1>2, <1>3, <2>1, <3>2, <3>3
    <3>4. CASE s.owners[t] # c
      BY <1>1, <1>2, <1>3, <2>1, <3>2, <3>4
    <3> QED
      BY <3>3, <3>4
  <2> QED
    BY <1>1, <1>2, <1>4, <2>2 DEF Owned
<1>8. [t \in Terminals |-> IF t \in s.clients[c].terminal \cap s.terminals
                           THEN size ELSE q.sizes[t]] = Z
  BY <1>2 DEF Z
<1> QED
  BY <1>4, <1>5, <1>6, <1>7, <1>8 DEF Sound, q, r

\* What TerminalStarts, PaneDied and PaneCloses do to the registry.
WithTerminal(s, t, size) == [s EXCEPT !.terminals = @ \cup {t}, !.sizes[t] = size]
WithoutTerminal(s, t, locks) ==
  [s EXCEPT !.terminals = @ \ {t}, !.sizes[t] = MinSize, !.locks = locks]

\* A new terminal belongs to nobody.
LEMMA Started ==
  ASSUME NEW s, Sound(s), NEW t \in Terminals, t \notin s.terminals, t \notin DOMAIN s.owners,
         t \notin s.locks, NEW size \in Sizes
  PROVE  LET r == WithTerminal(s, t, size)
         IN  /\ Sound(r) /\ r.clients = s.clients /\ r.owners = s.owners /\ r.locks = s.locks
             /\ r.terminals = s.terminals \cup {t}
<1> DEFINE Z == [s.sizes EXCEPT ![t] = size]
           T == s.terminals \cup {t}
           r == [s EXCEPT !.terminals = T, !.sizes = Z]
<1>1. /\ s \in Registry /\ Kinds(s) /\ Ordered(s) /\ Owned(s) /\ Foreground(s)
      /\ s.terminals \subseteq Terminals /\ DOMAIN s.owners \subseteq Terminals
      /\ s.sizes \in [Terminals -> Sizes \cup {MinSize}]
  BY Fields DEF Sound
<1>2. WithTerminal(s, t, size) = r
  BY <1>1 DEF WithTerminal, Registry
<1>3. /\ Z \in [Terminals -> Sizes \cup {MinSize}]
      /\ \A u \in Terminals \ {t} : Z[u] = s.sizes[u]
  BY <1>1
<1> HIDE DEF Z
<1>4. /\ r \in Registry /\ r.clients = s.clients /\ r.activity = s.activity
      /\ r.owners = s.owners /\ r.locks = s.locks /\ r.terminals = T
      /\ r.sizes = Z /\ r.foreground = s.foreground /\ r.effective = s.effective
  BY <1>1, <1>3 DEF Registry
<1> HIDE DEF r
<1>5. Kinds(r) /\ Ordered(r)
  BY <1>1, <1>4, KeptFacts
<1>6. Foreground(r)
  BY <1>1, <1>4, KeptFacts DEF Foreground
<1>7. Owned(r)
  <2>1. \A u \in DOMAIN s.owners : u # t /\ Z[u] = s.sizes[u]
    BY <1>1, <1>3
  <2> QED
    BY <1>1, <1>4, <2>1 DEF Owned
<1> QED
  BY <1>2, <1>4, <1>5, <1>6, <1>7 DEF Sound, r

\* A terminal that goes may leave its owner and its lock behind.
LEMMA Closed ==
  ASSUME NEW s, Sound(s), NEW t \in s.terminals, NEW K,
         K = s.locks \/ K = s.locks \ {t}
  PROVE  LET r == WithoutTerminal(s, t, K)
         IN  /\ Sound(r) /\ r.clients = s.clients /\ r.owners = s.owners /\ r.locks = K
             /\ r.terminals = s.terminals \ {t}
<1> DEFINE Z == [s.sizes EXCEPT ![t] = MinSize]
           T == s.terminals \ {t}
           r == [s EXCEPT !.terminals = T, !.sizes = Z, !.locks = K]
<1>1. /\ s \in Registry /\ Kinds(s) /\ Ordered(s) /\ Owned(s) /\ Foreground(s)
      /\ s.terminals \subseteq Terminals /\ DOMAIN s.owners \subseteq Terminals
      /\ s.sizes \in [Terminals -> Sizes \cup {MinSize}] /\ s.locks \subseteq Terminals
  BY Fields DEF Sound
<1>2. WithoutTerminal(s, t, K) = r
  BY <1>1 DEF WithoutTerminal, Registry
<1>3. /\ Z \in [Terminals -> Sizes \cup {MinSize}]
      /\ \A u \in Terminals \ {t} : Z[u] = s.sizes[u]
  BY <1>1
<1> HIDE DEF Z
<1>4. /\ r \in Registry /\ r.clients = s.clients /\ r.activity = s.activity
      /\ r.owners = s.owners /\ r.locks = K /\ r.terminals = T
      /\ r.sizes = Z /\ r.foreground = s.foreground /\ r.effective = s.effective
  BY <1>1, <1>3 DEF Registry
<1> HIDE DEF r
<1>5. Kinds(r) /\ Ordered(r)
  BY <1>1, <1>4, KeptFacts
<1>6. Foreground(r)
  BY <1>1, <1>4, KeptFacts DEF Foreground
<1>7. Owned(r)
  <2>1. \A u \in T : u \in s.terminals /\ Z[u] = s.sizes[u] /\ (u \in K <=> u \in s.locks)
    BY <1>1, <1>3
  <2> QED
    BY <1>1, <1>4, <2>1 DEF Owned
<1> QED
  BY <1>2, <1>4, <1>5, <1>6, <1>7 DEF Sound, r

-----------------------------------------------------------------------------
(* The invariant is inductive.                                             *)

\* It holds when the server starts.
LEMMA InitIInv ==
  ASSUME Init
  PROVE  IInv
<1>1. PICK live \in SUBSET Terminals, size \in Sizes :
        /\ server = [clients |-> <<>>, activity |-> {}, foreground |-> {},
                     effective |-> MinSize, owners |-> <<>>, locks |-> {}, terminals |-> live,
                     sizes |-> [t \in Terminals |-> IF t \in live THEN size ELSE MinSize]]
        /\ dead = {} /\ peer = [c \in Clients |-> "none"]
        /\ needs_render = TRUE /\ handoff = FALSE
        /\ drawn = [c \in Clients |-> MinSize]
  BY DEF Init
<1> DEFINE Z == [t \in Terminals |-> IF t \in live THEN size ELSE MinSize]
<1>2. Z \in [Terminals -> Sizes \cup {MinSize}]
  OBVIOUS
<1> HIDE DEF Z
<1>3. /\ server.clients = <<>> /\ server.activity = {} /\ server.foreground = {}
      /\ server.effective = MinSize /\ server.owners = <<>> /\ server.locks = {}
      /\ server.terminals = live /\ server.sizes = Z
  BY <1>1 DEF Z
<1>4. DOMAIN server.clients = {} /\ DOMAIN server.owners = {}
  BY <1>3
<1>5. server \in Registry
  <2>1. <<>> \in Partial(Clients, Connections) /\ <<>> \in Partial(Terminals, Clients)
    <3>1. DOMAIN <<>> = {} /\ \A S : <<>> \in [{} -> S]
      OBVIOUS
    <3> QED
      BY <3>1, PartialMap
  <2> QED
    BY <1>1, <1>2, <2>1 DEF Registry, Z
<1>6. Kinds(server)
  BY <1>4 DEF Kinds
<1>7. Ordered(server)
  <2>1. IsFiniteSet(DOMAIN server.clients)
    BY <1>4, FS_EmptySet
  <2> QED
    BY <1>3, <1>4, <2>1 DEF Ordered
<1>8. Owned(server)
  BY <1>3, <1>4 DEF Owned
<1>9. Foreground(server)
  <2>1. FullApps(server) = {}
    BY <1>4 DEF FullApps
  <2> QED
    BY <1>3, <2>1 DEF Foreground, Foremost, Effective
<1>10. Sound(server)
  BY <1>5, <1>6, <1>7, <1>8, <1>9 DEF Sound
<1>11. Lives
  BY <1>1, <1>3, <1>4 DEF Lives
<1>12. Peers
  BY <1>1, <1>4 DEF Peers
<1>13. Settled
  BY <1>1 DEF Settled
<1>14. Rest
  <2>1. drawn \in [Clients -> Sizes \cup {MinSize}]
    BY <1>1
  <2> QED
    BY <1>1, <2>1 DEF Rest
<1> QED
  BY <1>10, <1>11, <1>12, <1>13, <1>14 DEF IInv

\* Owners and locks go with the terminals.
LEMMA LivesKept ==
  ASSUME Lives, dead' = dead, server'.terminals = server.terminals,
         DOMAIN server'.owners \subseteq DOMAIN server.owners \cup server.terminals,
         server'.locks \subseteq server.locks \cup server.terminals
  PROVE  Lives'
BY DEF Lives

\* Clients go, and connections stay as they are.
LEMMA PeersKept ==
  ASSUME Peers, peer' = peer, DOMAIN server'.clients \subseteq DOMAIN server.clients
  PROVE  Peers'
BY DEF Peers

\* Nobody comes.
LEMMA RestKept ==
  ASSUME Rest, needs_render' \in BOOLEAN, handoff' = handoff, drawn' = drawn,
         DOMAIN server'.clients \subseteq DOMAIN server.clients
  PROVE  Rest'
BY DEF Rest

\* What is still to be drawn settles nothing.
LEMMA Unsettled ==
  ASSUME needs_render' = TRUE
  PROVE  Settled'
BY DEF Settled

\* Clients go, and somebody whose going was not reported promises a render.
LEMMA SettledLess ==
  ASSUME Settled, ~needs_render' => ~needs_render, Less(server, server'),
         Fitted(server) => Fitted(server'), Unreported' # {}
  PROVE  Settled'
BY DEF Settled, Less, RemainingAreRedrawn

\* Nothing happens to the registry, and no report is lost.
LEMMA SettledSame ==
  ASSUME Settled, ~needs_render' => ~needs_render, server' = server, drawn' = drawn,
         Unreported \subseteq Unreported'
  PROVE  Settled'
<1> SUFFICES ASSUME ~needs_render' PROVE Settled'
  BY DEF Settled
<1>1. Fitted(server) /\ RemainingAreRedrawn
      /\ \A c \in DOMAIN server.clients :
           server.clients[c].writer # "none" =>
             server.clients[c].terminal \subseteq server.terminals
  BY DEF Settled
<1>2. Fitted(server')
  BY <1>1
<1>3. RemainingAreRedrawn'
  BY <1>1 DEF RemainingAreRedrawn
<1> QED
  BY <1>1, <1>2, <1>3 DEF Settled

\* A client connects.
LEMMA ClientConnectedKeeps ==
  ASSUME IInv, NEW c \in Clients, NEW size \in Sizes, NEW direct \in BOOLEAN,
         ClientConnected(c, size, direct)
  PROVE  IInv'
<1>1. Sound(server) /\ Lives /\ Peers /\ Settled /\ Rest
  BY DEF IInv
<1>2. /\ peer[c] = "none" /\ peer' = [peer EXCEPT ![c] = "open"]
      /\ dead' = dead /\ handoff' = handoff /\ drawn' = drawn
  BY DEF ClientConnected, Handled
<1>3. c \notin DOMAIN server.clients
  BY <1>1, <1>2 DEF Peers
<1>4. /\ peer' \in [Clients -> {"none", "open", "done"}]
      /\ peer'[c] = "open"
      /\ \A d \in Clients \ {c} : peer'[d] = peer[d]
  BY <1>1, <1>2 DEF Peers
<1>5. DOMAIN server.clients \subseteq Clients
  BY <1>1, Fields DEF Sound
<1>6. CASE handoff
  <2>1. server' = server /\ needs_render' = needs_render
    BY <1>1, <1>6 DEF ClientConnected, Handled, Refusing, Rest
  <2>2. Lives' /\ Rest'
    BY <1>1, <1>2, <2>1 DEF Lives, Rest
  <2>3. Peers'
    BY <1>1, <1>3, <1>4, <1>5, <2>1 DEF Peers
  <2>4. Unreported \subseteq Unreported'
    BY <1>2, <1>4, <2>1 DEF Unreported
  <2>5. Settled'
    BY <1>1, <1>2, <2>1, <2>4, SettledSame
  <2> QED
    BY <1>1, <2>1, <2>2, <2>3, <2>5 DEF IInv
<1>7. CASE ~handoff
  <2> DEFINE x == [mode |-> "app", terminal |-> {}, pending |-> direct, writer |-> "open",
                   size |-> size]
             r == resize_shared(sync_foreground(Added(server, c, x)))
  <2>0. /\ x \in Connections /\ x.mode = "app" /\ x.terminal = {} /\ x.writer = "open"
        /\ x.pending = direct
    BY DEF Connections, Modes
  <2>1. server' = r /\ needs_render' = TRUE
    BY <1>1, <1>7 DEF ClientConnected, Handled, Refusing, Rest, Added
  <2> HIDE DEF x
  <2>2. /\ Sound(r) /\ DOMAIN r.clients = DOMAIN server.clients \cup {c}
        /\ r.clients[c] = x
        /\ \A d \in DOMAIN server.clients : r.clients[d] = server.clients[d]
        /\ r.owners = server.owners /\ r.locks = server.locks
        /\ r.terminals = server.terminals
    BY <1>1, <1>3, <2>0, Joined
  <2> HIDE DEF r
  <2>3. Lives'
    BY <1>1, <1>2, <2>1, <2>2 DEF Lives
  <2>4. Peers'
    BY <1>1, <1>3, <1>4, <1>5, <2>0, <2>1, <2>2 DEF Peers
  <2>5. Settled' /\ Rest'
    BY <1>1, <1>2, <1>7, <2>1, Unsettled DEF Rest
  <2> QED
    BY <2>1, <2>2, <2>3, <2>4, <2>5 DEF IInv
<1> QED
  BY <1>6, <1>7

\* A client asks for a terminal.
LEMMA ClientAsksKeeps ==
  ASSUME IInv, NEW c \in Clients, NEW t \in Terminals, NEW mode \in {"attach", "observe"},
         NEW takeover \in BOOLEAN, ClientAsks(c, t, mode, takeover)
  PROVE  IInv'
<1>1. Sound(server) /\ Lives /\ Peers /\ Settled /\ Rest
  BY DEF IInv
<1>2. /\ peer[c] = "open" /\ peer' = peer
      /\ dead' = dead /\ handoff' = handoff /\ drawn' = drawn
  BY DEF ClientAsks, Handled
<1>3. ASSUME server' = drop(server, c), needs_render' = needs_render PROVE IInv'
  <2>1. /\ Sound(server') /\ Less(server, server')
        /\ DOMAIN server'.clients = DOMAIN server.clients \ {c}
        /\ Fitted(server) => Fitted(server')
    BY <1>1, <1>3, Dropped
  <2>2. Lives' /\ Peers' /\ Rest'
    BY <1>1, <1>2, <1>3, <2>1, LivesKept, PeersKept, RestKept DEF Less, Rest
  <2>3. CASE c \in DOMAIN server.clients
    <3>1. c \in Unreported'
      BY <1>2, <2>1 DEF Unreported
    <3>2. Settled'
      BY <1>1, <1>3, <2>1, <3>1, SettledLess
    <3> QED
      BY <2>1, <2>2, <3>2 DEF IInv
  <2>4. CASE c \notin DOMAIN server.clients
    <3>1. server' = server
      BY <1>3, <2>4 DEF drop
    <3>2. Unreported' = Unreported
      BY <1>2, <3>1 DEF Unreported
    <3>3. Settled'
      BY <1>1, <1>2, <1>3, <3>1, <3>2, SettledSame
    <3> QED
      BY <2>1, <2>2, <3>3 DEF IInv
  <2> QED
    BY <2>3, <2>4
<1>4. CASE ~(c \in DOMAIN server.clients /\ server.clients[c].pending)
  BY <1>1, <1>3, <1>4 DEF ClientAsks, Handled, Rest
<1>5. CASE c \in DOMAIN server.clients /\ server.clients[c].pending
  <2>1. server.clients[c].mode = "app"
    BY <1>1, <1>5 DEF Sound, Kinds
  <2>2. CASE mode = "attach"
    <3> DEFINE r == attach(server, c, t, takeover)
    <3>1. server' = r /\ needs_render' = (needs_render \/ c \in DOMAIN r.clients)
      BY <1>5, <2>2 DEF ClientAsks, Handled
    <3>2. /\ Sound(r) /\ r.terminals = server.terminals
          /\ DOMAIN r.clients \subseteq DOMAIN server.clients
          /\ c \notin DOMAIN r.clients => r = drop(server, c)
          /\ DOMAIN r.owners \subseteq DOMAIN server.owners \cup (server.terminals \cap {t})
          /\ r.locks \subseteq server.locks \cup (server.terminals \cap {t})
      BY <1>1, <1>5, <2>1, Attached
    <3> HIDE DEF r
    <3>3. CASE c \notin DOMAIN r.clients
      BY <1>1, <1>3, <3>1, <3>2, <3>3 DEF Rest
    <3>4. CASE c \in DOMAIN r.clients
      <4>1. needs_render' = TRUE
        BY <1>1, <3>1, <3>4 DEF Rest
      <4>2. Lives' /\ Peers'
        BY <1>1, <1>2, <3>1, <3>2, LivesKept, PeersKept
      <4>3. Settled' /\ Rest'
        BY <1>1, <1>2, <3>1, <3>2, <4>1, Unsettled, RestKept
      <4> QED
        BY <3>1, <3>2, <4>2, <4>3 DEF IInv
    <3> QED
      BY <3>3, <3>4
  <2>3. CASE mode # "attach" /\ t \notin server.terminals
    BY <1>1, <1>3, <1>5, <2>3 DEF ClientAsks, Handled, Rest
  <2>4. CASE mode # "attach" /\ t \in server.terminals
    <3> DEFINE r == become_terminal_client(server, c, t, "observe")
    <3>1. server' = r /\ needs_render' = TRUE
      BY <1>1, <1>5, <2>4 DEF ClientAsks, Handled, Rest
    <3>2. /\ r.owners = server.owners /\ r.locks = server.locks
          /\ r.terminals = server.terminals /\ DOMAIN r.clients = DOMAIN server.clients
      BY <1>1, <1>5, <2>1, Turned
    <3>3. Sound(r)
      BY <1>1, <1>5, <2>1, Observed
    <3> HIDE DEF r
    <3>4. Lives' /\ Peers'
      BY <1>1, <1>2, <3>1, <3>2, LivesKept, PeersKept
    <3>5. Settled' /\ Rest'
      BY <1>1, <1>2, <3>1, <3>2, Unsettled, RestKept
    <3> QED
      BY <3>1, <3>3, <3>4, <3>5 DEF IInv
  <2> QED
    BY <2>2, <2>3, <2>4
<1> QED
  BY <1>4, <1>5

\* Bytes for a terminal change nothing here.
LEMMA TerminalInputKeeps ==
  ASSUME IInv, NEW c \in Clients, TerminalInput(c)
  PROVE  IInv'
<1>1. Sound(server) /\ Lives /\ Peers /\ Settled /\ Rest
  BY DEF IInv
<1>2. /\ server' = server /\ peer' = peer /\ dead' = dead /\ handoff' = handoff
      /\ drawn' = drawn /\ needs_render' \in BOOLEAN /\ (~needs_render' => ~needs_render)
  BY <1>1 DEF TerminalInput, Handled, InMode, Rest
<1>3. Lives' /\ Peers' /\ Rest'
  BY <1>1, <1>2 DEF Lives, Peers, Rest
<1>4. Unreported' = Unreported
  BY <1>2 DEF Unreported
<1>5. Settled'
  BY <1>1, <1>2, <1>4, SettledSame
<1> QED
  BY <1>1, <1>2, <1>3, <1>5 DEF IInv

\* Taking over the foreground client's state again leaves it settled: where that
\* changes the effective size, it is the size of an attached client.
LEMMA ResyncedKeeps ==
  ASSUME IInv, server' = sync_foreground(server), peer' = peer, dead' = dead,
         handoff' = handoff, drawn' = drawn, needs_render' \in BOOLEAN,
         ~needs_render' => ~needs_render
  PROVE  IInv'
<1>1. Sound(server) /\ Lives /\ Peers /\ Settled /\ Rest
  BY DEF IInv
<1>2. /\ Kept(server, server') /\ Sound(server') /\ server'.foreground = server.foreground
      /\ (\A f \in server.foreground : server.clients[f].mode = "app")
           => server'.effective = server.effective
      /\ Fitted(server) => Fitted(server')
  BY <1>1, Resynced
<1>3. Lives' /\ Peers' /\ Rest'
  BY <1>1, <1>2, LivesKept, PeersKept, RestKept DEF Kept
<1>4. ASSUME ~needs_render' PROVE RemainingAreRedrawn'
  <2>1. RemainingAreRedrawn /\ Unreported' = Unreported /\ FullApps(server') = FullApps(server)
    BY <1>1, <1>2, <1>4 DEF Settled, Unreported, Kept, FullApps
  <2>2. \A f \in server.foreground :
          server.clients[f].mode # "attach" => server.clients[f].mode = "app"
    <3>1. \A f \in server.foreground :
            f \in DOMAIN server.clients /\ server.clients[f].mode # "observe"
      BY <1>1 DEF Sound, Foreground, Foremost
    <3>2. \A f \in DOMAIN server.clients : server.clients[f].mode \in Modes
      BY <1>1, Fields DEF Sound, Connections
    <3> QED
      BY <3>1, <3>2 DEF Modes
  <2> QED
    BY <1>2, <1>4, <2>1, <2>2 DEF RemainingAreRedrawn, Kept
<1>5. Settled'
  BY <1>1, <1>2, <1>4 DEF Settled, Kept
<1> QED
  BY <1>2, <1>3, <1>5 DEF IInv

\* A client detaches by a key: it is gone, or cannot be written to any more.
LEMMA Detached ==
  ASSUME NEW s, Sound(s), NEW c \in DOMAIN s.clients
  PROVE  LET r == detach_by_key(s, c)
         IN  /\ Sound(r) /\ r.terminals = s.terminals
             /\ DOMAIN r.clients \subseteq DOMAIN s.clients
             /\ c \in DOMAIN r.clients => r.clients[c].writer = "none"
             /\ \A d \in DOMAIN r.clients \ {c} : r.clients[d].writer = s.clients[d].writer
             /\ \A d \in DOMAIN r.clients : r.clients[d].terminal = s.clients[d].terminal
             /\ DOMAIN r.owners \subseteq DOMAIN s.owners /\ r.locks \subseteq s.locks
             /\ Fitted(s) => Fitted(r)
<1> DEFINE r == detach_by_key(s, c)
<1>1. CASE s.clients[c].writer = "broken"
  <2>1. r = drop(s, c)
    BY <1>1 DEF detach_by_key
  <2> HIDE DEF r
  <2>2. /\ Sound(r) /\ Less(s, r) /\ DOMAIN r.clients = DOMAIN s.clients \ {c}
        /\ Fitted(s) => Fitted(r)
    BY <2>1, Dropped
  <2> QED
    BY <2>2 DEF Less, r
<1>2. CASE s.clients[c].writer # "broken"
  <2>1. r = [s EXCEPT !.clients[c].writer = "none"] /\ "none" \in Writers
    BY <1>2 DEF detach_by_key, Writers
  <2> HIDE DEF r
  <2>2. /\ Sound(r) /\ DOMAIN r.clients = DOMAIN s.clients
        /\ FullApps(r) = FullApps(s)
        /\ \A d \in DOMAIN s.clients :
             /\ r.clients[d].terminal = s.clients[d].terminal
             /\ r.clients[d].writer = IF d = c THEN "none" ELSE s.clients[d].writer
        /\ r.owners = s.owners /\ r.locks = s.locks /\ r.terminals = s.terminals
        /\ r.sizes = s.sizes /\ r.foreground = s.foreground /\ r.effective = s.effective
    BY <2>1, Rewritten
  <2>3. FullApps(s) \subseteq DOMAIN s.clients
    BY DEF FullApps
  <2>4. Fitted(s) => Fitted(r)
    BY <2>2, <2>3 DEF Fitted
  <2> QED
    BY <2>2, <2>4 DEF r
<1> QED
  BY <1>1, <1>2

\* A client sends input, and may detach by a key.
LEMMA ClientInputKeeps ==
  ASSUME IInv, NEW c \in Clients, NEW used \in BOOLEAN, NEW detach \in BOOLEAN,
         ClientInput(c, used, detach)
  PROVE  IInv'
<1> DEFINE first == IF used THEN promote(server, c) ELSE server
           fitted == IF first.foreground = server.foreground THEN first ELSE resize_shared(first)
           synced == sync_foreground(fitted)
<1>1. Sound(server) /\ Lives /\ Peers /\ Settled /\ Rest
  BY DEF IInv
<1>2. /\ peer[c] = "open" /\ peer' = peer /\ (detach => used)
      /\ dead' = dead /\ handoff' = handoff /\ drawn' = drawn
      /\ server' = IF detach THEN detach_by_key(synced, c) ELSE synced
      /\ needs_render' = (needs_render \/ (used /\ ~detach))
      /\ c \in DOMAIN server.clients => server.clients[c].mode # "observe"
  BY DEF ClientInput, Handled, InMode
<1>3. needs_render' \in BOOLEAN /\ (~needs_render' => ~needs_render)
  BY <1>1, <1>2 DEF Rest
<1>4. CASE ~used \/ c \notin DOMAIN server.clients
  <2>1. first = server /\ fitted = server
    BY <1>4 DEF promote
  <2>2. DOMAIN synced.clients = DOMAIN server.clients
    BY <1>1, <2>1, Resynced DEF Kept
  <2>3. server' = sync_foreground(server)
    BY <1>2, <1>4, <2>1, <2>2 DEF detach_by_key
  <2> QED
    BY <1>2, <1>3, <2>3, ResyncedKeeps
<1>5. CASE used /\ c \in DOMAIN server.clients
  <2>1. /\ Sound(fitted) /\ fitted.clients = server.clients
        /\ fitted.owners = server.owners /\ fitted.locks = server.locks
        /\ fitted.terminals = server.terminals /\ (Fitted(server) => Fitted(fitted))
    <3>1. /\ Sound(first) /\ first.clients = server.clients /\ first.owners = server.owners
          /\ first.locks = server.locks /\ first.terminals = server.terminals
          /\ first.sizes = server.sizes
      BY <1>1, <1>2, <1>5, Promoted DEF Sound
    <3> HIDE DEF first
    <3>2. /\ Kept(first, resize_shared(first)) /\ Sound(resize_shared(first))
          /\ Fitted(resize_shared(first))
      BY <3>1, Resized
    <3>3. CASE first.foreground = server.foreground
      <4>1. Fitted(server) => Fitted(first)
        BY <1>1, <3>1, <3>3, SameFront DEF Sound
      <4> QED
        BY <3>1, <3>3, <4>1
    <3>4. CASE first.foreground # server.foreground
      BY <3>1, <3>2, <3>4 DEF Kept
    <3> QED
      BY <3>3, <3>4
  <2> HIDE DEF fitted
  <2>2. /\ Sound(synced) /\ synced.clients = server.clients
        /\ synced.owners = server.owners /\ synced.locks = server.locks
        /\ synced.terminals = server.terminals /\ (Fitted(server) => Fitted(synced))
    BY <2>1, Resynced DEF Kept
  <2> HIDE DEF synced
  <2>3. CASE detach
    <3>1. server' = detach_by_key(synced, c)
      BY <1>2, <2>3
    <3>2. /\ Sound(server') /\ server'.terminals = server.terminals
          /\ DOMAIN server'.clients \subseteq DOMAIN server.clients
          /\ c \in DOMAIN server'.clients => server'.clients[c].writer = "none"
          /\ \A d \in DOMAIN server'.clients \ {c} :
               server'.clients[d].writer = server.clients[d].writer
          /\ \A d \in DOMAIN server'.clients :
               server'.clients[d].terminal = server.clients[d].terminal
          /\ DOMAIN server'.owners \subseteq DOMAIN server.owners
          /\ server'.locks \subseteq server.locks
          /\ Fitted(server) => Fitted(server')
      BY <1>5, <2>2, <3>1, Detached
    <3>3. Lives' /\ Peers' /\ Rest'
      BY <1>1, <1>2, <1>3, <3>2, LivesKept, PeersKept, RestKept
    <3>4. c \in Unreported'
      BY <1>2, <3>2 DEF Unreported
    <3>5. Settled'
      BY <1>1, <1>3, <3>2, <3>4 DEF Settled, RemainingAreRedrawn
    <3> QED
      BY <3>2, <3>3, <3>5 DEF IInv
  <2>4. CASE ~detach
    <3>1. server' = synced /\ needs_render' = TRUE
      BY <1>1, <1>2, <1>5, <2>4 DEF Rest
    <3>2. Lives' /\ Peers' /\ Rest'
      BY <1>1, <1>2, <2>2, <3>1, LivesKept, PeersKept, RestKept
    <3>3. Settled'
      BY <3>1, Unsettled
    <3> QED
      BY <2>2, <3>1, <3>2, <3>3 DEF IInv
  <2> QED
    BY <2>3, <2>4
<1> QED
  BY <1>4, <1>5

\* A client's size changes.
LEMMA ClientResizeKeeps ==
  ASSUME IInv, NEW c \in Clients, NEW size \in Sizes, ClientResize(c, size)
  PROVE  IInv'
<1>1. Sound(server) /\ Lives /\ Peers /\ Settled /\ Rest
  BY DEF IInv
<1>2. /\ peer[c] = "open" /\ peer' = peer /\ needs_render' = TRUE
      /\ dead' = dead /\ handoff' = handoff /\ drawn' = drawn
  BY <1>1 DEF ClientResize, Handled, Rest
<1>3. SUFFICES /\ Sound(server') /\ DOMAIN server'.clients = DOMAIN server.clients
               /\ server'.owners = server.owners /\ server'.locks = server.locks
               /\ server'.terminals = server.terminals
  <2>1. Lives' /\ Peers' /\ Rest'
    BY <1>1, <1>2, <1>3, LivesKept, PeersKept, RestKept
  <2> QED
    BY <1>2, <1>3, <2>1, Unsettled DEF IInv
<1>4. CASE c \notin DOMAIN server.clients
  <2>1. server' = resize_shared(server)
    BY <1>4 DEF ClientResize, Handled
  <2> QED
    BY <1>1, <2>1, Resized DEF Kept
<1>5. CASE c \in DOMAIN server.clients
  <2> DEFINE sized == [server EXCEPT !.clients[c].size = size]
  <2>1. /\ sized \in Registry /\ Kinds(sized) /\ Ordered(sized)
        /\ server.clients[c].mode # "attach" => Owned(sized)
        /\ server.clients[c].mode # "app" => Foreground(sized)
        /\ FullApps(sized) = FullApps(server)
        /\ DOMAIN sized.clients = DOMAIN server.clients
        /\ \A d \in DOMAIN server.clients : sized.clients[d].mode = server.clients[d].mode
        /\ sized.owners = server.owners /\ sized.locks = server.locks
        /\ sized.terminals = server.terminals
    BY <1>1, <1>5, Sized
  <2>2. CASE server.clients[c].mode = "app"
    <3>1. server' = resize_shared(promote(sized, c))
      BY <1>5, <2>2 DEF ClientResize, Handled
    <3>2. c \in DOMAIN sized.clients /\ sized.clients[c].mode # "observe"
      BY <1>5, <2>1, <2>2
    <3> DEFINE p == promote(sized, c)
    <3> HIDE DEF sized
    <3>3. /\ Sound(p) /\ p.clients = sized.clients /\ p.owners = sized.owners
          /\ p.locks = sized.locks /\ p.terminals = sized.terminals
      BY <2>1, <2>2, <3>2, Promoted
    <3>4. server' = resize_shared(p)
      BY <3>1
    <3> HIDE DEF p
    <3>5. Kept(p, server') /\ Sound(server')
      BY <3>3, <3>4, Resized
    <3> QED
      BY <2>1, <3>3, <3>5 DEF Kept
  <2>3. CASE server.clients[c].mode = "observe"
    <3>1. server' = sized
      BY <1>5, <2>3 DEF ClientResize, Handled
    <3> HIDE DEF sized
    <3> QED
      BY <2>1, <2>3, <3>1 DEF Sound
  <2>4. CASE server.clients[c].mode = "attach"
    <3> DEFINE Z == [t \in Terminals |->
                       IF t \in server.clients[c].terminal \cap server.terminals
                       THEN size ELSE sized.sizes[t]]
               r == [sized EXCEPT !.sizes = Z]
    <3>1. Sound(r)
      BY <1>1, <1>5, <2>4, OwnerSized
    <3>2. server' = r
      <4>1. server' = [sized EXCEPT !.sizes =
                        [t \in Terminals |->
                           IF t \in server.clients[c].terminal \cap server.terminals
                           THEN size ELSE @[t]]]
        BY <1>5, <2>4 DEF ClientResize, Handled
      <4> HIDE DEF sized
      <4> QED
        BY <2>1, <4>1 DEF Registry
    <3> HIDE DEF sized, Z
    <3>3. /\ r.clients = sized.clients /\ r.owners = sized.owners
          /\ r.locks = sized.locks /\ r.terminals = sized.terminals
      BY <2>1 DEF Registry
    <3> HIDE DEF r
    <3> QED
      BY <2>1, <3>1, <3>2, <3>3
  <2>5. server.clients[c].mode \in {"app", "attach", "observe"}
    <3>1. server.clients[c] \in Connections
      BY <1>1, <1>5, Fields DEF Sound
    <3> QED
      BY <3>1 DEF Connections, Modes
  <2> QED
    BY <2>2, <2>3, <2>4, <2>5
<1> QED
  BY <1>4, <1>5

\* A client goes, by itself.
LEMMA ClientDetachKeeps ==
  ASSUME IInv, NEW c \in Clients, ClientDetach(c)
  PROVE  IInv'
<1>1. Sound(server) /\ Lives /\ Peers /\ Settled /\ Rest
  BY DEF IInv
<1>2. /\ server' = drop(server, c) /\ needs_render' = TRUE /\ peer' = peer
      /\ dead' = dead /\ handoff' = handoff /\ drawn' = drawn
  BY <1>1 DEF ClientDetach, Handled, Rest
<1>3. Sound(server') /\ Less(server, server')
  BY <1>1, <1>2, Dropped
<1>4. Lives' /\ Peers' /\ Rest'
  BY <1>1, <1>2, <1>3, LivesKept, PeersKept, RestKept DEF Less
<1> QED
  BY <1>2, <1>3, <1>4, Unsettled DEF IInv

\* A client's connection ends.
LEMMA ClientDisconnectedKeeps ==
  ASSUME IInv, NEW c \in Clients, ClientDisconnected(c)
  PROVE  IInv'
<1>1. Sound(server) /\ Lives /\ Peers /\ Settled /\ Rest
  BY DEF IInv
<1>2. /\ server' = drop(server, c) /\ needs_render' = TRUE
      /\ peer' = [peer EXCEPT ![c] = "done"]
      /\ dead' = dead /\ handoff' = handoff /\ drawn' = drawn
  BY <1>1 DEF ClientDisconnected, Handled, Rest
<1>3. /\ Sound(server') /\ Less(server, server')
      /\ DOMAIN server'.clients = DOMAIN server.clients \ {c}
  BY <1>1, <1>2, Dropped
<1>4. Lives' /\ Rest'
  BY <1>1, <1>2, <1>3, LivesKept, RestKept DEF Less
<1>5. Peers'
  <2>1. /\ peer' \in [Clients -> {"none", "open", "done"}]
        /\ \A d \in Clients \ {c} : peer'[d] = peer[d]
    BY <1>1, <1>2 DEF Peers
  <2>2. DOMAIN server.clients \subseteq Clients
    BY <1>1, Fields DEF Sound
  <2> QED
    BY <1>1, <1>3, <2>1, <2>2 DEF Peers, Less
<1> QED
  BY <1>2, <1>3, <1>4, <1>5, Unsettled DEF IInv

\* A client's writer thread gives up.
LEMMA WriterBreaksKeeps ==
  ASSUME IInv, NEW c \in Clients, WriterBreaks(c)
  PROVE  IInv'
<1> DEFINE r == [server EXCEPT !.clients[c].writer = "broken"]
<1>1. Sound(server) /\ Lives /\ Peers /\ Settled /\ Rest
  BY DEF IInv
<1>2. /\ c \in DOMAIN server.clients /\ server.clients[c].writer = "open" /\ server' = r
      /\ dead' = dead /\ peer' = peer /\ needs_render' = needs_render
      /\ handoff' = handoff /\ drawn' = drawn
  BY DEF WriterBreaks
<1>3. /\ Sound(r) /\ DOMAIN r.clients = DOMAIN server.clients
      /\ FullApps(r) = FullApps(server)
      /\ \A d \in DOMAIN server.clients :
           /\ r.clients[d].mode = server.clients[d].mode
           /\ r.clients[d].terminal = server.clients[d].terminal
           /\ r.clients[d].writer = IF d = c THEN "broken" ELSE server.clients[d].writer
      /\ r.owners = server.owners /\ r.locks = server.locks
      /\ r.terminals = server.terminals /\ r.sizes = server.sizes
      /\ r.foreground = server.foreground /\ r.effective = server.effective
  <2>1. "broken" \in Writers
    BY DEF Writers
  <2> QED
    BY <1>1, <1>2, <2>1, Rewritten
<1> HIDE DEF r
<1>4. Lives' /\ Peers' /\ Rest'
  BY <1>1, <1>2, <1>3, LivesKept, PeersKept, RestKept DEF Rest
<1>5. ASSUME ~needs_render' PROVE Fitted(server') /\ RemainingAreRedrawn'
  <2>1. Fitted(server) /\ RemainingAreRedrawn
    BY <1>1, <1>2, <1>5 DEF Settled
  <2>2. FullApps(server) \subseteq DOMAIN server.clients
    BY DEF FullApps
  <2>3. Fitted(server')
    BY <1>2, <1>3, <2>1, <2>2 DEF Fitted
  <2>4. Unreported' = Unreported
    BY <1>2, <1>3 DEF Unreported
  <2>5. \A f \in server.foreground : server'.clients[f].mode = server.clients[f].mode
    <3>1. \A f \in server.foreground : f \in DOMAIN server.clients
      BY <1>1 DEF Sound, Foreground, Foremost
    <3> QED
      BY <1>2, <1>3, <3>1
  <2>6. RemainingAreRedrawn'
    BY <1>2, <1>3, <1>5, <2>1, <2>2, <2>4, <2>5 DEF RemainingAreRedrawn
  <2> QED
    BY <2>3, <2>6
<1>6. Settled'
  BY <1>1, <1>2, <1>3, <1>5 DEF Settled
<1> QED
  BY <1>2, <1>3, <1>4, <1>6 DEF IInv

\* The clients that a broadcast cannot reach are dropped.
LEMMA SendToAllKeeps ==
  ASSUME IInv, SendToAll
  PROVE  IInv'
<1>1. Sound(server) /\ Lives /\ Peers /\ Settled /\ Rest
  BY DEF IInv
<1>2. PICK order \in Orders(Broken(server)) : Handled(drop_all(server, order), FALSE)
  BY DEF SendToAll
<1>3. /\ server' = drop_all(server, order) /\ needs_render' = needs_render /\ peer' = peer
      /\ dead' = dead /\ handoff' = handoff /\ drawn' = drawn
  BY <1>1, <1>2 DEF SendToAll, Handled, Rest
<1>4. Broken(server) \in SUBSET DOMAIN server.clients
  BY DEF Broken
<1>5. /\ Sound(server') /\ Less(server, server')
      /\ DOMAIN server'.clients = DOMAIN server.clients \ Broken(server)
      /\ Fitted(server) => Fitted(server')
      /\ Broken(server) = {} => server' = server
  BY <1>1, <1>3, <1>4, AllDropped
<1>6. Lives' /\ Peers' /\ Rest'
  BY <1>1, <1>3, <1>5, LivesKept, PeersKept, RestKept DEF Less, Rest
<1>7. CASE Broken(server) = {}
  <2>1. Unreported' = Unreported
    BY <1>3, <1>5, <1>7 DEF Unreported
  <2>2. Settled'
    BY <1>1, <1>3, <1>5, <1>7, <2>1, SettledSame
  <2> QED
    BY <1>5, <1>6, <2>2 DEF IInv
<1>8. CASE Broken(server) # {}
  <2>1. PICK c \in Broken(server) : TRUE
    BY <1>8
  <2>2. c \in DOMAIN server.clients /\ c \in Clients
    BY <1>1, <1>4, <2>1, Fields DEF Sound
  <2>3. peer[c] = "open"
    BY <1>1, <2>2 DEF Peers
  <2>4. c \in Unreported'
    BY <1>3, <1>5, <2>1, <2>2, <2>3 DEF Unreported
  <2>5. Settled'
    BY <1>1, <1>3, <1>5, <2>4, SettledLess
  <2> QED
    BY <1>5, <1>6, <2>5 DEF IInv
<1> QED
  BY <1>7, <1>8

\* A terminal comes.
LEMMA TerminalStartsKeeps ==
  ASSUME IInv, NEW t \in Terminals, NEW size \in Sizes, TerminalStarts(t, size)
  PROVE  IInv'
<1> DEFINE r == WithTerminal(server, t, size)
<1>1. Sound(server) /\ Lives /\ Peers /\ Settled /\ Rest
  BY DEF IInv
<1>2. /\ t \notin server.terminals \cup dead /\ server' = r /\ needs_render' = TRUE
      /\ peer' = peer /\ dead' = dead /\ handoff' = handoff /\ drawn' = drawn
  BY <1>1 DEF TerminalStarts, Handled, Rest, WithTerminal
<1>3. t \notin DOMAIN server.owners /\ t \notin server.locks
  BY <1>1, <1>2 DEF Lives
<1>4. /\ Sound(r) /\ r.clients = server.clients /\ r.owners = server.owners
      /\ r.locks = server.locks /\ r.terminals = server.terminals \cup {t}
  BY <1>1, <1>2, <1>3, Started
<1> HIDE DEF r
<1>5. Lives'
  BY <1>1, <1>2, <1>4 DEF Lives
<1>6. Peers' /\ Rest'
  BY <1>1, <1>2, <1>4, PeersKept, RestKept
<1> QED
  BY <1>2, <1>4, <1>5, <1>6, Unsettled DEF IInv

\* A terminal's process ends, and those that show it go.
LEMMA PaneDiedKeeps ==
  ASSUME IInv, NEW t \in Terminals, PaneDied(t)
  PROVE  IInv'
<1> DEFINE K == server.locks
           s == [server EXCEPT !.terminals = @ \ {t}, !.sizes[t] = MinSize]
           q == WithoutTerminal(server, t, K)
<1>1. Sound(server) /\ Lives /\ Peers /\ Settled /\ Rest
  BY DEF IInv
<1>2. PICK order \in Orders(Streams(s, t)) : server' = drop_all(s, order)
  BY DEF PaneDied
<1>3. /\ t \in server.terminals /\ dead' = dead \cup {t} /\ needs_render' = TRUE
      /\ peer' = peer /\ handoff' = handoff /\ drawn' = drawn
  BY DEF PaneDied
<1>4. s = q
  BY <1>1 DEF Sound, Registry, WithoutTerminal
<1>5. K = server.locks
  OBVIOUS
<1> HIDE DEF K
<1>6. /\ Sound(q) /\ q.clients = server.clients /\ q.owners = server.owners
      /\ q.locks = K /\ q.terminals = server.terminals \ {t}
  BY <1>1, <1>3, <1>5, Closed
<1> HIDE DEF s, q
<1>7. Streams(s, t) \in SUBSET DOMAIN s.clients
  BY DEF Streams
<1>8. Sound(server') /\ Less(s, server')
  BY <1>2, <1>4, <1>6, <1>7, AllDropped
<1>9. Lives'
  BY <1>1, <1>3, <1>4, <1>5, <1>6, <1>8 DEF Lives, Less
<1>10. Peers' /\ Rest'
  BY <1>1, <1>3, <1>4, <1>6, <1>8, PeersKept, RestKept DEF Less
<1> QED
  BY <1>3, <1>8, <1>9, <1>10, Unsettled DEF IInv

\* A pane is closed.
LEMMA PaneClosesKeeps ==
  ASSUME IInv, NEW t \in Terminals, NEW popup \in BOOLEAN, PaneCloses(t, popup)
  PROVE  IInv'
<1> DEFINE K == IF popup THEN server.locks \ {t} ELSE server.locks
           q == WithoutTerminal(server, t, K)
<1>1. Sound(server) /\ Lives /\ Peers /\ Settled /\ Rest
  BY DEF IInv
<1>2. /\ t \in server.terminals /\ dead' = dead \cup {t} /\ needs_render' = TRUE
      /\ server' = q /\ peer' = peer /\ handoff' = handoff /\ drawn' = drawn
  BY <1>1 DEF PaneCloses, WithoutTerminal, Sound, Registry
<1>3. K = server.locks \/ K = server.locks \ {t}
  OBVIOUS
<1> HIDE DEF K
<1>4. /\ Sound(q) /\ q.clients = server.clients /\ q.owners = server.owners
      /\ q.locks = K /\ q.terminals = server.terminals \ {t}
  BY <1>1, <1>2, <1>3, Closed
<1> HIDE DEF q
<1>5. Lives'
  BY <1>1, <1>2, <1>3, <1>4 DEF Lives
<1>6. Peers' /\ Rest'
  BY <1>1, <1>2, <1>4, PeersKept, RestKept
<1> QED
  BY <1>2, <1>4, <1>5, <1>6, Unsettled DEF IInv

\* A render fits the panes and draws everybody it can; where it drops somebody
\* in the middle, another one is to come.
LEMMA RenderKeeps ==
  ASSUME IInv, Render
  PROVE  IInv'
<1> DEFINE fitted == IF server.foreground \cap Targets \cap FullApps(server) = {} THEN server
                     ELSE fit_panes(server)
<1>1. Sound(server) /\ Lives /\ Peers /\ Settled /\ Rest
  BY DEF IInv
<1>2. PICK order \in Orders(Undrawable) : server' = drop_all(fitted, order)
  BY DEF Render
<1>3. /\ needs_render' = FALSE /\ dead' = dead /\ peer' = peer /\ handoff' = handoff
      /\ drawn' = [c \in Clients |-> IF c \in Targets \cap FullApps(server)
                                     THEN server.effective ELSE MinSize]
  BY DEF Render
<1>4. /\ server.effective \in Sizes \cup {MinSize} /\ DOMAIN server.clients \subseteq Clients
      /\ FullApps(server) \subseteq DOMAIN server.clients
      /\ Targets \subseteq DOMAIN server.clients /\ Undrawable \subseteq Targets
  BY <1>1, Fields DEF Sound, FullApps, Targets, Undrawable
<1>5. /\ Sound(fitted) /\ Kept(server, fitted) /\ Fitted(fitted)
      /\ fitted.foreground = server.foreground /\ fitted.effective = server.effective
  <2>1. CASE server.foreground \cap Targets \cap FullApps(server) = {}
    <3>1. \A c \in server.foreground \cap FullApps(server) : server.clients[c].writer # "open"
      BY <1>4, <2>1 DEF Targets, FullApps, is_full_app
    <3> QED
      BY <1>1, <2>1, <3>1 DEF Fitted, Kept, Sound
  <2>2. CASE server.foreground \cap Targets \cap FullApps(server) # {}
    BY <1>1, <2>2, FittedPanes
  <2> QED
    BY <2>1, <2>2
<1> HIDE DEF fitted
<1>6. Undrawable \in SUBSET DOMAIN fitted.clients
  BY <1>4, <1>5 DEF Kept
<1>7. /\ Sound(server') /\ Less(fitted, server')
      /\ DOMAIN server'.clients = DOMAIN server.clients \ Undrawable
      /\ Fitted(server') /\ (Undrawable = {} => server' = fitted)
  <2>1. DOMAIN fitted.clients = DOMAIN server.clients
    BY <1>5 DEF Kept
  <2> QED
    BY <1>2, <1>5, <1>6, <2>1, AllDropped
<1>8. /\ server'.terminals = server.terminals
      /\ \A c \in DOMAIN server'.clients : server'.clients[c] = server.clients[c]
      /\ DOMAIN server'.owners \subseteq DOMAIN server.owners
      /\ server'.locks \subseteq server.locks
  BY <1>5, <1>7 DEF Less, Kept
<1>9. Lives' /\ Peers'
  BY <1>1, <1>3, <1>7, <1>8, LivesKept, PeersKept
<1>10. Rest'
  <2>1. drawn' \in [Clients -> Sizes \cup {MinSize}]
    BY <1>3, <1>4
  <2> QED
    BY <1>1, <1>3, <1>7, <2>1 DEF Rest
<1>11. \A c \in DOMAIN server'.clients :
         server'.clients[c].writer # "none" =>
           server'.clients[c].terminal \subseteq server'.terminals
  <2>1. TAKE c \in DOMAIN server'.clients
  <2>2. HAVE server'.clients[c].writer # "none"
  <2>5. /\ c \in DOMAIN server.clients /\ c \notin Undrawable
         /\ server.clients[c].writer # "none"
    BY <1>7, <1>8, <2>2
  <2>3. c \notin Targets => server.clients[c].terminal = {}
    BY <1>1, <2>5 DEF Targets, Sound, Kinds
  <2>4. c \in Targets => server.clients[c].terminal \subseteq server.terminals
    BY <2>5 DEF Undrawable
  <2> QED
    BY <1>8, <2>3, <2>4
<1>12. RemainingAreRedrawn'
  <2>1. CASE Undrawable = {}
    <3>1. server' = fitted /\ server'.clients = server.clients
          /\ server'.effective = server.effective
      BY <1>5, <1>7, <2>1 DEF Kept
    <3>2. FullApps(server') = FullApps(server)
      BY <3>1 DEF FullApps
    <3>3. ASSUME NEW c \in FullApps(server), server.clients[c].writer = "open"
          PROVE  drawn'[c] = server.effective
      <4>1. c \in Targets /\ c \in Clients
        BY <1>4, <3>3 DEF Targets, FullApps, is_full_app
      <4> QED
        BY <1>3, <4>1
    <3> QED
      BY <3>1, <3>2, <3>3 DEF RemainingAreRedrawn
  <2>2. CASE Undrawable # {}
    <3>1. PICK c \in Undrawable : TRUE
      BY <2>2
    <3>2. c \in DOMAIN server.clients /\ c \in Clients /\ peer[c] = "open"
      BY <1>1, <1>4, <3>1 DEF Peers
    <3>3. c \in Unreported'
      BY <1>3, <1>7, <3>1, <3>2 DEF Unreported
    <3> QED
      BY <3>3 DEF RemainingAreRedrawn
  <2> QED
    BY <2>1, <2>2
<1>13. Settled'
  BY <1>7, <1>11, <1>12 DEF Settled
<1> QED
  BY <1>7, <1>9, <1>10, <1>13 DEF IInv

\* A live handoff sends everybody away.
LEMMA LiveHandoffKeeps ==
  ASSUME IInv, NEW succeeds \in BOOLEAN, LiveHandoff(succeeds)
  PROVE  IInv'
<1>1. Sound(server) /\ Lives /\ Peers /\ Settled /\ Rest
  BY DEF IInv
<1>2. PICK order \in Orders(DOMAIN server.clients) :
        server' = resize_shared(sync_foreground(
                    [remove_all(server, order) EXCEPT !.foreground = {}]))
  BY DEF LiveHandoff
<1>3. /\ handoff' = succeeds /\ needs_render' = TRUE
      /\ dead' = dead /\ peer' = peer /\ drawn' = drawn
  BY DEF LiveHandoff
<1> DEFINE e == remove_all(server, order)
           q == [e EXCEPT !.foreground = {}]
           p == sync_foreground(q)
<1>4. Sound(e) /\ Less(server, e) /\ DOMAIN e.clients = {}
  BY <1>1, AllRemoved
<1>5. server' = resize_shared(p)
  BY <1>2
<1> HIDE DEF e
<1>6. e \in Registry /\ Kinds(e) /\ Ordered(e) /\ Owned(e)
  BY <1>4 DEF Sound
<1>7. /\ q \in Registry /\ q.clients = e.clients /\ q.activity = e.activity
      /\ q.owners = e.owners /\ q.locks = e.locks /\ q.terminals = e.terminals
      /\ q.sizes = e.sizes /\ q.foreground = {}
  BY <1>6 DEF Registry
<1> HIDE DEF q
<1>8. Kinds(q) /\ Ordered(q) /\ Owned(q)
  <2>1. Kept(e, q)
    BY <1>7 DEF Kept
  <2> QED
    BY <1>6, <1>7, <2>1, KeptFacts, KeptOwners
<1>9. Foremost(q)
  BY <1>4, <1>7 DEF Foremost, FullApps
<1>10. Kept(q, p) /\ p.sizes = q.sizes /\ Foreground(p)
  BY <1>7, <1>9, Synced
<1> HIDE DEF p
<1>11. Sound(p)
  BY <1>8, <1>10, KeptFacts, KeptOwners DEF Kept, Sound
<1>12. Kept(p, server') /\ Sound(server')
  BY <1>5, <1>11, Resized
<1>13. Less(server, server') /\ DOMAIN server'.clients = {}
  BY <1>4, <1>7, <1>10, <1>12 DEF Kept, Less
<1>14. Lives' /\ Peers'
  BY <1>1, <1>3, <1>13, LivesKept, PeersKept DEF Less
<1>15. Rest'
  BY <1>1, <1>3, <1>13 DEF Rest
<1> QED
  BY <1>3, <1>12, <1>14, <1>15, Unsettled DEF IInv

\* An agent reports, a request comes or the configuration changes.
LEMMA StateChangesKeeps ==
  ASSUME IInv, NEW redraw \in BOOLEAN, StateChanges(redraw)
  PROVE  IInv'
<1>1. /\ server' = sync_foreground(server) /\ peer' = peer /\ dead' = dead
      /\ handoff' = handoff /\ drawn' = drawn /\ needs_render' \in BOOLEAN
      /\ ~needs_render' => ~needs_render
  BY DEF StateChanges, Handled, IInv, Rest
<1> QED
  BY <1>1, ResyncedKeeps

\* What it says of a state it says of one in which nothing has changed.
LEMMA StutterKeeps ==
  ASSUME IInv, UNCHANGED vars
  PROVE  IInv'
<1>1. /\ server' = server /\ dead' = dead /\ peer' = peer
      /\ needs_render' = needs_render /\ handoff' = handoff /\ drawn' = drawn
  BY DEF vars
<1>2. Sound(server) /\ Lives /\ Peers /\ Settled /\ Rest
  BY DEF IInv
<1>3. Lives' /\ Peers' /\ Rest'
  BY <1>1, <1>2 DEF Lives, Peers, Rest
<1>4. Unreported' = Unreported
  BY <1>1 DEF Unreported
<1>5. Settled'
  BY <1>1, <1>2, <1>4, SettledSame
<1> QED
  BY <1>1, <1>2, <1>3, <1>5 DEF IInv

\* Every handler of the main loop, and every step of a writer thread, keeps the
\* inductive invariant.
THEOREM Invariant == Spec => []IInv
<1>1. Init => IInv
  BY InitIInv
<1>2. IInv /\ [Next]_vars => IInv'
  <2> SUFFICES ASSUME IInv, [Next]_vars PROVE IInv'
    OBVIOUS
  <2>1. ASSUME NEW c \in Clients, NEW size \in Sizes, NEW direct \in BOOLEAN,
               ClientConnected(c, size, direct)
        PROVE  IInv'
    BY <2>1, ClientConnectedKeeps
  <2>2. ASSUME NEW c \in Clients, NEW t \in Terminals, NEW mode \in {"attach", "observe"},
               NEW takeover \in BOOLEAN, ClientAsks(c, t, mode, takeover)
        PROVE  IInv'
    BY <2>2, ClientAsksKeeps
  <2>3. ASSUME NEW c \in Clients, NEW used \in BOOLEAN, NEW detach \in BOOLEAN,
               ClientInput(c, used, detach)
        PROVE  IInv'
    BY <2>3, ClientInputKeeps
  <2>4. ASSUME NEW c \in Clients, NEW size \in Sizes, ClientResize(c, size) PROVE IInv'
    BY <2>4, ClientResizeKeeps
  <2>5. ASSUME NEW c \in Clients, ClientDetach(c) PROVE IInv'
    BY <2>5, ClientDetachKeeps
  <2>6. ASSUME NEW c \in Clients, ClientDisconnected(c) PROVE IInv'
    BY <2>6, ClientDisconnectedKeeps
  <2>7. ASSUME NEW c \in Clients, WriterBreaks(c) PROVE IInv'
    BY <2>7, WriterBreaksKeeps
  <2>8. ASSUME NEW t \in Terminals, NEW size \in Sizes, TerminalStarts(t, size) PROVE IInv'
    BY <2>8, TerminalStartsKeeps
  <2>9. ASSUME NEW t \in Terminals, PaneDied(t) PROVE IInv'
    BY <2>9, PaneDiedKeeps
  <2>10. ASSUME NEW t \in Terminals, NEW popup \in BOOLEAN, PaneCloses(t, popup) PROVE IInv'
    BY <2>10, PaneClosesKeeps
  <2>11. CASE SendToAll
    BY <2>11, SendToAllKeeps
  <2>12. CASE Render
    BY <2>12, RenderKeeps
  <2>13. ASSUME NEW succeeds \in BOOLEAN, LiveHandoff(succeeds) PROVE IInv'
    BY <2>13, LiveHandoffKeeps
  <2>14. ASSUME NEW c \in Clients, TerminalInput(c) PROVE IInv'
    BY <2>14, TerminalInputKeeps
  <2>15. ASSUME NEW redraw \in BOOLEAN, StateChanges(redraw) PROVE IInv'
    BY <2>15, StateChangesKeeps
  <2>16. CASE UNCHANGED vars
    BY <2>16, StutterKeeps
  <2> QED
    BY <2>1, <2>2, <2>3, <2>4, <2>5, <2>6, <2>7, <2>8, <2>9, <2>10, <2>11, <2>12, <2>13,
       <2>14, <2>15, <2>16 DEF Next
<1> QED
  BY <1>1, <1>2, PTL DEF Spec

-----------------------------------------------------------------------------
(* What follows from it.                                                   *)

\* The registry never leaves its types, whoever comes, goes or takes over.
THEOREM TypeCorrect == Spec => []TypeOK
<1>1. IInv => TypeOK
  <2> SUFFICES ASSUME IInv PROVE TypeOK
    OBVIOUS
  <2>1. /\ server \in Registry /\ Ordered(server) /\ Lives /\ Peers /\ Rest
    BY DEF IInv, Sound
  <2> QED
    BY <2>1, Fields DEF TypeOK, Ordered, Lives, Peers, Rest
<1> QED
  BY <1>1, Invariant, PTL

\* Owners, locks and attached clients agree after every handler: through
\* takeovers, refusals, deaths of terminals and broken sends.
THEOREM Attachments == Spec => []AttachmentsAgree
<1>1. IInv => AttachmentsAgree
  <2> SUFFICES ASSUME IInv PROVE AttachmentsAgree
    OBVIOUS
  <2>1. Owned(server) /\ Settled
    BY DEF IInv, Sound
  <2> QED
    BY <2>1 DEF AttachmentsAgree, Owned, Settled, Get
<1> QED
  BY <1>1, Invariant, PTL

\* The two parts of Foreground are what ForegroundIsLastUsed says of the client
\* in the foreground, and of an empty one.
LEMMA LastUsed == IInv => ForegroundIsLastUsed
<1> SUFFICES ASSUME IInv PROVE ForegroundIsLastUsed
  OBVIOUS
<1>1. Foremost(server) /\ Effective(server)
  BY DEF IInv, Sound, Foreground
<1>2. CASE server.foreground = {}
  BY <1>1, <1>2 DEF ForegroundIsLastUsed, Foremost, Effective
<1>3. CASE server.foreground # {}
  <2>1. PICK f \in DOMAIN server.clients :
          /\ server.foreground = {f} /\ server.clients[f].mode # "observe"
          /\ \A d \in FullApps(server) \ {f} : <<d, f>> \in server.activity
    BY <1>1, <1>3 DEF Foremost
  <2>2. server.clients[f].mode = "app" => server.effective = server.clients[f].size
    BY <1>1, <2>1 DEF Effective
  <2> QED
    BY <1>3, <2>1, <2>2 DEF ForegroundIsLastUsed
<1> QED
  BY <1>2, <1>3

\* While there is a full client somebody is in the foreground, never an observer,
\* and no full client was used after it, whichever clients send which events;
\* and when nothing is left to draw, an owned terminal has its owner's size and
\* the others have that of a full foreground client.
THEOREM SizesFit == Spec => []TerminalsFit
<1>1. IInv => TerminalsFit
  <2> SUFFICES ASSUME IInv PROVE TerminalsFit
    OBVIOUS
  <2>1. Owned(server) /\ Effective(server) /\ Settled
    BY DEF IInv, Sound, Foreground
  <2>2. \A t \in server.terminals : t \in DOMAIN server.owners =>
          server.sizes[t] = server.clients[server.owners[t]].size
    BY <2>1 DEF Owned
  <2>3. ~needs_render => Fitted(server)
    BY <2>1 DEF Settled
  <2>4. \A c \in server.foreground \cap FullApps(server) :
          server.effective = server.clients[c].size
    BY <2>1 DEF Effective, FullApps, is_full_app
  <2> QED
    BY <2>2, <2>3, <2>4, LastUsed DEF TerminalsFit, Fitted
<1> QED
  BY <1>1, Invariant, PTL

\* A client dropped in the middle of a render or of a broadcast leaves nobody
\* with an old picture: its reader's report brings the render that was not asked
\* for.
THEOREM Redrawn == Spec => []RemainingAreRedrawn
<1>1. IInv => RemainingAreRedrawn
  BY DEF IInv, Settled, RemainingAreRedrawn
<1> QED
  BY <1>1, Invariant, PTL

\* Nobody is attached to a server that has handed over, and nobody owns one of
\* its terminals.
THEOREM NobodyLeft == Spec => []NobodyAfterHandoff
<1>1. IInv => NobodyAfterHandoff
  <2> SUFFICES ASSUME IInv, handoff PROVE server.clients = <<>> /\ server.owners = <<>>
    BY DEF NobodyAfterHandoff
  <2>1. server \in Registry /\ Owned(server) /\ DOMAIN server.clients = {}
    BY DEF IInv, Sound, Rest
  <2>2. DOMAIN server.owners = {}
    BY <2>1 DEF Owned
  <2>3. /\ server.clients \in [DOMAIN server.clients -> Connections]
        /\ server.owners \in [DOMAIN server.owners -> Clients]
    BY <2>1, Fields
  <2>4. /\ server.clients = [x \in DOMAIN server.clients |-> server.clients[x]]
        /\ server.owners = [x \in DOMAIN server.owners |-> server.owners[x]]
    BY <2>3
  <2> QED
    BY <2>1, <2>2, <2>4, EmptyMap
<1> QED
  BY <1>1, Invariant, PTL
=============================================================================
