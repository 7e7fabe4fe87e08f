----------------------- MODULE GlobalShortcutsProofs ------------------------
(***************************************************************************)
(* Proofs about GlobalShortcuts, for any keys, presses, replacements,      *)
(* refusals, closed sessions and restarts.  IInv is the invariant of the   *)
(* registration: which backend serves, what the portal holds for the       *)
(* application and what the user was told.  GestureInv is the invariant of *)
(* the gestures: where a press waits, and what is to end a recording.      *)
(***************************************************************************)
EXTENDS GlobalShortcuts, FiniteSetTheorems, SequenceTheorems, TLAPS

PortalStates == {"idle", "creating", "binding", "listing", "ready"}
Backends == [state : PortalStates, session : BOOLEAN, bindings : SUBSET Keys]
Kinds == {"CreateSession", "BindShortcuts", "ListShortcuts"}

\* The registration as one record (the value of Now).
Registrations ==
  [gens : Nat, modeOf : [Gens -> Modes], held : Nat, x11 : Nat, portal : [Gens -> Backends],
   told : BOOLEAN, pending : SUBSET (Gens \X Kinds), open : SUBSET Gens]

Messages ==
  [kind : Kinds, of : Gens, ok : BOOLEAN, keys : SUBSET Keys]
    \cup [kind : {"Closed", "NoOwner"}, of : Gens]
    \cup [kind : {"Activated", "Deactivated"}, of : Gens, key : Keys, press : Nat]

-----------------------------------------------------------------------------
(***************************************************************************)
(* The invariant of the registration                                       *)
(***************************************************************************)
Creates(r, g) == <<g, "CreateSession">> \in r.pending
Binds(r, g) == <<g, "BindShortcuts">> \in r.pending
Serving(r, g) == r.portal[g].state # "idle"
Idles(r) == r.x11 = None /\ \A g \in Gens : ~Serving(r, g)

\* Nothing is known of a list that was not built yet.
Fresh(r, g) ==
  /\ r.portal[g] = Idle /\ g \notin r.open /\ granted[g] = {}
  /\ \A kind \in Kinds : <<g, kind>> \notin r.pending

Fits(r) ==
  /\ r \in Registrations /\ r.gens <= MaxGen /\ r.held <= r.gens /\ r.x11 <= r.gens
  /\ \A g \in Gens : g > r.gens => Fresh(r, g)

\* A backend that creates its session has been granted nothing, and the
\* portal holds no session before it was asked for one.
Created(r) ==
  \A g \in Gens :
    /\ Creates(r, g) \/ r.portal[g].state = "creating" => granted[g] = {} /\ ~Binds(r, g)
    /\ g \in r.open => ~Creates(r, g)

\* One backend serves.
Sole(r) == \A g \in Gens : Serving(r, g) => r.held = g /\ r.x11 = None

\* A backend has its session from the first answer on.
HasSession(r) ==
  \A g \in Gens : r.portal[g].state \in {"binding", "listing", "ready"} <=> r.portal[g].session

\* A session in which shortcuts were bound, or are about to be, is served.
Bound(r, g) == g \in r.open /\ (granted[g] # {} \/ Binds(r, g))
Served(r) == \A g \in Gens : Bound(r, g) => r.held = g /\ r.portal[g].session

Deaf(r) == Idles(r) => r.told

RegInv(r) == Fits(r) /\ Created(r) /\ Sole(r) /\ HasSession(r) /\ Served(r) /\ Deaf(r)

\* What is on its way agrees with what the portal holds.
BusFits ==
  \A i \in DOMAIN bus :
    /\ bus[i].of <= gens
    /\ bus[i].kind \in {"CreateSession", "Closed", "NoOwner"} =>
         <<bus[i].of, "CreateSession">> \notin pending
    /\ bus[i].kind \in {"Closed", "NoOwner"} => bus[i].of \notin open

WorldTypes ==
  /\ granted \in [Gens -> SUBSET Keys] /\ bus \in Seq(Messages)
  /\ presses \in Nat /\ down \in [Keys -> Nat] /\ mode \in Modes

IInv == RegInv(Now) /\ BusFits /\ WorldTypes

-----------------------------------------------------------------------------
(***************************************************************************)
(* What the operations on a registration do                                *)
(***************************************************************************)
LEMMA Constants ==
  /\ MaxGen \in Nat /\ MaxGen >= 2 /\ MaxPresses \in Nat /\ Gens \subseteq Nat /\ None \notin Gens
  /\ None \in Nat /\ Idle \in Backends /\ Idle.state = "idle" /\ Idle.session = FALSE
  BY ShortcutsAssumption DEF Gens, None, Idle, Backends, PortalStates

\* Every field of a registration.
LEMMA Fields ==
  ASSUME NEW r \in Registrations
  PROVE  /\ r.gens \in Nat /\ r.modeOf \in [Gens -> Modes] /\ r.held \in Nat /\ r.x11 \in Nat
         /\ r.portal \in [Gens -> Backends] /\ r.told \in BOOLEAN
         /\ r.pending \in SUBSET (Gens \X Kinds) /\ r.open \in SUBSET Gens
         /\ \A g \in Gens : r.portal[g] \in Backends
  BY DEF Registrations

\* A new list of controllers changes nothing that was there.
LEMMA NewList ==
  ASSUME NEW r \in Registrations, r.gens < MaxGen, NEW m \in Modes
  PROVE  LET s == ShortcutSpecs(r, m)
         IN  /\ s \in Registrations /\ s.gens = r.gens + 1 /\ s.gens \in Gens
             /\ s.held = r.held /\ s.x11 = r.x11 /\ s.portal = r.portal /\ s.told = r.told
             /\ s.pending = r.pending /\ s.open = r.open
             /\ \A g \in Gens : g <= r.gens => s.modeOf[g] = r.modeOf[g]
<1> DEFINE s == ShortcutSpecs(r, m)
<1>1. s = [r EXCEPT !.gens = r.gens + 1, !.modeOf = [r.modeOf EXCEPT ![r.gens + 1] = m]]
  BY DEF ShortcutSpecs, Registrations
<1>2. r.gens + 1 \in Gens
  BY Fields, Constants DEF Gens
<1>3. [r.modeOf EXCEPT ![r.gens + 1] = m] \in [Gens -> Modes]
  BY <1>2, Fields
<1>4. r.gens + 1 \in Nat
  BY Fields
<1>5. s \in Registrations
  BY <1>1, <1>3, <1>4 DEF Registrations
<1>6. /\ s.gens = r.gens + 1 /\ s.held = r.held /\ s.x11 = r.x11 /\ s.portal = r.portal
      /\ s.told = r.told /\ s.pending = r.pending /\ s.open = r.open
  BY <1>1 DEF Registrations
<1>7. \A g \in Gens : g <= r.gens => s.modeOf[g] = r.modeOf[g]
  <2>1. s.modeOf = [r.modeOf EXCEPT ![r.gens + 1] = m]
    BY <1>1 DEF Registrations
  <2>2. QED
    BY <2>1, Fields, Constants
<1>8. QED
  BY <1>2, <1>5, <1>6, <1>7

\* A backend that is unregistered is idle and its session is closed.
LEMMA Unregistered ==
  ASSUME NEW r \in Registrations, NEW g \in Gens
  PROVE  LET s == Unregister(r, g)
         IN  /\ s \in Registrations /\ s.gens = r.gens /\ s.held = r.held /\ s.x11 = r.x11
             /\ s.told = r.told /\ s.pending = r.pending /\ s.modeOf = r.modeOf
             /\ s.portal = [r.portal EXCEPT ![g] = Idle]
             /\ s.open = IF r.portal[g].session THEN r.open \ {g} ELSE r.open
<1>1. [r.portal EXCEPT ![g] = Idle] \in [Gens -> Backends]
  BY Fields, Constants
<1>2. CloseSession(r, g) \in SUBSET Gens
  BY Fields DEF CloseSession
<1>3. QED
  BY <1>1, <1>2 DEF Unregister, CloseSession, Registrations

\* X11 serves the newest list, or the user is told.
LEMMA TriedX11 ==
  ASSUME NEW r \in Registrations, NEW q \in StartX11(r)
  PROVE  /\ q \in Registrations /\ q.gens = r.gens /\ q.held = r.held /\ q.portal = r.portal
         /\ q.pending = r.pending /\ q.open = r.open /\ q.modeOf = r.modeOf
         /\ \/ q.told = TRUE /\ q.x11 = r.x11
            \/ q.told = r.told /\ q.x11 = r.gens
<1>1. q = [r EXCEPT !.told = TRUE] \/ q = [r EXCEPT !.x11 = r.gens]
  BY DEF StartX11
<1>2. QED
  BY <1>1 DEF Registrations

\* A failed backend is idle, and a new list was built for the fallback.
LEMMA Failed ==
  ASSUME NEW r \in Registrations, r.gens < MaxGen, NEW m \in Modes, NEW g \in Gens,
         NEW q \in Fail(r, g, m)
  PROVE  /\ q \in Registrations /\ q.gens = r.gens + 1 /\ q.held = None /\ q.pending = r.pending
         /\ q.portal = [r.portal EXCEPT ![g] = Idle] /\ q.told = TRUE
         /\ q.open = IF r.portal[g].session THEN r.open \ {g} ELSE r.open
         /\ q.x11 \in {r.x11, q.gens}
<1> DEFINE u == Unregister(r, g)
           v == [u EXCEPT !.held = None, !.told = TRUE]
           s == ShortcutSpecs(v, m)
<1>1. /\ u \in Registrations /\ u.gens = r.gens /\ u.x11 = r.x11 /\ u.pending = r.pending
      /\ u.portal = [r.portal EXCEPT ![g] = Idle]
      /\ u.open = IF r.portal[g].session THEN r.open \ {g} ELSE r.open
  BY Unregistered
<1>2. /\ v \in Registrations /\ v.gens = u.gens /\ v.x11 = u.x11 /\ v.pending = u.pending
      /\ v.portal = u.portal /\ v.open = u.open /\ v.held = None /\ v.told = TRUE
  BY <1>1, Constants DEF Registrations
<1>3. /\ s \in Registrations /\ s.gens = v.gens + 1 /\ s.held = v.held /\ s.x11 = v.x11
      /\ s.portal = v.portal /\ s.told = v.told /\ s.pending = v.pending /\ s.open = v.open
  BY <1>1, <1>2, NewList, ZenonT(60)
<1>4. q \in StartX11(s)
  BY DEF Fail
<1>5. /\ q \in Registrations /\ q.gens = s.gens /\ q.held = s.held /\ q.portal = s.portal
      /\ q.pending = s.pending /\ q.open = s.open
      /\ (q.told = TRUE /\ q.x11 = s.x11) \/ (q.told = s.told /\ q.x11 = s.gens)
  BY <1>3, <1>4, TriedX11
<1>6. q.told = TRUE
  BY <1>2, <1>3, <1>5
<1>7. q.x11 \in {r.x11, q.gens}
  BY <1>1, <1>2, <1>3, <1>5
<1>8. q.gens = r.gens + 1 /\ q.held = None /\ q.pending = r.pending /\ q.portal = [r.portal EXCEPT ![g] = Idle]
  BY <1>1, <1>2, <1>3, <1>5
<1>9. q.open = IF r.portal[g].session THEN r.open \ {g} ELSE r.open
  BY <1>1, <1>2, <1>3, <1>5
<1>10. QED
  BY <1>5, <1>6, <1>7, <1>8, <1>9

\* A failure keeps the modes of the lists that were built.
LEMMA FailedModes ==
  ASSUME NEW r \in Registrations, r.gens < MaxGen, NEW m \in Modes, NEW g \in Gens,
         NEW q \in Fail(r, g, m), NEW h \in Gens, h <= r.gens
  PROVE  q.modeOf[h] = r.modeOf[h]
<1> DEFINE u == Unregister(r, g)
           v == [u EXCEPT !.held = None, !.told = TRUE]
           s == ShortcutSpecs(v, m)
<1>1. u \in Registrations /\ u.gens = r.gens /\ u.modeOf = r.modeOf
  BY Unregistered
<1>2. v \in Registrations /\ v.gens = u.gens /\ v.modeOf = u.modeOf
  BY <1>1, Constants DEF Registrations
<1>3. q \in StartX11(s)
  BY DEF Fail
<1> HIDE DEF u, v
<1>4. s \in Registrations /\ s.modeOf[h] = v.modeOf[h]
  <2>1. v.gens < MaxGen /\ h <= v.gens
    BY <1>1, <1>2
  <2>2. QED
    BY <1>2, <2>1, NewList
<1>5. q.modeOf = s.modeOf
  BY <1>3, <1>4, TriedX11
<1>6. QED
  BY <1>1, <1>2, <1>4, <1>5

\* What a step of the registration may add to what the portal is asked and to
\* what it holds.
Follows(r, q) ==
  /\ r.gens <= q.gens /\ q.open \subseteq r.open
  /\ \A g \in Gens : Creates(q, g) => Creates(r, g) \/ g > r.gens

\* Only the backend of list g may serve, nothing else is bound, and g has
\* a session if anything is.
Only(r, g) ==
  /\ r.x11 = None
  /\ \A h \in Gens : h # g => ~Serving(r, h) /\ ~r.portal[h].session /\ ~Bound(r, h)
  /\ Bound(r, g) => r.portal[g].session


\* The lists of a registration, and what is not known of the ones to come.
Lists(r) == r \in Registrations /\ \A g \in Gens : g > r.gens => Fresh(r, g)

\* A backend that fails leaves a sound registration in which nothing is bound.
LEMMA FailureIsSound ==
  ASSUME NEW r, Lists(r), r.gens < MaxGen, Created(r), NEW m \in Modes,
         NEW g \in Gens, g <= r.gens, Only(r, g), NEW q \in Fail(r, g, m)
  PROVE  /\ RegInv(q) /\ Follows(r, q) /\ q.gens = r.gens + 1
         /\ \A h \in Gens : ~Serving(q, h) /\ ~Bound(q, h)
<1>1. r \in Registrations /\ r.gens \in Nat /\ r.portal \in [Gens -> Backends]
  BY Fields DEF Lists
<1>2. /\ q \in Registrations /\ q.gens = r.gens + 1 /\ q.held = None /\ q.pending = r.pending
      /\ q.portal = [r.portal EXCEPT ![g] = Idle] /\ q.told = TRUE
      /\ q.open = IF r.portal[g].session THEN r.open \ {g} ELSE r.open
      /\ q.x11 \in {r.x11, q.gens}
  BY <1>1, Failed
<1>3. q.portal[g] = Idle /\ \A h \in Gens : h # g => q.portal[h] = r.portal[h]
  BY <1>1, <1>2
<1>4. \A h \in Gens : (Creates(q, h) <=> Creates(r, h)) /\ (Binds(q, h) <=> Binds(r, h))
  BY <1>2 DEF Creates, Binds
<1>5. \A h \in Gens : ~Serving(q, h) /\ ~q.portal[h].session
  BY <1>3, Constants DEF Serving, Only
<1>6. \A h \in Gens : ~Bound(q, h)
  BY <1>2, <1>4 DEF Bound, Only
<1>7. q.open \subseteq r.open
  BY <1>2
<1>8. Fits(q)
  <2>1. q.gens <= MaxGen /\ q.held <= q.gens /\ q.x11 <= q.gens
    BY <1>1, <1>2, Constants DEF Only, None
  <2>2. ASSUME NEW h \in Gens, h > q.gens PROVE Fresh(q, h)
    <3>1. h > r.gens /\ h # g
      BY <1>1, <1>2, <2>2, Constants
    <3>2. Fresh(r, h)
      BY <3>1 DEF Lists
    <3>3. QED
      BY <1>2, <1>3, <1>7, <3>1, <3>2 DEF Fresh
  <2>3. QED
    BY <1>2, <2>1, <2>2 DEF Fits
<1>9. Created(q)
  <2>1. \A h \in Gens : q.portal[h].state # "creating"
    BY <1>5 DEF Serving
  <2>2. QED
    BY <1>4, <1>7, <2>1 DEF Created
<1>10. Sole(q) /\ Served(q) /\ Deaf(q)
  BY <1>2, <1>5, <1>6 DEF Sole, Served, Deaf
<1>11. HasSession(q)
  BY <1>5 DEF HasSession, Serving
<1>12. Follows(r, q)
  BY <1>1, <1>2, <1>4, <1>7 DEF Follows
<1>13. QED
  BY <1>2, <1>5, <1>6, <1>8, <1>9, <1>10, <1>11, <1>12 DEF RegInv

\* One backend is replaced in a registration, with what is pending.
WithBackend(r, g, b, p) == [r EXCEPT !.portal = [r.portal EXCEPT ![g] = b], !.pending = p]

\* Only the backend of one list is another.
LEMMA Replaced ==
  ASSUME NEW r \in Registrations, NEW g \in Gens, NEW b \in Backends,
         NEW p \in SUBSET (Gens \X Kinds), NEW q, q = WithBackend(r, g, b, p)
  PROVE  /\ q \in Registrations /\ q.gens = r.gens /\ q.held = r.held /\ q.x11 = r.x11
         /\ q.told = r.told /\ q.open = r.open /\ q.pending = p
         /\ q.portal[g] = b /\ \A h \in Gens : h # g => q.portal[h] = r.portal[h]
<1>1. [r.portal EXCEPT ![g] = b] \in [Gens -> Backends]
  BY Fields
<1>2. q \in Registrations
  BY <1>1 DEF Registrations, WithBackend
<1>3. /\ q.gens = r.gens /\ q.held = r.held /\ q.x11 = r.x11
      /\ q.told = r.told /\ q.open = r.open /\ q.pending = p
      /\ q.portal = [r.portal EXCEPT ![g] = b]
  BY DEF Registrations, WithBackend
<1>4. QED
  BY <1>2, <1>3, Fields

\* The shortcuts are registered from a registration in which nothing serves and
\* nothing is bound.
LEMMA StartIsSound ==
  ASSUME NEW r, Fits(r), Created(r), HasSession(r), Idles(r), \A g \in Gens : ~Bound(r, g),
         r.gens + 2 <= MaxGen, NEW m \in Modes, NEW q \in StartShortcut(r, m)
  PROVE  RegInv(q) /\ Follows(r, q)
<1> DEFINE n == ShortcutSpecs(r, m)
           s == [n EXCEPT !.told = FALSE]
           g == s.gens
           b == [state |-> "creating", session |-> FALSE, bindings |-> Keys]
           p == RegisterMany(s, g)
<1>1. r \in Registrations /\ r.gens \in Nat /\ r.gens < MaxGen /\ MaxGen \in Nat
      /\ r.held \in Nat /\ r.held <= r.gens /\ r.x11 = None
  BY Constants, Fields DEF Fits, Idles
<1>2. /\ n \in Registrations /\ n.gens = r.gens + 1 /\ n.gens \in Gens /\ n.held = r.held
      /\ n.x11 = r.x11 /\ n.portal = r.portal /\ n.pending = r.pending /\ n.open = r.open
  BY <1>1, NewList
<1>3. /\ s \in Registrations /\ s.gens = r.gens + 1 /\ g = s.gens /\ g \in Gens /\ s.held = r.held
      /\ s.x11 = None /\ s.portal = r.portal /\ s.pending = r.pending /\ s.open = r.open
  BY <1>1, <1>2 DEF Registrations
<1> HIDE DEF n, s, g
<1>4. /\ \A h \in Gens : ~Serving(s, h) /\ ~Bound(s, h) /\ ~s.portal[h].session
      /\ \A h \in Gens : (Creates(s, h) <=> Creates(r, h)) /\ (Binds(s, h) <=> Binds(r, h))
  BY <1>3 DEF Idles, Serving, Bound, Creates, Binds, HasSession
<1>5. Fresh(r, g)
  BY <1>1, <1>3, Constants DEF Fits
<1>6. \A h \in Gens : h > s.gens => Fresh(s, h)
  BY <1>1, <1>3, Constants DEF Fits, Fresh
<1>7. CASE ~available
  <2>1. /\ q \in Registrations /\ q.gens = s.gens /\ q.held = s.held /\ q.portal = s.portal
        /\ q.pending = s.pending /\ q.open = s.open
        /\ (q.told = TRUE /\ q.x11 = s.x11) \/ (q.told = s.told /\ q.x11 = s.gens)
    BY <1>3, <1>7, TriedX11 DEF StartShortcut, n, s, g
  <2>2. /\ \A h \in Gens : ~Serving(q, h) /\ ~Bound(q, h) /\ ~q.portal[h].session
        /\ \A h \in Gens : (Creates(q, h) <=> Creates(r, h)) /\ (Binds(q, h) <=> Binds(r, h))
    BY <1>4, <2>1 DEF Serving, Bound, Creates, Binds
  <2>3. Fits(q)
    <3>1. q.gens <= MaxGen /\ q.held <= q.gens /\ q.x11 <= q.gens
      BY <1>1, <1>3, <2>1, Constants DEF None
    <3>2. \A h \in Gens : h > q.gens => Fresh(q, h)
      BY <1>6, <2>1 DEF Fresh
    <3>3. QED
      BY <2>1, <3>1, <3>2 DEF Fits
  <2>4. Created(q)
    BY <1>3, <2>1, <2>2 DEF Created, Serving
  <2>5. Sole(q) /\ Served(q) /\ HasSession(q)
    BY <2>2 DEF Sole, Served, HasSession, Serving
  <2>6. Deaf(q)
    BY <1>3, <2>1, Constants DEF Deaf, Idles
  <2>7. Follows(r, q)
    BY <1>1, <1>3, <2>1, <2>2 DEF Follows
  <2>8. QED
    BY <2>3, <2>4, <2>5, <2>6, <2>7 DEF RegInv
<1>8. CASE available
  <2>1. b \in Backends
    BY DEF Backends, PortalStates
  <2>2. p = WithBackend(s, g, b, s.pending)
    BY <1>3 DEF RegisterMany, Registrations, WithBackend
  <2> HIDE DEF p, b
  <2>3. /\ p \in Registrations /\ p.gens = s.gens /\ p.held = s.held /\ p.x11 = s.x11
        /\ p.open = s.open /\ p.pending = s.pending
        /\ p.portal[g] = b /\ \A h \in Gens : h # g => p.portal[h] = s.portal[h]
    <3>1. s.pending \in SUBSET (Gens \X Kinds)
      BY <1>3, Fields
    <3>2. QED
      BY <1>3, <2>1, <2>2, <3>1, Replaced
  <2>4. \A h \in Gens : (Creates(p, h) <=> Creates(r, h)) /\ (Binds(p, h) <=> Binds(r, h))
                        /\ (Bound(p, h) <=> Bound(r, h))
    BY <1>3, <2>3 DEF Creates, Binds, Bound
  <2>5. Only(p, g)
    BY <1>3, <1>4, <2>3, <2>4 DEF Only, Serving, b
  <2>6. Created(p)
    <3>1. granted[g] = {} /\ ~Binds(p, g)
      BY <1>3, <1>5, <2>4 DEF Fresh, Kinds, Binds
    <3>2. \A h \in Gens : h # g => p.portal[h].state # "creating"
      BY <1>4, <2>3 DEF Serving
    <3>3. QED
      BY <1>3, <2>3, <2>4, <3>1, <3>2 DEF Created
  <2>7. Lists(p)
    <3>1. \A h \in Gens : h > p.gens => h # g
      BY <1>3, <2>3, Constants
    <3>2. QED
      BY <1>6, <2>3, <3>1 DEF Lists, Fresh
  <2>8. PICK t \in Request(p, g, "CreateSession", m) : q = [t EXCEPT !.held = g]
    BY <1>8 DEF StartShortcut, n, s, g, p
  <2>9. CASE t \in Fail(p, g, m)
    <3>1. p.gens < MaxGen /\ g <= p.gens
      BY <1>1, <1>3, <2>3, Constants
    <3>2. /\ RegInv(t) /\ Follows(p, t) /\ t.gens = p.gens + 1
          /\ \A h \in Gens : ~Serving(t, h) /\ ~Bound(t, h)
      BY <1>3, <2>5, <2>6, <2>7, <2>9, <3>1, FailureIsSound
    <3>3. t \in Registrations
      BY <3>2 DEF RegInv, Fits
    <3>4. /\ q \in Registrations /\ q.gens = t.gens /\ q.held = g /\ q.x11 = t.x11 /\ q.told = t.told
          /\ q.portal = t.portal /\ q.pending = t.pending /\ q.open = t.open
      BY <1>3, <2>8, <3>3, Constants DEF Registrations
    <3>5. \A h \in Gens : /\ (Serving(q, h) <=> Serving(t, h)) /\ (Bound(q, h) <=> Bound(t, h))
                          /\ (Creates(q, h) <=> Creates(t, h)) /\ (Binds(q, h) <=> Binds(t, h))
                          /\ (Fresh(q, h) <=> Fresh(t, h))
      BY <3>4 DEF Serving, Bound, Creates, Binds, Fresh
    <3>6. Fits(q)
      BY <1>1, <1>3, <2>3, <3>2, <3>4, <3>5, Constants DEF RegInv, Fits
    <3>7. Created(q) /\ HasSession(q)
      BY <3>2, <3>4, <3>5 DEF RegInv, Created, HasSession
    <3>8. Sole(q) /\ Served(q)
      BY <3>2, <3>5 DEF Sole, Served
    <3>9. Deaf(q)
      BY <3>2, <3>4, <3>5 DEF RegInv, Deaf, Idles
    <3>10. Follows(r, q)
      BY <1>1, <1>3, <2>3, <2>4, <3>2, <3>4, <3>5, Constants DEF Follows
    <3>11. QED
      BY <3>6, <3>7, <3>8, <3>9, <3>10 DEF RegInv
  <2>10. CASE t = [p EXCEPT !.pending = @ \cup {<<g, "CreateSession">>}]
    <3>1. /\ q \in Registrations /\ q.gens = p.gens /\ q.held = g /\ q.x11 = p.x11
          /\ q.portal = p.portal /\ q.pending = p.pending \cup {<<g, "CreateSession">>} /\ q.open = p.open
      <4>1. p.pending \cup {<<g, "CreateSession">>} \in SUBSET (Gens \X Kinds)
        BY <1>3, <2>3, Fields DEF Kinds
      <4>2. QED
        BY <1>3, <2>3, <2>8, <2>10, <4>1, Constants DEF Registrations
    <3>2. \A h \in Gens : /\ (Creates(q, h) <=> Creates(r, h) \/ h = g) /\ (Binds(q, h) <=> Binds(r, h))
                          /\ ~Bound(q, h)
      BY <2>4, <3>1 DEF Creates, Binds, Bound
    <3>3. Fits(q)
      <4>1. q.gens <= MaxGen /\ q.held <= q.gens /\ q.x11 <= q.gens
        BY <1>1, <1>3, <2>3, <3>1, Constants DEF None
      <4>2. ASSUME NEW h \in Gens, h > q.gens PROVE Fresh(q, h)
        <5>1. h # g /\ Fresh(p, h)
          BY <1>3, <2>3, <2>7, <3>1, <4>2, Constants DEF Lists
        <5>2. QED
          BY <3>1, <5>1 DEF Fresh
      <4>3. QED
        BY <3>1, <4>1, <4>2 DEF Fits
    <3>4. Created(q)
      <4>1. g \notin q.open /\ granted[g] = {} /\ ~Binds(q, g)
        BY <1>3, <1>5, <2>3, <3>1, <3>2 DEF Fresh, Binds, Kinds
      <4>2. \A h \in Gens : h # g => q.portal[h].state # "creating"
        BY <1>4, <2>3, <3>1 DEF Serving
      <4>3. QED
        BY <1>3, <2>3, <3>1, <3>2, <4>1, <4>2 DEF Created
    <3>5. Sole(q) /\ HasSession(q) /\ Served(q)
      <4>1. \A h \in Gens : h # g => q.portal[h].state = "idle" /\ ~q.portal[h].session
        BY <2>5, <3>1 DEF Only, Serving
      <4>2. q.portal[g].state = "creating" /\ q.portal[g].session = FALSE /\ q.x11 = None
        BY <1>3, <2>3, <3>1 DEF b
      <4>3. QED
        BY <3>1, <3>2, <4>1, <4>2 DEF Sole, HasSession, Served, Serving
    <3>6. Deaf(q)
      BY <1>3, <2>3, <3>1 DEF Deaf, Idles, Serving, b
    <3>7. Follows(r, q)
      BY <1>1, <1>3, <2>3, <3>1, <3>2, Constants DEF Follows
    <3>8. QED
      BY <3>3, <3>4, <3>5, <3>6, <3>7 DEF RegInv
  <2>11. QED
    BY <2>8, <2>9, <2>10 DEF Request
<1>9. QED
  BY <1>7, <1>8

\* The variables are the fields of Now.
LEMMA NowIs ==
  /\ Now.gens = gens /\ Now.modeOf = modeOf /\ Now.held = held /\ Now.x11 = x11
  /\ Now.portal = portal /\ Now.told = told /\ Now.pending = pending /\ Now.open = open
  BY DEF Now

\* A backend that serves is the only one.
LEMMA ServingIsOnly ==
  ASSUME NEW r, RegInv(r), NEW g \in Gens, Serving(r, g)
  PROVE  Only(r, g) /\ Lists(r) /\ g <= r.gens /\ r.held = g
<1>1. r.held = g /\ r.x11 = None
  BY DEF RegInv, Sole
<1>2. Lists(r) /\ g <= r.gens
  <2>1. ~Fresh(r, g)
    BY Constants DEF Fresh, Serving
  <2>2. r.gens \in Nat /\ g \in Nat
    BY Fields, Constants DEF RegInv, Fits
  <2>3. QED
    BY <2>1, <2>2 DEF RegInv, Fits, Lists
<1>3. \A h \in Gens : h # g => ~Serving(r, h) /\ ~r.portal[h].session /\ ~Bound(r, h)
  BY <1>1 DEF RegInv, Sole, HasSession, Served, Serving
<1>4. Bound(r, g) => r.portal[g].session
  BY DEF RegInv, Served
<1>5. QED
  BY <1>1, <1>2, <1>3, <1>4 DEF Only

\* The serving backend goes on to a later step of its registration.
LEMMA AdvanceIsSound ==
  ASSUME NEW r, RegInv(r), NEW g \in Gens, Serving(r, g),
         NEW b \in Backends, b.state \in {"binding", "listing", "ready"}, b.session,
         NEW p \in SUBSET (Gens \X Kinds), r.pending \subseteq p,
         \A x \in p : x \in r.pending \/ x = <<g, "BindShortcuts">> \/ x = <<g, "ListShortcuts">>,
         <<g, "BindShortcuts">> \in p => Binds(r, g) \/ ~Creates(r, g),
         NEW q, q = WithBackend(r, g, b, p)
  PROVE  RegInv(q) /\ Follows(r, q) /\ Serving(q, g) /\ q.gens = r.gens
<1>1. r \in Registrations /\ r.gens \in Nat
  BY Fields DEF RegInv, Fits
<1>2. /\ q \in Registrations /\ q.gens = r.gens /\ q.held = r.held /\ q.x11 = r.x11
      /\ q.told = r.told /\ q.open = r.open /\ q.pending = p
      /\ q.portal[g] = b /\ \A h \in Gens : h # g => q.portal[h] = r.portal[h]
  BY <1>1, Replaced
<1>3. Only(r, g) /\ g <= r.gens /\ r.held = g
  BY ServingIsOnly
<1>4. \A h \in Gens : /\ Creates(q, h) <=> Creates(r, h)
                      /\ h # g => (Binds(q, h) <=> Binds(r, h)) /\ (Bound(q, h) <=> Bound(r, h))
  BY <1>2 DEF Creates, Binds, Bound
<1>5. Fits(q)
  <2>1. ASSUME NEW h \in Gens, h > q.gens PROVE Fresh(q, h)
    <3>1. h # g /\ Fresh(r, h)
      BY <1>1, <1>2, <1>3, <2>1, Constants DEF RegInv, Fits
    <3>2. \A kind \in Kinds : <<h, kind>> \notin q.pending
      BY <1>2, <3>1 DEF Fresh
    <3>3. QED
      BY <1>2, <3>1, <3>2 DEF Fresh
  <2>2. QED
    BY <1>2, <2>1 DEF RegInv, Fits
<1>6. Created(q)
  <2>1. Creates(q, g) => granted[g] = {} /\ ~Binds(q, g)
    BY <1>2, <1>4 DEF RegInv, Created, Binds
  <2>2. q.portal[g].state # "creating"
    BY <1>2
  <2>3. QED
    BY <1>2, <1>4, <2>1, <2>2 DEF RegInv, Created
<1>7. Sole(q) /\ HasSession(q) /\ Served(q)
  BY <1>2, <1>3, <1>4 DEF RegInv, Sole, HasSession, Served, Only, Serving
<1>8. Serving(q, g)
  BY <1>2 DEF Serving
<1>9. Deaf(q)
  BY <1>8 DEF Deaf, Idles
<1>10. Follows(r, q)
  BY <1>1, <1>2, <1>4 DEF Follows
<1>11. QED
  BY <1>2, <1>5, <1>6, <1>7, <1>8, <1>9, <1>10 DEF RegInv

\* Registrations that follow each other one after the other.
LEMMA FollowsOn ==
  ASSUME NEW r, NEW s, NEW q, r.gens \in Nat, s.gens \in Nat, q.gens \in Nat, Follows(r, s), Follows(s, q)
  PROVE  Follows(r, q)
  BY Constants DEF Follows

\* The next request of the serving backend is on its way, or it fails at once.
LEMMA RequestIsSound ==
  ASSUME NEW r, RegInv(r), r.gens < MaxGen, NEW g \in Gens, Serving(r, g), NEW m \in Modes,
         NEW b \in Backends, b.state \in {"binding", "listing"}, b.session,
         NEW kind \in Kinds, kind \in {"BindShortcuts", "ListShortcuts"},
         kind = "BindShortcuts" => ~Creates(r, g),
         NEW q \in Request(WithBackend(r, g, b, r.pending), g, kind, m)
  PROVE  RegInv(q) /\ Follows(r, q)
<1> DEFINE s == WithBackend(r, g, b, r.pending)
<1>1. r \in Registrations /\ r.gens \in Nat /\ r.pending \in SUBSET (Gens \X Kinds)
  BY Fields DEF RegInv, Fits
<1>2. RegInv(s) /\ Follows(r, s) /\ Serving(s, g) /\ s.gens = r.gens
  <2>1. <<g, "BindShortcuts">> \in r.pending => Binds(r, g) \/ ~Creates(r, g)
    BY DEF Binds
  <2>2. QED
    BY <1>1, <2>1, AdvanceIsSound
<1>3. CASE q \in Fail(s, g, m)
  <2>1. Only(s, g) /\ Lists(s) /\ g <= s.gens /\ Created(s)
    BY <1>2, ServingIsOnly DEF RegInv
  <2>2. RegInv(q) /\ Follows(s, q)
    BY <1>2, <1>3, <2>1, FailureIsSound
  <2>3. q.gens \in Nat
    BY <2>2, Fields DEF RegInv, Fits
  <2>4. QED
    BY <1>1, <1>2, <2>2, <2>3, FollowsOn
<1>4. CASE q = [s EXCEPT !.pending = @ \cup {<<g, kind>>}]
  <2> DEFINE p == r.pending \cup {<<g, kind>>}
  <2>1. p \in SUBSET (Gens \X Kinds)
    BY <1>1
  <2>2. q = WithBackend(r, g, b, p)
    BY <1>1, <1>4 DEF WithBackend, Registrations
  <2>3. <<g, "BindShortcuts">> \in p => Binds(r, g) \/ ~Creates(r, g)
    BY DEF Binds
  <2>4. QED
    BY <2>1, <2>2, <2>3, AdvanceIsSound
<1>5. QED
  BY <1>3, <1>4 DEF Request

\* An answer or a signal of the portal leaves a sound registration.
LEMMA AnswerIsSound ==
  ASSUME RegInv(Now), NEW m \in Messages, gens < MaxGen, mode \in Modes,
         m.kind \in {"CreateSession", "Closed", "NoOwner"} => ~Creates(Now, m.of),
         m.kind \in {"Closed", "NoOwner"} => m.of \notin open,
         NEW q \in Answered(m)
  PROVE  RegInv(q) /\ Follows(Now, q)
<1> DEFINE g == m.of
<1>1. /\ g \in Gens /\ Now \in Registrations /\ gens \in Nat /\ portal \in [Gens -> Backends]
      /\ pending \in SUBSET (Gens \X Kinds) /\ portal[g] \in Backends
  BY Fields, NowIs DEF Messages, RegInv, Fits
<1>2. ASSUME portal[g].state # "idle" PROVE Only(Now, g) /\ Lists(Now) /\ g <= gens /\ Created(Now) /\ Serving(Now, g)
  BY <1>1, <1>2, NowIs, ServingIsOnly DEF Serving, RegInv
<1>3. ASSUME portal[g].state # "idle", q \in Fail(Now, g, mode) PROVE RegInv(q) /\ Follows(Now, q)
  BY <1>1, <1>2, <1>3, NowIs, FailureIsSound
<1>4. CASE m.kind = "CreateSession" /\ portal[g].state = "creating"
  <2> DEFINE b == [portal[g] EXCEPT !.state = "binding", !.session = TRUE]
             s == [Now EXCEPT !.portal[g].state = "binding", !.portal[g].session = TRUE]
  <2>1. b \in Backends /\ b.state = "binding" /\ b.session = TRUE
    BY <1>1 DEF Backends, PortalStates
  <2>2. s = WithBackend(Now, g, b, Now.pending)
    BY <1>1, NowIs, ZenonT(60) DEF WithBackend, Now, Backends
  <2>3. CASE m.ok
    <3>1. q \in Request(s, g, "BindShortcuts", mode)
      BY <1>4, <2>3 DEF Answered
    <3>2. q \in Request(WithBackend(Now, g, b, Now.pending), g, "BindShortcuts", mode)
      BY <2>2, <3>1
    <3>3. "BindShortcuts" \in Kinds /\ ~Creates(Now, g) /\ Serving(Now, g) /\ Now.gens < MaxGen
      BY <1>2, <1>4, NowIs DEF Kinds
    <3>4. b.state \in {"binding", "listing"} /\ b.session
      BY <2>1
    <3>5. QED
      BY <1>1, <2>1, <3>2, <3>3, <3>4, RequestIsSound
  <2>4. CASE ~m.ok
    BY <1>3, <1>4, <2>4 DEF Answered
  <2>5. QED
    BY <2>3, <2>4
<1>5. CASE m.kind = "BindShortcuts" /\ portal[g].state = "binding"
  <2> DEFINE b == [portal[g] EXCEPT !.state = "listing"]
             s == [Now EXCEPT !.portal[g].state = "listing"]
  <2>1. portal[g].session = TRUE
    BY <1>1, <1>5, NowIs DEF RegInv, HasSession, Backends
  <2>2. b \in Backends /\ b.state = "listing" /\ b.session = TRUE
    BY <1>1, <2>1 DEF Backends, PortalStates
  <2>3. s = WithBackend(Now, g, b, Now.pending)
    BY <1>1, NowIs, ZenonT(60) DEF WithBackend, Now, Backends
  <2>4. CASE m.ok
    <3>1. q \in Request(s, g, "ListShortcuts", mode)
      BY <1>5, <2>4 DEF Answered
    <3>2. q \in Request(WithBackend(Now, g, b, Now.pending), g, "ListShortcuts", mode)
      BY <2>3, <3>1
    <3>3. "ListShortcuts" \in Kinds /\ Serving(Now, g) /\ Now.gens < MaxGen
      BY <1>2, <1>5, NowIs DEF Kinds
    <3>4. b.state \in {"binding", "listing"} /\ b.session
      BY <2>2
    <3>5. QED
      BY <1>1, <2>2, <3>2, <3>3, <3>4, RequestIsSound
  <2>5. CASE ~m.ok
    BY <1>3, <1>5, <2>5 DEF Answered
  <2>6. QED
    BY <2>4, <2>5
<1>6. CASE m.kind = "ListShortcuts" /\ portal[g].state = "listing"
  <2> DEFINE b == [portal[g] EXCEPT !.state = "ready", !.bindings = Parsed(g, m.keys)]
             s == [Now EXCEPT !.portal[g].state = "ready", !.portal[g].bindings = Parsed(g, m.keys)]
  <2>1. portal[g].session = TRUE
    BY <1>1, <1>6, NowIs DEF RegInv, HasSession, Backends
  <2>2. Parsed(g, m.keys) \in SUBSET Keys
    BY <1>1 DEF Parsed, Backends
  <2>3. b \in Backends /\ b.state = "ready" /\ b.session = TRUE
    BY <1>1, <2>1, <2>2 DEF Backends, PortalStates
  <2>4. s = WithBackend(Now, g, b, Now.pending)
    BY <1>1, NowIs, ZenonT(60) DEF WithBackend, Now, Backends
  <2>5. CASE m.ok /\ Parsed(g, m.keys) # {}
    <3>1. q = s
      BY <1>6, <2>5 DEF Answered
    <3>2. q = WithBackend(Now, g, b, Now.pending)
      BY <2>4, <3>1
    <3>3. Serving(Now, g) /\ Now.pending \in SUBSET (Gens \X Kinds)
      BY <1>1, <1>2, <1>6, NowIs
    <3>4. <<g, "BindShortcuts">> \in Now.pending => Binds(Now, g) \/ ~Creates(Now, g)
      BY DEF Binds
    <3>5. b.state \in {"binding", "listing", "ready"} /\ b.session
      BY <2>3
    <3>6. QED
      BY <1>1, <2>3, <3>2, <3>3, <3>4, <3>5, AdvanceIsSound
  <2>6. CASE ~(m.ok /\ Parsed(g, m.keys) # {})
    BY <1>3, <1>6, <2>6 DEF Answered
  <2>7. QED
    BY <2>5, <2>6
<1>7. CASE m.kind \in {"Closed", "NoOwner"} /\ portal[g].state # "idle"
  <2> DEFINE b == [portal[g] EXCEPT !.session = FALSE]
             s == [Now EXCEPT !.portal[g].session = FALSE]
  <2>1. b \in Backends /\ b.session = FALSE /\ b.state = portal[g].state
    BY <1>1 DEF Backends
  <2>2. s = WithBackend(Now, g, b, Now.pending)
    BY <1>1, NowIs, ZenonT(60) DEF WithBackend, Now, Backends
  <2> HIDE DEF b, s
  <2>3. /\ s \in Registrations /\ s.gens = gens /\ s.x11 = x11 /\ s.open = open /\ s.pending = pending
        /\ s.portal[g] = b /\ \A h \in Gens : h # g => s.portal[h] = portal[h]
    BY <1>1, <2>1, <2>2, NowIs, Replaced
  <2>4. Only(Now, g) /\ Lists(Now) /\ g <= gens /\ Created(Now)
    BY <1>2, <1>7
  <2>5. \A h \in Gens : /\ (Creates(s, h) <=> Creates(Now, h)) /\ (Binds(s, h) <=> Binds(Now, h))
                        /\ (Bound(s, h) <=> Bound(Now, h))
    BY <2>3, NowIs DEF Creates, Binds, Bound
  <2>6. ~Bound(s, g)
    BY <1>7, <2>3 DEF Bound
  <2>7. Only(s, g)
    BY <2>3, <2>4, <2>5, <2>6, NowIs DEF Only, Serving
  <2>8. Lists(s)
    BY <1>1, <2>3, <2>4, NowIs, Constants DEF Lists, Fresh
  <2>9. Created(s)
    BY <2>1, <2>3, <2>4, <2>5, NowIs DEF Created
  <2>10. q \in Fail(s, g, mode)
    BY <1>7 DEF Answered, s
  <2>11. RegInv(q) /\ Follows(s, q)
    BY <1>1, <2>3, <2>4, <2>7, <2>8, <2>9, <2>10, FailureIsSound
  <2>12. QED
    BY <2>3, <2>5, <2>11, NowIs DEF Follows
<1>8. CASE /\ ~(m.kind = "CreateSession" /\ portal[g].state = "creating")
           /\ ~(m.kind = "BindShortcuts" /\ portal[g].state = "binding")
           /\ ~(m.kind = "ListShortcuts" /\ portal[g].state = "listing")
           /\ ~(m.kind \in {"Closed", "NoOwner"} /\ portal[g].state # "idle")
  <2>1. q = Now
    BY <1>8 DEF Answered
  <2>2. QED
    BY <1>1, <2>1, NowIs DEF Follows
<1>9. QED
  BY <1>4, <1>5, <1>6, <1>7, <1>8

-----------------------------------------------------------------------------
(***************************************************************************)
(* The steps                                                               *)
(***************************************************************************)

\* A registration becomes what an operation made of it.
LEMMA Became ==
  ASSUME NEW q \in Registrations, Become(q)
  PROVE  Now' = q
<1>1. q = [gens |-> q.gens, modeOf |-> q.modeOf, held |-> q.held, x11 |-> q.x11,
           portal |-> q.portal, told |-> q.told, pending |-> q.pending, open |-> q.open]
  BY DEF Registrations
<1>2. QED
  BY <1>1 DEF Become, Now

\* The invariant reads nothing of the world but what was granted.
LEMMA SoundNow ==
  ASSUME NEW q, RegInv(q), Now' = q, granted' = granted
  PROVE  RegInv(Now)'
<1>1. Fits(Now)' <=> Fits(q)
  BY DEF Fits, Fresh
<1>2. Created(Now)' <=> Created(q)
  BY DEF Created, Creates, Binds
<1>3. (Sole(Now)' <=> Sole(q)) /\ (HasSession(Now)' <=> HasSession(q))
  BY DEF Sole, HasSession, Serving
<1>4. Served(Now)' <=> Served(q)
  BY DEF Served, Bound, Binds
<1>5. Deaf(Now)' <=> Deaf(q)
  BY DEF Deaf, Idles, Serving
<1>6. QED
  BY <1>1, <1>2, <1>3, <1>4, <1>5 DEF RegInv

\* What is on the bus names a list.
LEMMA MessagesAre ==
  ASSUME WorldTypes
  PROVE  \A i \in DOMAIN bus : bus[i] \in Messages /\ bus[i].of \in Gens
<1>1. \A i \in DOMAIN bus : bus[i] \in Messages
  BY DEF WorldTypes
<1>2. QED
  BY <1>1 DEF Messages

\* A step of the registration, which may take the first message of the bus.
LEMMA RegistrationStep ==
  ASSUME IInv, NEW q, RegInv(q), Follows(Now, q), Become(q), granted' = granted,
         bus' = bus \/ (bus # <<>> /\ bus' = Tail(bus)),
         presses' = presses, down' = down, mode' \in Modes
  PROVE  IInv'
<1>1. Now' = q
  BY Became DEF RegInv, Fits
<1>2. RegInv(Now)'
  BY <1>1, SoundNow
<1>3. bus' \in Seq(Messages)
  BY DEF IInv, WorldTypes
<1>4. WorldTypes'
  BY <1>3 DEF IInv, WorldTypes
<1>5. /\ gens \in Nat /\ gens' \in Nat /\ gens <= gens' /\ open' \subseteq open
      /\ \A g \in Gens : <<g, "CreateSession">> \in pending' => <<g, "CreateSession">> \in pending \/ g > gens
  <2>1. q.gens = gens' /\ q.open = open' /\ q.pending = pending'
    BY DEF Become
  <2>2. gens \in Nat /\ q.gens \in Nat
    BY Fields, NowIs DEF IInv, RegInv, Fits
  <2>3. QED
    BY <2>1, <2>2, NowIs DEF Follows, Creates
<1>6. ASSUME NEW i \in DOMAIN bus, NEW m, m = bus[i]
      PROVE  /\ m.of <= gens'
             /\ m.kind \in {"CreateSession", "Closed", "NoOwner"} => <<m.of, "CreateSession">> \notin pending'
             /\ m.kind \in {"Closed", "NoOwner"} => m.of \notin open'
  <2>1. m.of \in Gens /\ m.of \in Nat
    BY <1>6, MessagesAre, Constants DEF IInv
  <2>2. QED
    BY <1>5, <1>6, <2>1 DEF IInv, BusFits
<1>7. \A i \in DOMAIN bus' : \E j \in DOMAIN bus : bus'[i] = bus[j]
  <2>1. bus \in Seq(Messages)
    BY DEF IInv, WorldTypes
  <2>2. CASE bus' = bus
    BY <2>2
  <2>3. CASE bus # <<>> /\ bus' = Tail(bus)
    BY <2>1, <2>3
  <2>4. QED
    BY <2>2, <2>3
<1>8. BusFits'
  BY <1>6, <1>7 DEF BusFits
<1>9. QED
  BY <1>2, <1>4, <1>8 DEF IInv

\* A step that leaves the registration alone.
LEMMA OtherStep ==
  ASSUME IInv, UNCHANGED <<registration, pending, open, granted, mode, presses, down>>,
         bus' = bus \/ (bus # <<>> /\ bus' = Tail(bus))
  PROVE  IInv'
<1>1. Become(Now)
  BY NowIs DEF Become, registration
<1>2. Follows(Now, Now)
  <2>1. gens \in Nat
    BY Fields, NowIs DEF IInv, RegInv, Fits
  <2>2. QED
    BY <2>1, NowIs DEF Follows
<1>3. mode' \in Modes
  BY DEF IInv, WorldTypes
<1>4. QED
  BY <1>1, <1>2, <1>3, RegistrationStep DEF IInv

\* The invariant of the registration, action by action.
LEMMA AnswerKeeps == IInv /\ HandleAnswer => IInv'
<1> SUFFICES ASSUME IInv, HandleAnswer PROVE IInv'
  OBVIOUS
<1>1. bus # <<>> /\ bus \in Seq(Messages) /\ gens < MaxGen /\ mode \in Modes
  BY DEF HandleAnswer, IInv, WorldTypes
<1>2. 1 \in DOMAIN bus /\ Head(bus) = bus[1] /\ Head(bus) \in Messages
  BY <1>1
<1>3. PICK q \in Answered(Head(bus)) : Become(q)
  BY DEF HandleAnswer
<1>4. /\ Head(bus).kind \in {"CreateSession", "Closed", "NoOwner"} => ~Creates(Now, Head(bus).of)
      /\ Head(bus).kind \in {"Closed", "NoOwner"} => Head(bus).of \notin open
  BY <1>2, NowIs DEF IInv, BusFits, Creates
<1>5. RegInv(q) /\ Follows(Now, q)
  BY <1>1, <1>2, <1>4, AnswerIsSound DEF IInv
<1>6. bus' = Tail(bus) /\ UNCHANGED <<granted, mode, presses, down>>
  BY DEF HandleAnswer, keyboard
<1>7. QED
  BY <1>1, <1>3, <1>5, <1>6, RegistrationStep

LEMMA RestartKeeps == IInv /\ Restart => IInv'
<1> SUFFICES ASSUME IInv, Restart PROVE IInv'
  OBVIOUS
<1> DEFINE stopped == [Now EXCEPT !.x11 = None]
           cleared == [(IF held = None THEN stopped ELSE Unregister(stopped, held)) EXCEPT !.held = None]
<1>1. /\ Now \in Registrations /\ gens \in Nat /\ held \in Nat /\ held <= gens /\ gens <= MaxGen
      /\ gens + 2 <= MaxGen
  BY Fields, NowIs DEF IInv, RegInv, Fits, Restart
<1>2. /\ stopped \in Registrations /\ stopped.gens = gens /\ stopped.held = held /\ stopped.x11 = None
      /\ stopped.portal = portal /\ stopped.told = told /\ stopped.pending = pending
      /\ stopped.open = open
  BY <1>1, NowIs, Constants DEF Registrations
<1>3. held # None => held \in Gens
  BY <1>1, Constants DEF Gens, None
<1> HIDE DEF stopped
<1>4. /\ cleared \in Registrations /\ cleared.gens = gens /\ cleared.held = None /\ cleared.x11 = None
      /\ cleared.pending = pending
      /\ held = None => cleared.portal = portal /\ cleared.open = open
      /\ held # None => /\ cleared.portal = [portal EXCEPT ![held] = Idle]
                        /\ cleared.open = IF portal[held].session THEN open \ {held} ELSE open
  <2>1. CASE held = None
    BY <1>2, <2>1 DEF Registrations
  <2>2. CASE held # None
    <3> DEFINE u == Unregister(stopped, held)
    <3>1. /\ u \in Registrations /\ u.gens = gens /\ u.x11 = None /\ u.pending = pending
          /\ u.portal = [portal EXCEPT ![held] = Idle]
          /\ u.open = IF portal[held].session THEN open \ {held} ELSE open
      BY <1>2, <1>3, <2>2, Unregistered
    <3>2. cleared = [u EXCEPT !.held = None]
      BY <2>2
    <3> HIDE DEF u
    <3>3. QED
      BY <2>2, <3>1, <3>2, Constants DEF Registrations
  <2>3. QED
    BY <2>1, <2>2
<1> HIDE DEF cleared
<1>5. portal \in [Gens -> Backends]
  BY <1>1, Fields, NowIs
<1>6. \A g \in Gens : ~Serving(cleared, g) /\ ~cleared.portal[g].session
  <2>1. \A g \in Gens : g # held => portal[g].state = "idle" /\ ~portal[g].session
    BY NowIs DEF IInv, RegInv, Sole, HasSession, Serving
  <2>2. \A g \in Gens : cleared.portal[g] = IF g = held THEN Idle ELSE portal[g]
    BY <1>3, <1>4, <1>5, Constants
  <2>3. QED
    BY <2>1, <2>2, Constants DEF Serving
<1>7. cleared.open \subseteq open
  BY <1>4
<1>8. \A g \in Gens : (Creates(cleared, g) <=> Creates(Now, g)) /\ (Binds(cleared, g) <=> Binds(Now, g))
  BY <1>4, NowIs DEF Creates, Binds
<1>9. \A g \in Gens : ~Bound(cleared, g)
  <2> SUFFICES ASSUME NEW g \in Gens, Bound(cleared, g) PROVE FALSE
    OBVIOUS
  <2>1. Bound(Now, g)
    BY <1>7, <1>8, NowIs DEF Bound
  <2>2. held = g /\ portal[g].session
    BY <2>1, NowIs DEF IInv, RegInv, Served
  <2>3. g \notin cleared.open
    BY <1>4, <2>2, Constants
  <2>4. QED
    BY <2>3 DEF Bound
<1>10. Fits(cleared)
  <2>1. ASSUME NEW g \in Gens, g > gens PROVE Fresh(cleared, g)
    <3>1. Fresh(Now, g) /\ g # held
      BY <1>1, <2>1, NowIs, Constants DEF IInv, RegInv, Fits
    <3>2. cleared.portal[g] = portal[g]
      BY <1>4, <1>5, <3>1
    <3>3. QED
      BY <1>4, <1>7, <3>1, <3>2, NowIs DEF Fresh
  <2>2. QED
    BY <1>1, <1>4, <2>1, Constants DEF Fits, None
<1>11. Created(cleared) /\ HasSession(cleared) /\ Idles(cleared)
  <2>1. Idles(cleared) /\ HasSession(cleared)
    BY <1>4, <1>6 DEF Idles, HasSession, Serving
  <2>2. Created(cleared)
    BY <1>6, <1>7, <1>8, NowIs DEF IInv, RegInv, Created, Serving
  <2>3. QED
    BY <2>1, <2>2
<1>12. PICK q \in StartShortcut(cleared, mode') : Become(q)
  BY DEF Restart, cleared, stopped
<1>13. mode' \in Modes
  BY DEF Restart, IInv, WorldTypes
<1>14. RegInv(q) /\ Follows(cleared, q)
  BY <1>1, <1>4, <1>9, <1>10, <1>11, <1>13, StartIsSound
<1>15. Follows(Now, q)
  BY <1>4, <1>7, <1>8, <1>14, NowIs DEF Follows
<1>16. UNCHANGED <<granted, bus, presses, down>>
  BY DEF Restart, keyboard
<1>17. QED
  BY <1>12, <1>13, <1>14, <1>15, <1>16, RegistrationStep

\* A step of the portal or the keyboard: shortcuts are granted only in a session
\* that is asked to bind, and a session opens only when it was asked for.
LEMMA WorldStep ==
  ASSUME IInv, UNCHANGED <<registration, mode>>, presses' \in Nat, down' \in [Keys -> Nat],
         pending' \subseteq pending, granted' \in [Gens -> SUBSET Keys],
         \A g \in Gens : granted'[g] = granted[g] \/ (Binds(Now, g) /\ g \in open),
         open' \subseteq Gens,
         \A g \in Gens : g \in open' =>
           g \in open \/ (Creates(Now, g) /\ <<g, "CreateSession">> \notin pending'),
         NEW t \in Seq(Messages), bus' = bus \o t,
         \A i \in DOMAIN t :
           /\ t[i].of <= gens
           /\ t[i].kind \in {"CreateSession", "Closed", "NoOwner"} =>
                <<t[i].of, "CreateSession">> \notin pending'
           /\ t[i].kind \in {"Closed", "NoOwner"} => t[i].of \notin open'
  PROVE  IInv'
<1>1. /\ UNCHANGED <<gens, modeOf, held, x11, portal, told>>
      /\ gens \in Nat /\ pending \in SUBSET (Gens \X Kinds) /\ Now \in Registrations
  BY Fields, NowIs DEF registration, IInv, RegInv, Fits
<1>2. Fits(Now) /\ Created(Now) /\ Sole(Now) /\ HasSession(Now) /\ Served(Now) /\ Deaf(Now)
  BY DEF IInv, RegInv
<1>3. /\ Now'.gens = gens /\ Now'.held = held /\ Now'.x11 = x11 /\ Now'.portal = portal
      /\ Now'.told = told /\ Now'.pending = pending' /\ Now'.open = open' /\ Now'.modeOf = modeOf
  BY <1>1 DEF Now
<1>4. Now' \in Registrations
  <2>1. pending' \in SUBSET (Gens \X Kinds) /\ open' \in SUBSET Gens
    BY <1>1
  <2>2. /\ gens \in Nat /\ modeOf \in [Gens -> Modes] /\ held \in Nat /\ x11 \in Nat
        /\ portal \in [Gens -> Backends] /\ told \in BOOLEAN
    BY <1>1, Fields, NowIs
  <2>3. Now' = [gens |-> gens, modeOf |-> modeOf, held |-> held, x11 |-> x11, portal |-> portal,
                told |-> told, pending |-> pending', open |-> open']
    BY <1>1 DEF Now
  <2>4. QED
    BY <2>1, <2>2, <2>3 DEF Registrations
<1>5. Fits(Now)'
  <2>1. ASSUME NEW g \in Gens, g > gens PROVE Fresh(Now, g)'
    <3>1. Fresh(Now, g)
      BY <1>2, <2>1, NowIs DEF Fits
    <3>2. granted'[g] = {} /\ g \notin open'
      BY <3>1, NowIs DEF Fresh, Creates, Binds, Kinds
    <3>3. portal[g] = Idle /\ \A kind \in Kinds : <<g, kind>> \notin pending'
      BY <3>1, NowIs DEF Fresh
    <3>4. QED
      BY <1>3, <3>2, <3>3 DEF Fresh
  <2>2. gens <= MaxGen /\ held <= gens /\ x11 <= gens
    BY <1>2, NowIs DEF Fits
  <2>3. QED
    BY <1>3, <1>4, <2>1, <2>2 DEF Fits
<1>6. \A g \in Gens : /\ (Creates(Now, g)' <=> <<g, "CreateSession">> \in pending')
                      /\ (Binds(Now, g)' <=> <<g, "BindShortcuts">> \in pending')
                      /\ (Serving(Now, g)' <=> Serving(Now, g))
                      /\ (Bound(Now, g)' <=> g \in open' /\ (granted'[g] # {} \/ <<g, "BindShortcuts">> \in pending'))
  BY <1>3, NowIs DEF Creates, Binds, Serving, Bound
<1>7. \A g \in Gens : /\ <<g, "CreateSession">> \in pending' => Creates(Now, g)
                      /\ <<g, "BindShortcuts">> \in pending' => Binds(Now, g)
  BY NowIs DEF Creates, Binds
<1>8. Created(Now)'
  <2>1. ASSUME NEW g \in Gens, <<g, "CreateSession">> \in pending' \/ portal[g].state = "creating"
        PROVE  granted'[g] = {} /\ <<g, "BindShortcuts">> \notin pending'
    <3>1. granted[g] = {} /\ ~Binds(Now, g)
      BY <1>2, <1>7, <2>1, NowIs DEF Created
    <3>2. QED
      BY <1>7, <3>1
  <2>2. ASSUME NEW g \in Gens, g \in open' PROVE <<g, "CreateSession">> \notin pending'
    <3>1. g \in open => ~Creates(Now, g)
      BY <1>2, NowIs DEF Created
    <3>2. QED
      BY <1>7, <2>2, <3>1
  <2>3. QED
    BY <1>3, <1>6, <2>1, <2>2 DEF Created
<1>9. Sole(Now)' /\ HasSession(Now)' /\ Deaf(Now)'
  <2>1. Sole(Now)'
    BY <1>2, <1>3, <1>6, NowIs DEF Sole
  <2>2. HasSession(Now)'
    BY <1>2, <1>3, NowIs DEF HasSession
  <2>3. Deaf(Now)'
    BY <1>2, <1>3, NowIs DEF Deaf, Idles, Serving
  <2>4. QED
    BY <2>1, <2>2, <2>3
<1>10. Served(Now)'
  <2>1. ASSUME NEW g \in Gens, g \in open', granted'[g] # {} \/ <<g, "BindShortcuts">> \in pending'
        PROVE  held = g /\ portal[g].session
    <3>1. CASE g \in open
      <4>1. granted[g] # {} \/ Binds(Now, g)
        BY <1>7, <2>1
      <4>2. Bound(Now, g)
        BY <3>1, <4>1, NowIs DEF Bound
      <4>3. QED
        BY <1>2, <4>2, NowIs DEF Served
    <3>2. CASE g \notin open
      <4>1. Creates(Now, g)
        BY <2>1, <3>2
      <4>2. granted[g] = {} /\ ~Binds(Now, g)
        BY <1>2, <4>1 DEF Created
      <4>3. QED
        BY <1>7, <2>1, <4>2
    <3>3. QED
      BY <3>1, <3>2
  <2>2. QED
    BY <1>3, <1>6, <2>1 DEF Served
<1>11. RegInv(Now)'
  BY <1>5, <1>8, <1>9, <1>10 DEF RegInv
<1>12. bus \in Seq(Messages) /\ mode \in Modes
  BY DEF IInv, WorldTypes
<1>13. WorldTypes'
  <2>1. bus' \in Seq(Messages)
    BY <1>12
  <2>2. QED
    BY <1>12, <2>1 DEF WorldTypes
<1>14. ASSUME NEW i \in DOMAIN bus
       PROVE  /\ bus[i].of <= gens
              /\ bus[i].kind \in {"CreateSession", "Closed", "NoOwner"} =>
                   <<bus[i].of, "CreateSession">> \notin pending'
              /\ bus[i].kind \in {"Closed", "NoOwner"} => bus[i].of \notin open'
  <2>1. bus[i].of \in Gens
    BY MessagesAre DEF IInv
  <2>2. QED
    BY <2>1, NowIs DEF IInv, BusFits, Creates
<1>15. \A i \in DOMAIN bus' : \/ i \in DOMAIN bus /\ bus'[i] = bus[i]
                              \/ \E j \in DOMAIN t : bus'[i] = t[j]
  <2>1. DOMAIN bus' = 1..(Len(bus) + Len(t)) /\ DOMAIN bus = 1..Len(bus) /\ DOMAIN t = 1..Len(t)
        /\ Len(bus) \in Nat /\ Len(t) \in Nat
    BY <1>12
  <2>2. ASSUME NEW i \in DOMAIN bus'
        PROVE  \/ i \in DOMAIN bus /\ bus'[i] = bus[i]
               \/ \E j \in DOMAIN t : bus'[i] = t[j]
    <3>1. CASE i <= Len(bus)
      BY <1>12, <2>1, <3>1
    <3>2. CASE i > Len(bus)
      <4>1. bus'[i] = t[i - Len(bus)] /\ i - Len(bus) \in DOMAIN t
        BY <1>12, <2>1, <2>2, <3>2
      <4>2. QED
        BY <4>1
    <3>3. QED
      BY <2>1, <3>1, <3>2
  <2>3. QED
    BY <2>2
<1>16. BusFits'
  <2> SUFFICES ASSUME NEW i \in DOMAIN bus'
               PROVE  /\ bus'[i].of <= gens
                      /\ bus'[i].kind \in {"CreateSession", "Closed", "NoOwner"} =>
                           <<bus'[i].of, "CreateSession">> \notin pending'
                      /\ bus'[i].kind \in {"Closed", "NoOwner"} => bus'[i].of \notin open'
    BY <1>1 DEF BusFits
  <2>1. QED
    BY <1>14, <1>15
<1>17. QED
  BY <1>11, <1>13, <1>16 DEF IInv

LEMMA AnswersKeep == IInv /\ PortalAnswers => IInv'
<1> SUFFICES ASSUME IInv, PortalAnswers PROVE IInv'
  OBVIOUS
<1>1. /\ pending \subseteq Gens \X Kinds /\ open \subseteq Gens /\ gens \in Nat
      /\ granted \in [Gens -> SUBSET Keys] /\ bus \in Seq(Messages)
      /\ presses \in Nat /\ down \in [Keys -> Nat]
  BY Fields, NowIs DEF IInv, RegInv, Fits, WorldTypes
<1>2. /\ UNCHANGED <<registration, mode, presses, down, gens>>
  BY DEF PortalAnswers, keyboard, registration
<1>3. PICK request \in pending :
        LET g == request[1]
            kind == request[2]
        IN /\ pending' = pending \ {request}
           /\ \/ /\ bus' = Append(bus, Answer(g, kind, FALSE, {})) /\ UNCHANGED <<open, granted>>
              \/ /\ kind = "CreateSession" /\ open' = open \cup {g}
                 /\ bus' = Append(bus, Answer(g, kind, TRUE, {})) /\ UNCHANGED granted
              \/ /\ kind = "BindShortcuts" /\ g \in open
                 /\ granted' \in {[granted EXCEPT ![g] = keys] : keys \in SUBSET Keys}
                 /\ bus' = Append(bus, Answer(g, kind, TRUE, {})) /\ UNCHANGED open
              \/ /\ kind = "ListShortcuts" /\ g \in open
                 /\ bus' = Append(bus, Answer(g, kind, TRUE, granted[g]))
                 /\ UNCHANGED <<open, granted>>
  BY DEF PortalAnswers
<1> DEFINE g == request[1]
           kind == request[2]
<1>4. g \in Gens /\ kind \in Kinds /\ request = <<g, kind>>
  BY <1>1
<1>5. pending' = pending \ {<<g, kind>>} /\ <<g, kind>> \in pending
  BY <1>3, <1>4
<1>6. g <= gens
  <2>1. g > gens => Fresh(Now, g)
    BY <1>4, NowIs DEF IInv, RegInv, Fits
  <2>2. g > gens => <<g, kind>> \notin pending
    BY <1>4, <2>1, NowIs DEF Fresh
  <2>3. g \in Nat
    BY <1>4, Constants
  <2>4. QED
    BY <1>1, <1>5, <2>2, <2>3
<1>7. /\ granted' \in [Gens -> SUBSET Keys]
      /\ \A h \in Gens : granted'[h] = granted[h] \/ (Binds(Now, h) /\ h \in open)
  <2>1. CASE granted' = granted
    BY <1>1, <2>1
  <2>2. CASE kind = "BindShortcuts" /\ g \in open /\ granted' \in {[granted EXCEPT ![g] = keys] : keys \in SUBSET Keys}
    <3>1. PICK keys \in SUBSET Keys : granted' = [granted EXCEPT ![g] = keys]
      BY <2>2
    <3>2. Binds(Now, g)
      BY <1>5, <2>2, NowIs DEF Binds
    <3>3. QED
      BY <1>1, <1>4, <2>2, <3>1, <3>2
  <2>3. QED
    BY <1>3, <2>1, <2>2
<1>8. /\ open' \subseteq Gens
      /\ \A h \in Gens : h \in open' =>
           h \in open \/ (Creates(Now, h) /\ <<h, "CreateSession">> \notin pending')
  <2>1. CASE open' = open
    BY <1>1, <2>1
  <2>2. CASE kind = "CreateSession" /\ open' = open \cup {g}
    <3>1. Creates(Now, g) /\ <<g, "CreateSession">> \notin pending'
      BY <1>5, <2>2, NowIs DEF Creates
    <3>2. QED
      BY <1>1, <1>4, <2>2, <3>1
  <2>3. QED
    BY <1>3, <2>1, <2>2
<1>9. \E ok \in BOOLEAN, keys \in SUBSET Keys : bus' = Append(bus, Answer(g, kind, ok, keys))
  <2>1. {} \in SUBSET Keys /\ granted[g] \in SUBSET Keys
    BY <1>1, <1>4
  <2>2. QED
    BY <1>3, <2>1
<1>10. PICK ok \in BOOLEAN, keys \in SUBSET Keys : bus' = Append(bus, Answer(g, kind, ok, keys))
  BY <1>9
<1> DEFINE m == Answer(g, kind, ok, keys)
           t == <<m>>
<1>11. m \in Messages /\ m.of = g /\ m.kind = kind
  BY <1>4 DEF Answer, Messages
<1>12. t \in Seq(Messages) /\ DOMAIN t = {1} /\ t[1] = m
  BY <1>11
<1>13. bus' = bus \o t
  BY <1>1, <1>10, <1>11
<1> HIDE DEF m, t
<1>14. /\ t[1].of <= gens
       /\ t[1].kind \in {"CreateSession", "Closed", "NoOwner"} =>
            <<t[1].of, "CreateSession">> \notin pending'
       /\ t[1].kind \notin {"Closed", "NoOwner"}
  BY <1>4, <1>5, <1>6, <1>11, <1>12 DEF Kinds
<1>15. presses' \in Nat /\ down' \in [Keys -> Nat] /\ pending' \subseteq pending
  BY <1>1, <1>2, <1>5
<1>16. QED
  BY <1>2, <1>7, <1>8, <1>12, <1>13, <1>14, <1>15, WorldStep

LEMMA ClosesKeep == IInv /\ PortalCloses => IInv'
<1> SUFFICES ASSUME IInv, PortalCloses PROVE IInv'
  OBVIOUS
<1>1. /\ open \subseteq Gens /\ gens \in Nat /\ granted \in [Gens -> SUBSET Keys]
      /\ bus \in Seq(Messages) /\ presses \in Nat /\ down \in [Keys -> Nat]
  BY Fields, NowIs DEF IInv, RegInv, Fits, WorldTypes
<1>2. UNCHANGED <<registration, mode, presses, down, gens, pending, granted>>
  BY DEF PortalCloses, keyboard, registration
<1>3. PICK g \in open :
        /\ open' = open \ {g}
        /\ bus' = IF WatchesSession(g) THEN Append(bus, [kind |-> "Closed", of |-> g]) ELSE bus
  BY DEF PortalCloses
<1> DEFINE m == [kind |-> "Closed", of |-> g]
           t == IF WatchesSession(g) THEN <<m>> ELSE <<>>
<1>4. g \in Gens /\ m \in Messages /\ m.of = g
  BY <1>1 DEF Messages
<1>5. t \in Seq(Messages) /\ \A i \in DOMAIN t : t[i] = m
  BY <1>4
<1>6. bus' = bus \o t
  BY <1>1, <1>3, <1>4
<1>7. g <= gens /\ <<g, "CreateSession">> \notin pending
  <2>1. (g > gens => Fresh(Now, g)) /\ ~Creates(Now, g)
    BY <1>4, NowIs DEF IInv, RegInv, Fits, Created
  <2>2. QED
    BY <1>1, <1>4, <2>1, NowIs, Constants DEF Fresh, Creates
<1> HIDE DEF m, t
<1>8. \A i \in DOMAIN t :
        /\ t[i].of <= gens
        /\ t[i].kind \in {"CreateSession", "Closed", "NoOwner"} =>
             <<t[i].of, "CreateSession">> \notin pending'
        /\ t[i].kind \in {"Closed", "NoOwner"} => t[i].of \notin open'
  BY <1>2, <1>3, <1>4, <1>5, <1>7
<1>9. /\ presses' \in Nat /\ down' \in [Keys -> Nat] /\ pending' \subseteq pending
      /\ granted' = granted /\ granted' \in [Gens -> SUBSET Keys] /\ open' \subseteq Gens
      /\ \A h \in Gens : h \in open' => h \in open
  BY <1>1, <1>2, <1>3
<1>10. QED
  BY <1>2, <1>5, <1>6, <1>8, <1>9, WorldStep

LEMMA PortalRestartKeeps == IInv /\ PortalRestarts => IInv'
<1> SUFFICES ASSUME IInv, PortalRestarts PROVE IInv'
  OBVIOUS
<1>1. /\ gens \in Nat /\ held \in Nat /\ held <= gens /\ gens <= MaxGen
      /\ granted \in [Gens -> SUBSET Keys]
      /\ bus \in Seq(Messages) /\ presses \in Nat /\ down \in [Keys -> Nat]
  BY Fields, NowIs DEF IInv, RegInv, Fits, WorldTypes
<1>2. UNCHANGED <<registration, mode, presses, down, gens, granted>> /\ open' = {} /\ pending' = {}
  BY DEF PortalRestarts, keyboard, registration
<1> DEFINE m == [kind |-> "NoOwner", of |-> held]
           t == IF WatchesService(held) THEN <<m>> ELSE <<>>
<1>3. WatchesService(held) => held \in Gens
  BY <1>1, Constants DEF WatchesService, Gens, None
<1>4. (WatchesService(held) => m \in Messages) /\ m.of = held
  BY <1>3 DEF Messages
<1>5. t \in Seq(Messages) /\ \A i \in DOMAIN t : t[i] = m
  BY <1>4
<1>6. bus' = bus \o t
  BY <1>1, <1>4 DEF PortalRestarts
<1> HIDE DEF m, t
<1>7. \A i \in DOMAIN t :
        /\ t[i].of <= gens
        /\ t[i].kind \in {"CreateSession", "Closed", "NoOwner"} =>
             <<t[i].of, "CreateSession">> \notin pending'
        /\ t[i].kind \in {"Closed", "NoOwner"} => t[i].of \notin open'
  BY <1>1, <1>2, <1>4, <1>5
<1>8. /\ presses' \in Nat /\ down' \in [Keys -> Nat] /\ pending' \subseteq pending
      /\ granted' = granted /\ granted' \in [Gens -> SUBSET Keys] /\ open' \subseteq Gens
      /\ \A h \in Gens : h \notin open'
  BY <1>1, <1>2
<1>9. QED
  BY <1>2, <1>5, <1>6, <1>7, <1>8, WorldStep

\* At most one signal makes a sequence.
LEMMA SignalsAreSequence ==
  ASSUME NEW S, NEW x, S \subseteq {x}
  PROVE  SetToSeq(S) \in Seq(S)
<1>1. CASE S = {}
  <2>1. Cardinality(S) = 0
    BY <1>1, FS_EmptySet
  <2>2. <<>> \in [1..Cardinality(S) -> S] /\ IsInjective(<<>>)
    BY <1>1, <2>1 DEF IsInjective
  <2>3. SetToSeq(S) \in [1..Cardinality(S) -> S]
    BY <2>2 DEF SetToSeq
  <2>4. QED
    BY <2>1, <2>3
<1>2. CASE S = {x}
  <2>1. Cardinality(S) = 1
    BY <1>2, FS_Singleton
  <2>2. [i \in 1..1 |-> x] \in [1..Cardinality(S) -> S] /\ IsInjective([i \in 1..1 |-> x])
    BY <1>2, <2>1 DEF IsInjective
  <2>3. SetToSeq(S) \in [1..Cardinality(S) -> S]
    BY <2>2 DEF SetToSeq
  <2>4. Seq(S) = UNION {[1..n -> S] : n \in Nat}
    BY SeqDef
  <2>5. QED
    BY <2>1, <2>3, <2>4
<1>3. QED
  BY <1>1, <1>2

\* What a key that goes down or up does to the registration and the bus.
LEMMA KeyKeeps ==
  ASSUME IInv, NEW k \in Keys, NEW n \in Nat, NEW type,
         NEW signal \in {"Activated", "Deactivated"}, KeyMoves(k, n, type, signal),
         presses' \in Nat, down' \in [Keys -> Nat]
  PROVE  IInv'
<1>1. /\ gens \in Nat /\ gens <= MaxGen /\ open \subseteq Gens /\ granted \in [Gens -> SUBSET Keys]
      /\ held \in Nat /\ held <= gens
  BY Fields, NowIs DEF IInv, RegInv, Fits, WorldTypes
<1>2. UNCHANGED <<registration, mode, gens, pending, open, granted>>
  BY DEF KeyMoves, service, registration
<1> DEFINE heard == {g \in open : k \in granted[g] /\ portal[g].state = "ready"}
           S == {Signal(signal, g, k, n) : g \in heard}
           t == SetToSeq(S)
<1>3. bus' = bus \o t
  BY DEF KeyMoves
<1>4. \A g \in heard : g \in Gens /\ g = held
  BY <1>1, NowIs DEF IInv, RegInv, Sole, Serving
<1>5. S \subseteq {Signal(signal, held, k, n)}
  BY <1>4
<1>6. t \in Seq(S)
  BY <1>5, SignalsAreSequence
<1>7. \A m \in S : m \in Messages /\ m.of <= gens /\ m.kind = signal
  <2> SUFFICES ASSUME NEW g \in heard
               PROVE  LET m == Signal(signal, g, k, n)
                      IN  m \in Messages /\ m.of <= gens /\ m.kind = signal
    OBVIOUS
  <2>1. g \in Gens /\ g <= gens
    BY <1>1, <1>4
  <2>2. QED
    BY <2>1 DEF Signal, Messages
<1> HIDE DEF S, t, heard
<1>8. t \in Seq(Messages) /\ \A i \in DOMAIN t : t[i] \in S
  BY <1>6, <1>7
<1>9. \A i \in DOMAIN t :
        /\ t[i].of <= gens
        /\ t[i].kind \in {"CreateSession", "Closed", "NoOwner"} =>
             <<t[i].of, "CreateSession">> \notin pending'
        /\ t[i].kind \in {"Closed", "NoOwner"} => t[i].of \notin open'
  BY <1>7, <1>8
<1>10. QED
  BY <1>1, <1>2, <1>3, <1>8, <1>9, WorldStep

LEMMA KeysKeep ==
  ASSUME IInv, NEW k \in Keys, KeyDown(k) \/ KeyUp(k)
  PROVE  IInv'
<1>1. presses \in Nat /\ down \in [Keys -> Nat] /\ down[k] \in Nat
  BY DEF IInv, WorldTypes
<1>2. CASE KeyDown(k)
  <2>1. presses + 1 \in Nat /\ presses' \in Nat /\ down' \in [Keys -> Nat]
        /\ KeyMoves(k, presses + 1, "press", "Activated")
    BY <1>1, <1>2 DEF KeyDown
  <2>2. QED
    BY <2>1, KeyKeeps
<1>3. CASE KeyUp(k)
  <2>1. presses' \in Nat /\ down' \in [Keys -> Nat]
        /\ KeyMoves(k, down[k], "release", "Deactivated")
    BY <1>1, <1>3, Constants DEF KeyUp
  <2>2. QED
    BY <1>1, <2>1, KeyKeeps
<1>4. QED
  BY <1>2, <1>3

\* The gestures and the threads of the grabs change nothing of the registration.
LEMMA GesturesKeep ==
  ASSUME IInv,
         \/ HandleSignal \/ RunPosted \/ TrayToggles \/ UNCHANGED vars
         \/ \E k \in Keys : ReadKeyEvent(k) \/ FlushRelease(k) \/ AutoRepeat(k)
  PROVE  IInv'
<1>1. /\ UNCHANGED <<registration, pending, open, granted, mode, presses, down>>
      /\ bus' = bus \/ (bus # <<>> /\ bus' = Tail(bus))
  BY DEF HandleSignal, RunPosted, TrayToggles, ReadKeyEvent, FlushRelease, AutoRepeat, vars,
         service, keyboard
<1>2. QED
  BY <1>1, OtherStep

\* The first registration is sound.
LEMMA StartsSound == Init => IInv
<1> SUFFICES ASSUME Init PROVE IInv
  OBVIOUS
<1> DEFINE r == [gens |-> 0, modeOf |-> [g \in Gens |-> mode], held |-> None,
                 x11 |-> None, portal |-> [g \in Gens |-> Idle], told |-> FALSE,
                 pending |-> {}, open |-> {}]
<1>1. /\ mode \in Modes /\ granted = [g \in Gens |-> {}] /\ bus = <<>> /\ presses = 0
      /\ down = [k \in Keys |-> None]
  BY DEF Init
<1>2. r \in Registrations
  BY <1>1, Constants DEF Registrations
<1>3. /\ r.gens = 0 /\ r.held = None /\ r.x11 = None /\ r.portal = [g \in Gens |-> Idle]
      /\ r.pending = {} /\ r.open = {}
  OBVIOUS
<1>4. PICK q \in StartShortcut(r, mode) :
        /\ gens = q.gens /\ modeOf = q.modeOf /\ held = q.held /\ x11 = q.x11
        /\ portal = q.portal /\ told = q.told /\ pending = q.pending /\ open = q.open
  BY DEF Init
<1> HIDE DEF r
<1>5. Fits(r)
  <2>1. \A g \in Gens : Fresh(r, g)
    BY <1>1, <1>3 DEF Fresh
  <2>2. r.gens <= MaxGen /\ r.held <= r.gens /\ r.x11 <= r.gens
    BY <1>3, Constants DEF None
  <2>3. QED
    BY <1>2, <2>1, <2>2 DEF Fits
<1>6. Created(r) /\ HasSession(r) /\ Idles(r) /\ \A g \in Gens : ~Bound(r, g)
  BY <1>1, <1>3, Constants DEF Created, HasSession, Idles, Bound, Creates, Binds, Serving
<1>7. RegInv(q)
  BY <1>1, <1>3, <1>5, <1>6, Constants, StartIsSound
<1>8. Now = q
  <2>1. q = [gens |-> q.gens, modeOf |-> q.modeOf, held |-> q.held, x11 |-> q.x11,
             portal |-> q.portal, told |-> q.told, pending |-> q.pending, open |-> q.open]
    BY <1>7 DEF RegInv, Fits, Registrations
  <2>2. QED
    BY <1>4, <2>1 DEF Now
<1>9. BusFits
  BY <1>1 DEF BusFits
<1>10. WorldTypes
  BY <1>1, Constants DEF WorldTypes
<1>11. QED
  BY <1>7, <1>8, <1>9, <1>10 DEF IInv

\* The registration, the sessions of the portal and the bus agree in every state.
THEOREM RegistrationIsSound == Spec => []IInv
<1>1. Init => IInv
  BY StartsSound
<1>2. IInv /\ [Next]_vars => IInv'
  <2> SUFFICES ASSUME IInv, [Next]_vars PROVE IInv'
    OBVIOUS
  <2>1. CASE Restart
    BY <2>1, RestartKeeps
  <2>2. CASE HandleAnswer
    BY <2>2, AnswerKeeps
  <2>3. CASE PortalAnswers
    BY <2>3, AnswersKeep
  <2>4. CASE PortalCloses
    BY <2>4, ClosesKeep
  <2>5. CASE PortalRestarts
    BY <2>5, PortalRestartKeeps
  <2>6. CASE \E k \in Keys : KeyDown(k) \/ KeyUp(k)
    BY <2>6, KeysKeep
  <2>7. CASE \/ HandleSignal \/ RunPosted \/ TrayToggles \/ UNCHANGED vars
             \/ \E k \in Keys : ReadKeyEvent(k) \/ FlushRelease(k) \/ AutoRepeat(k)
    BY <2>7, GesturesKeep
  <2>8. QED
    BY <2>1, <2>2, <2>3, <2>4, <2>5, <2>6, <2>7 DEF Next
<1>3. QED
  BY <1>1, <1>2, PTL DEF Spec

-----------------------------------------------------------------------------
(***************************************************************************)
(* The theorems                                                            *)
(***************************************************************************)

\* start_shortcut, _portal_shortcut_error and _restart_shortcut leave a single
\* backend: never a portal backend beside the X11 grabs, nor two of them.
THEOREM OneBackendServes == Spec => []OneBackend
<1>1. IInv => OneBackend
  <2> SUFFICES ASSUME IInv PROVE OneBackend
    OBVIOUS
  <2> DEFINE S == {g \in Gens : portal[g].state # "idle"}
  <2>1. \A g \in S : held = g /\ x11 = None
    BY NowIs DEF IInv, RegInv, Sole, Serving
  <2>2. S \in SUBSET {held}
    BY <2>1
  <2>3. IsFiniteSet({held}) /\ Cardinality({held}) = 1
    BY FS_Singleton
  <2>4. IsFiniteSet(S) /\ Cardinality(S) <= 1
    BY <2>2, <2>3, FS_Subset
  <2>5. Cardinality(S) \in Nat
    BY <2>4, FS_CardinalityType
  <2>6. x11 # None => Cardinality(S) = 0
    <3>1. x11 # None => S = {}
      BY <2>1
    <3>2. QED
      BY <3>1, FS_EmptySet
  <2>7. Cardinality(S) + (IF x11 = None THEN 0 ELSE 1) <= 1
    BY <2>4, <2>5, <2>6
  <2>8. QED
    BY <2>1, <2>7 DEF OneBackend
<1>2. QED
  BY <1>1, RegistrationIsSound, PTL

\* The portal holds shortcuts bound only in the session that the application
\* listens to, whatever was refused, closed or replaced while it registered.
THEOREM BoundSessionsAreServed == Spec => []BoundSessionIsServed
<1>1. IInv => BoundSessionIsServed
  <2> SUFFICES ASSUME IInv, NEW g \in open, granted[g] # {} PROVE g = held /\ portal[g].session
    BY DEF BoundSessionIsServed
  <2>1. g \in Gens
    BY Fields, NowIs DEF IInv, RegInv, Fits
  <2>2. QED
    BY <2>1, NowIs DEF IInv, RegInv, Served, Bound
<1>2. QED
  BY <1>1, RegistrationIsSound, PTL

\* When neither a portal backend nor an X11 grab serves the shortcuts, the last
\* registration told the user so.
THEOREM DeafUsersAreTold == Spec => []DeafIsTold
<1>1. IInv => DeafIsTold
  BY NowIs DEF IInv, RegInv, Deaf, Idles, Serving, DeafIsTold
<1>2. QED
  BY <1>1, RegistrationIsSound, PTL

-----------------------------------------------------------------------------
(***************************************************************************)
(* The invariant of the gestures                                           *)
(*                                                                         *)
(* A press that may still start or stop a recording waits in one place:    *)
(* as a signal on the bus, as the first event of a grab that is at rest,   *)
(* or as an edge posted to the Qt thread.  A recording that a push-to-talk *)
(* key started has an owner whose release is due.                          *)
(***************************************************************************)
Strokes == [type : {"press", "release"}, press : Nat \ {None}]
Edges == [edge : {"pressed", "released"}, of : Gens, key : Keys, press : Nat]
Controllers == [Gens -> [Keys -> [pressed : BOOLEAN, owns : BOOLEAN]]]
GestureTypes ==
  /\ controller \in Controllers
  /\ recording \in {None, Tray} \cup Presses
  /\ acted \in [Presses -> Nat] /\ twice = FALSE
GrabTypes ==
  /\ presses <= MaxPresses /\ \A k \in Keys : down[k] <= presses
  /\ seized \in [Keys -> Nat] /\ \A k \in Keys : seized[k] <= gens
  /\ grab \in [Keys -> [active : Nat, deadline : BOOLEAN]]
  /\ xevents \in [Keys -> Seq(Strokes)] /\ posted \in Seq(Edges)
KeyTypes == GestureTypes /\ GrabTypes

\* The key is down, and its events reach the grab that serves now.
Grasped(k) == x11 # None /\ down[k] # None /\ seized[k] = x11

\* What a grab has read and what it has still to read say whether its key is down.
GrabAgrees(k) ==
  /\ x11 = None => xevents[k] = <<>> /\ grab[k] = Loose
  /\ grab[k].deadline => grab[k].active # None
  /\ xevents[k] = <<>> => (Grasped(k) <=> grab[k].active # None /\ ~grab[k].deadline)
  /\ xevents[k] # <<>> =>
       /\ xevents[k][Len(xevents[k])].type = "press" <=> Grasped(k)
       /\ grab[k].active = None => xevents[k][1].type = "press"
GrabsAgree == \A k \in Keys : GrabAgrees(k)

\* The places in which press n waits.
InBus(i, n) == i \in DOMAIN bus /\ bus[i].kind = "Activated" /\ bus[i].press = n
InPosted(i, n) == i \in DOMAIN posted /\ posted[i].edge = "pressed" /\ posted[i].press = n
InGrab(k, n) == k \in Keys /\ xevents[k] # <<>> /\ grab[k].active = None /\ xevents[k][1].press = n

Unused(n) == n \in Presses /\ n <= presses /\ acted[n] = None
PressWaitsOnce(n) ==
  /\ \A i : InBus(i, n) \/ InPosted(i, n) \/ InGrab(i, n) => Unused(n)
  /\ \A i, j : InBus(i, n) /\ InBus(j, n) => i = j
  /\ \A i, j : InPosted(i, n) /\ InPosted(j, n) => i = j
  /\ \A i, j : InGrab(i, n) /\ InGrab(j, n) => i = j
  /\ \A i, j : /\ ~(InBus(i, n) /\ InPosted(j, n))
               /\ ~(InBus(i, n) /\ InGrab(j, n))
               /\ ~(InPosted(i, n) /\ InGrab(j, n))
PressesWaitOnce == \A n \in Nat : PressWaitsOnce(n)
PressesMade == \A n \in Presses : n > presses => acted[n] = None

\* Signals come from a backend that was ready, edges from a list X11 served.
Settled(g) == portal[g].state \in {"ready", "idle"}
ListsAreSettled ==
  /\ \A n \in Presses : acted[n] # None => acted[n] \in Gens /\ acted[n] <= gens /\ Settled(acted[n])
  /\ \A i \in DOMAIN bus : bus[i].kind \in {"Activated", "Deactivated"} => Settled(bus[i].of)
  /\ \A i \in DOMAIN posted : posted[i].of <= gens /\ portal[posted[i].of].state = "idle"

\* A backend that listens asks neither for a session nor to bind again.
AsksOnce(g) ==
  /\ portal[g].state \in {"binding", "listing", "ready"} => ~Creates(Now, g)
  /\ portal[g].state \in {"listing", "ready"} => ~Binds(Now, g)
  /\ \A i \in DOMAIN bus :
       bus[i].kind = "BindShortcuts" /\ bus[i].of = g => ~Binds(Now, g) /\ portal[g].state # "creating"
AskOnce == \A g \in Gens : AsksOnce(g)

\* The release of a key is on its way, from the grabs or from the portal.
Live(g) == portal[g].state = "ready" /\ g \in open
LetsGo(k, i) == i \in DOMAIN posted /\ posted[i].edge = "released" /\ posted[i].of = x11 /\ posted[i].key = k
Ends(g, k, i) == i \in DOMAIN bus /\ bus[i].kind = "Deactivated" /\ bus[i].of = g /\ bus[i].key = k
GrabReleases(k, i) == grab[k].active # None \/ \E j \in Nat : j > i /\ LetsGo(k, j)
PortalReleases(g, k, i) == k \in granted[g] /\ (down[k] # None \/ \E j \in Nat : j > i /\ Ends(g, k, j))
PressesEnd ==
  /\ \A i \in DOMAIN posted :
       posted[i].edge = "pressed" /\ posted[i].of = x11 => GrabReleases(posted[i].key, i)
  /\ \A i \in DOMAIN bus :
       bus[i].kind = "Activated" /\ Live(bus[i].of) => PortalReleases(bus[i].of, bus[i].key, i)

\* The key that owns the recording in its list g, and lets go of it.
Owner(g, k) == controller[g][k].pressed /\ controller[g][k].owns
KeyEnds(g) ==
  /\ g # None
  /\ modeOf[g] = "push-to-talk" /\ g = x11 => \E k \in Keys : Owner(g, k) /\ GrabReleases(k, 0)
  /\ modeOf[g] = "push-to-talk" /\ Live(g) =>
       \E k \in Keys : Owner(g, k) /\ k \in portal[g].bindings /\ PortalReleases(g, k, 0)
RecordingEnds == recording \in Presses => KeyEnds(acted[recording])

PressInv == KeyTypes /\ GrabsAgree /\ PressesWaitOnce /\ PressesMade
EndInv == ListsAreSettled /\ AskOnce /\ PressesEnd /\ RecordingEnds
GestureInv == PressInv /\ EndInv

-----------------------------------------------------------------------------
(***************************************************************************)
(* What a registration does to the lists that were built before it         *)
(***************************************************************************)
\* A list keeps its mode; its backend stays as it is or is unregistered, and
\* is asked nothing more.
Ages(r, q) ==
  /\ r.gens <= q.gens
  /\ q.x11 \in {None, r.x11} \/ q.x11 > r.gens
  /\ \A g \in Gens : g <= r.gens => q.modeOf[g] = r.modeOf[g]
  /\ \A g \in Gens : \/ q.portal[g] \in {r.portal[g], Idle}
                     \/ g > r.gens /\ q.portal[g].state = "creating"
  /\ \A g \in Gens : Creates(q, g) => Creates(r, g) \/ g > r.gens
  /\ \A g \in Gens : Binds(q, g) => Binds(r, g)
  /\ q.open \subseteq r.open

\* The registration s is r but for the backend of list g.
SameBut(r, s, g) ==
  /\ s.gens = r.gens /\ s.x11 = r.x11 /\ s.modeOf = r.modeOf
  /\ s.open = r.open /\ s.pending = r.pending
  /\ \A h \in Gens : h # g => s.portal[h] = r.portal[h]

\* A backend that fails leaves the lists before it as they were.
LEMMA FailureAges ==
  ASSUME NEW r \in Registrations, NEW s \in Registrations, NEW g \in Gens, SameBut(r, s, g),
         r.gens < MaxGen, NEW m \in Modes, NEW q \in Fail(s, g, m)
  PROVE  Ages(r, q)
<1>1. /\ r.gens \in Nat /\ s.portal \in [Gens -> Backends] /\ s.gens = r.gens
      /\ s.gens < MaxGen
  BY Fields DEF SameBut
<1>2. /\ q \in Registrations /\ q.gens = s.gens + 1 /\ q.held = None /\ q.pending = s.pending
      /\ q.portal = [s.portal EXCEPT ![g] = Idle] /\ q.told = TRUE
      /\ q.open = IF s.portal[g].session THEN s.open \ {g} ELSE s.open
      /\ q.x11 \in {s.x11, q.gens}
  BY <1>1, Failed
<1>3. \A h \in Gens : h <= s.gens => q.modeOf[h] = s.modeOf[h]
  BY <1>1, FailedModes
<1>4. \A h \in Gens : q.portal[h] \in {r.portal[h], Idle}
  BY <1>1, <1>2 DEF SameBut
<1>5. q.pending = r.pending /\ q.open \subseteq r.open
  BY <1>2 DEF SameBut
<1>6. \A h \in Gens : (Creates(q, h) <=> Creates(r, h)) /\ (Binds(q, h) <=> Binds(r, h))
  BY <1>5 DEF Creates, Binds
<1>7. r.gens <= q.gens /\ (q.x11 \in {None, r.x11} \/ q.x11 > r.gens)
  BY <1>1, <1>2 DEF SameBut
<1>8. \A h \in Gens : h <= r.gens => q.modeOf[h] = r.modeOf[h]
  BY <1>1, <1>3 DEF SameBut
<1>9. QED
  BY <1>4, <1>5, <1>6, <1>7, <1>8 DEF Ages

\* A registration leaves the lists before it as they were.
LEMMA StartAges ==
  ASSUME NEW r \in Registrations, r.gens + 2 <= MaxGen, NEW m \in Modes,
         NEW q \in StartShortcut(r, m)
  PROVE  Ages(r, q)
<1> DEFINE n == ShortcutSpecs(r, m)
           s == [n EXCEPT !.told = FALSE]
           g == s.gens
           b == [state |-> "creating", session |-> FALSE, bindings |-> Keys]
           p == RegisterMany(s, g)
<1>1. r.gens \in Nat /\ r.gens < MaxGen /\ MaxGen \in Nat
  BY Constants, Fields
<1>2. /\ n \in Registrations /\ n.gens = r.gens + 1 /\ n.gens \in Gens
      /\ n.x11 = r.x11 /\ n.portal = r.portal /\ n.pending = r.pending /\ n.open = r.open
      /\ \A h \in Gens : h <= r.gens => n.modeOf[h] = r.modeOf[h]
  BY <1>1, NewList
<1>3. /\ s \in Registrations /\ s.gens = r.gens + 1 /\ g = s.gens /\ g \in Gens
      /\ s.x11 = r.x11 /\ s.portal = r.portal /\ s.pending = r.pending /\ s.open = r.open
      /\ s.modeOf = n.modeOf
  BY <1>2 DEF Registrations
<1>4. \A h \in Gens : h <= r.gens => s.modeOf[h] = r.modeOf[h]
  BY <1>2, <1>3
<1>5. CASE ~available
  <2>1. q \in StartX11(s)
    BY <1>5 DEF StartShortcut
  <2> HIDE DEF n, s, g
  <2>2. /\ q.gens = s.gens /\ q.portal = s.portal /\ q.modeOf = s.modeOf
        /\ q.pending = s.pending /\ q.open = s.open /\ q.x11 \in {s.x11, s.gens}
    BY <1>3, <2>1, TriedX11
  <2>3. QED
    BY <1>1, <1>3, <1>4, <2>2 DEF Ages, Creates, Binds
<1>6. CASE available
  <2>1. PICK t \in Request(p, g, "CreateSession", m) : q = [t EXCEPT !.held = g]
    BY <1>6 DEF StartShortcut
  <2> HIDE DEF n, s, g
  <2>2. b \in Backends
    BY DEF Backends, PortalStates
  <2>3. p = WithBackend(s, g, b, s.pending)
    BY <1>3 DEF RegisterMany, WithBackend, Registrations
  <2> HIDE DEF b, p
  <2>4. s.pending \in SUBSET (Gens \X Kinds)
    BY <1>3, Fields
  <2>5. /\ p \in Registrations /\ p.gens = s.gens /\ p.x11 = s.x11 /\ p.open = s.open
        /\ p.pending = s.pending /\ p.portal[g] = b /\ \A h \in Gens : h # g => p.portal[h] = s.portal[h]
    BY <1>3, <2>2, <2>3, <2>4, Replaced
  <2>6. p.modeOf = s.modeOf
    BY <2>3 DEF WithBackend, Registrations
  <2>7. SameBut(s, p, g)
    BY <2>5, <2>6 DEF SameBut
  <2>8. s.gens < MaxGen
    BY <1>1, <1>3
  <2>9. Ages(r, q)
    <3>1. CASE t \in Fail(p, g, m)
      <4>1. Ages(s, t)
        BY <1>3, <2>5, <2>7, <2>8, <3>1, FailureAges
      <4>2. t \in Registrations
        BY <1>3, <2>5, <2>8, <3>1, Failed
      <4>3. /\ q.gens = t.gens /\ q.x11 = t.x11 /\ q.modeOf = t.modeOf /\ q.portal = t.portal
            /\ q.pending = t.pending /\ q.open = t.open
        BY <2>1, <4>2 DEF Registrations
      <4>4. Ages(s, q)
        BY <4>1, <4>3 DEF Ages, Creates, Binds
      <4>5. \A h \in Gens : (Creates(s, h) <=> Creates(r, h)) /\ (Binds(s, h) <=> Binds(r, h))
        BY <1>3 DEF Creates, Binds
      <4>6. s.gens \in Nat /\ q.gens \in Nat /\ q.x11 \in Nat
        BY <1>1, <1>3, <4>2, <4>3, Fields
      <4>7. \A h \in Gens : h \in Nat
        BY Constants
      <4>8. QED
        BY <1>1, <1>3, <1>4, <4>4, <4>5, <4>6, <4>7 DEF Ages
    <3>2. CASE t = [p EXCEPT !.pending = @ \cup {<<g, "CreateSession">>}]
      <4>1. /\ q.gens = p.gens /\ q.x11 = p.x11 /\ q.modeOf = p.modeOf /\ q.portal = p.portal
            /\ q.pending = p.pending \cup {<<g, "CreateSession">>} /\ q.open = p.open
        BY <2>1, <2>5, <3>2 DEF Registrations
      <4>2. \A h \in Gens : \/ q.portal[h] = r.portal[h]
                            \/ h > r.gens /\ q.portal[h].state = "creating"
        BY <1>1, <1>3, <2>5, <4>1 DEF b
      <4>3. \A h \in Gens : /\ Creates(q, h) => Creates(r, h) \/ h > r.gens
                            /\ Binds(q, h) => Binds(r, h)
        BY <1>1, <1>3, <2>5, <4>1 DEF Creates, Binds
      <4>4. /\ q.gens = r.gens + 1 /\ q.x11 = r.x11 /\ q.open = r.open
            /\ \A h \in Gens : h <= r.gens => q.modeOf[h] = r.modeOf[h]
        BY <1>3, <1>4, <2>5, <2>6, <4>1
      <4>5. QED
        BY <1>1, <4>2, <4>3, <4>4 DEF Ages
    <3>3. QED
      BY <2>1, <3>1, <3>2 DEF Request
  <2>10. QED
    BY <2>9
<1>7. QED
  BY <1>5, <1>6

\* An answer brings the backend that asked one step further.
AdvancesTo(m, q, b, p) ==
  /\ q.gens = gens /\ q.x11 = x11 /\ q.modeOf = modeOf /\ q.open = open /\ q.pending = p
  /\ q.portal[m.of] = b /\ \A h \in Gens : h # m.of => q.portal[h] = portal[h]
  /\ \/ /\ m.kind = "CreateSession" /\ portal[m.of].state = "creating" /\ b.state = "binding"
        /\ p = pending \cup {<<m.of, "BindShortcuts">>}
     \/ /\ m.kind = "BindShortcuts" /\ portal[m.of].state = "binding" /\ b.state = "listing"
        /\ p = pending \cup {<<m.of, "ListShortcuts">>}
     \/ /\ m.kind = "ListShortcuts" /\ portal[m.of].state = "listing" /\ b.state = "ready"
        /\ p = pending
Advances(m, q) == \E b \in Backends, p \in SUBSET (Gens \X Kinds) : AdvancesTo(m, q, b, p)

\* Only the backend of the list that was answered changes.
LEMMA ReplacedIsSame ==
  ASSUME Now \in Registrations, NEW g \in Gens, NEW b \in Backends,
         NEW p \in SUBSET (Gens \X Kinds), NEW s, s = WithBackend(Now, g, b, p)
  PROVE  /\ s \in Registrations /\ s.gens = gens /\ s.x11 = x11 /\ s.modeOf = modeOf /\ s.open = open
         /\ s.pending = p /\ s.portal[g] = b /\ \A h \in Gens : h # g => s.portal[h] = portal[h]
<1>1. s.modeOf = modeOf
  BY NowIs DEF WithBackend, Registrations
<1>2. QED
  BY <1>1, Replaced, NowIs

\* The next request of a backend is on its way, or it fails at once.
LEMMA RequestAges ==
  ASSUME Now \in Registrations, gens < MaxGen, mode \in Modes, NEW m, m.of \in Gens,
         NEW b \in Backends, NEW kind,
         \/ m.kind = "CreateSession" /\ portal[m.of].state = "creating" /\ b.state = "binding"
            /\ kind = "BindShortcuts"
         \/ m.kind = "BindShortcuts" /\ portal[m.of].state = "binding" /\ b.state = "listing"
            /\ kind = "ListShortcuts",
         NEW q \in Request(WithBackend(Now, m.of, b, pending), m.of, kind, mode)
  PROVE  Ages(Now, q) \/ Advances(m, q)
<1> DEFINE g == m.of
           s == WithBackend(Now, g, b, pending)
           p == pending \cup {<<g, kind>>}
<1>1. pending \in SUBSET (Gens \X Kinds) /\ p \in SUBSET (Gens \X Kinds) /\ g \in Gens
  BY Fields, NowIs DEF Kinds
<1>2. /\ s \in Registrations /\ s.gens = gens /\ s.x11 = x11 /\ s.modeOf = modeOf /\ s.open = open
      /\ s.pending = pending /\ s.portal[g] = b /\ \A h \in Gens : h # g => s.portal[h] = portal[h]
  BY <1>1, ReplacedIsSame
<1> HIDE DEF s
<1>3. SameBut(Now, s, g)
  BY <1>2, NowIs DEF SameBut
<1>4. CASE q \in Fail(s, g, mode)
  BY <1>1, <1>2, <1>3, <1>4, NowIs, FailureAges
<1>5. CASE q = [s EXCEPT !.pending = @ \cup {<<g, kind>>}]
  <2>1. /\ q.gens = s.gens /\ q.x11 = s.x11 /\ q.modeOf = s.modeOf /\ q.open = s.open
        /\ q.portal = s.portal /\ q.pending = p
    BY <1>2, <1>5 DEF Registrations
  <2>2. AdvancesTo(m, q, b, p)
    BY <1>2, <2>1 DEF AdvancesTo
  <2>3. QED
    BY <1>1, <2>2 DEF Advances
<1>6. QED
  BY <1>4, <1>5 DEF Request, s

\* An answer advances its backend or leads to a new registration.
LEMMA AnswerAges ==
  ASSUME Now \in Registrations, gens < MaxGen, mode \in Modes, NEW m \in Messages,
         NEW q \in Answered(m)
  PROVE  Ages(Now, q) \/ Advances(m, q)
<1> DEFINE g == m.of
<1>1. /\ g \in Gens /\ gens \in Nat /\ portal \in [Gens -> Backends]
      /\ pending \in SUBSET (Gens \X Kinds) /\ portal[g] \in Backends
  BY Fields, NowIs DEF Messages
<1>2. SameBut(Now, Now, g)
  BY DEF SameBut
<1>3. ASSUME q \in Fail(Now, g, mode) PROVE Ages(Now, q)
  BY <1>1, <1>2, <1>3, NowIs, FailureAges
<1>4. CASE m.kind = "CreateSession" /\ portal[g].state = "creating"
  <2> DEFINE b == [portal[g] EXCEPT !.state = "binding", !.session = TRUE]
             s == [Now EXCEPT !.portal[g].state = "binding", !.portal[g].session = TRUE]
  <2>1. b \in Backends /\ b.state = "binding"
    BY <1>1 DEF Backends, PortalStates
  <2>2. s = WithBackend(Now, g, b, pending)
    BY <1>1, NowIs, ZenonT(60) DEF WithBackend, Now, Backends
  <2>3. CASE m.ok
    <3>1. q \in Request(s, g, "BindShortcuts", mode)
      BY <1>4, <2>3 DEF Answered
    <3>2. q \in Request(WithBackend(Now, g, b, pending), g, "BindShortcuts", mode)
      BY <2>2, <3>1
    <3> HIDE DEF s, b
    <3>3. QED
      BY <1>1, <1>4, <2>1, <3>2, RequestAges
  <2>4. CASE ~m.ok
    BY <1>3, <1>4, <2>4 DEF Answered
  <2>5. QED
    BY <2>3, <2>4
<1>5. CASE m.kind = "BindShortcuts" /\ portal[g].state = "binding"
  <2> DEFINE b == [portal[g] EXCEPT !.state = "listing"]
             s == [Now EXCEPT !.portal[g].state = "listing"]
  <2>1. b \in Backends /\ b.state = "listing"
    BY <1>1 DEF Backends, PortalStates
  <2>2. s = WithBackend(Now, g, b, pending)
    BY <1>1, NowIs, ZenonT(60) DEF WithBackend, Now, Backends
  <2>3. CASE m.ok
    <3>1. q \in Request(s, g, "ListShortcuts", mode)
      BY <1>5, <2>3 DEF Answered
    <3>2. q \in Request(WithBackend(Now, g, b, pending), g, "ListShortcuts", mode)
      BY <2>2, <3>1
    <3> HIDE DEF s, b
    <3>3. QED
      BY <1>1, <1>5, <2>1, <3>2, RequestAges
  <2>4. CASE ~m.ok
    BY <1>3, <1>5, <2>4 DEF Answered
  <2>5. QED
    BY <2>3, <2>4
<1>6. CASE m.kind = "ListShortcuts" /\ portal[g].state = "listing"
  <2> DEFINE b == [portal[g] EXCEPT !.state = "ready", !.bindings = Parsed(g, m.keys)]
             s == [Now EXCEPT !.portal[g].state = "ready", !.portal[g].bindings = Parsed(g, m.keys)]
  <2>1. Parsed(g, m.keys) \in SUBSET Keys
    BY <1>1 DEF Parsed, Backends
  <2>2. b \in Backends /\ b.state = "ready"
    BY <1>1, <2>1 DEF Backends, PortalStates
  <2>3. s = WithBackend(Now, g, b, pending)
    BY <1>1, NowIs, ZenonT(60) DEF WithBackend, Now, Backends
  <2>4. CASE m.ok /\ Parsed(g, m.keys) # {}
    <3>1. q = s
      BY <1>6, <2>4 DEF Answered
    <3>2. q = WithBackend(Now, g, b, pending)
      BY <2>3, <3>1
    <3> HIDE DEF s, b
    <3>3. /\ q.gens = gens /\ q.x11 = x11 /\ q.modeOf = modeOf /\ q.open = open
          /\ q.pending = pending /\ q.portal[g] = b /\ \A h \in Gens : h # g => q.portal[h] = portal[h]
      BY <1>1, <2>2, <3>2, ReplacedIsSame
    <3>4. AdvancesTo(m, q, b, pending)
      BY <1>6, <2>2, <3>3 DEF AdvancesTo
    <3>5. QED
      BY <1>1, <2>2, <3>4 DEF Advances
  <2>5. CASE ~(m.ok /\ Parsed(g, m.keys) # {})
    BY <1>3, <1>6, <2>5 DEF Answered
  <2>6. QED
    BY <2>4, <2>5
<1>7. CASE m.kind \in {"Closed", "NoOwner"} /\ portal[g].state # "idle"
  <2> DEFINE b == [portal[g] EXCEPT !.session = FALSE]
             s == [Now EXCEPT !.portal[g].session = FALSE]
  <2>1. b \in Backends
    BY <1>1 DEF Backends
  <2>2. s = WithBackend(Now, g, b, pending)
    BY <1>1, NowIs, ZenonT(60) DEF WithBackend, Now, Backends
  <2>3. q \in Fail(s, g, mode)
    BY <1>7 DEF Answered
  <2> HIDE DEF b, s
  <2>4. /\ s \in Registrations /\ s.gens = gens /\ s.x11 = x11 /\ s.modeOf = modeOf /\ s.open = open
        /\ s.pending = pending /\ \A h \in Gens : h # g => s.portal[h] = portal[h]
    BY <1>1, <2>1, <2>2, ReplacedIsSame
  <2>5. SameBut(Now, s, g)
    BY <2>4, NowIs DEF SameBut
  <2>6. QED
    BY <1>1, <2>3, <2>4, <2>5, NowIs, FailureAges
<1>8. CASE /\ ~(m.kind = "CreateSession" /\ portal[g].state = "creating")
           /\ ~(m.kind = "BindShortcuts" /\ portal[g].state = "binding")
           /\ ~(m.kind = "ListShortcuts" /\ portal[g].state = "listing")
           /\ ~(m.kind \in {"Closed", "NoOwner"} /\ portal[g].state # "idle")
  <2>1. q = Now
    BY <1>8 DEF Answered
  <2>2. QED
    BY <1>1, <2>1, NowIs DEF Ages
<1>9. QED
  BY <1>4, <1>5, <1>6, <1>7, <1>8

\* A replacement leaves the lists that were built and, of their backends, at most
\* unregisters the one that served.
LEMMA RestartAges ==
  ASSUME IInv, Restart
  PROVE  \E q : Become(q) /\ Ages(Now, q) /\ (q.x11 = None \/ q.x11 > gens)
<1> DEFINE stopped == [Now EXCEPT !.x11 = None]
           cleared == [(IF held = None THEN stopped ELSE Unregister(stopped, held)) EXCEPT !.held = None]
<1>1. /\ Now \in Registrations /\ gens \in Nat /\ held \in Nat /\ held <= gens /\ gens <= MaxGen
      /\ gens + 2 <= MaxGen
  BY Fields, NowIs DEF IInv, RegInv, Fits, Restart
<1>2. /\ stopped \in Registrations /\ stopped.gens = gens /\ stopped.held = held /\ stopped.x11 = None
      /\ stopped.portal = portal /\ stopped.told = told /\ stopped.pending = pending
      /\ stopped.open = open
  BY <1>1, NowIs, Constants DEF Registrations
<1>3. held # None => held \in Gens
  BY <1>1, Constants DEF Gens, None
<1> HIDE DEF stopped
<1>4. /\ cleared \in Registrations /\ cleared.gens = gens /\ cleared.held = None /\ cleared.x11 = None
      /\ cleared.pending = pending
      /\ held = None => cleared.portal = portal /\ cleared.open = open
      /\ held # None => /\ cleared.portal = [portal EXCEPT ![held] = Idle]
                        /\ cleared.open = IF portal[held].session THEN open \ {held} ELSE open
  <2>1. CASE held = None
    BY <1>2, <2>1 DEF Registrations
  <2>2. CASE held # None
    <3> DEFINE u == Unregister(stopped, held)
    <3>1. /\ u \in Registrations /\ u.gens = gens /\ u.x11 = None /\ u.pending = pending
          /\ u.portal = [portal EXCEPT ![held] = Idle]
          /\ u.open = IF portal[held].session THEN open \ {held} ELSE open
      BY <1>2, <1>3, <2>2, Unregistered
    <3>2. cleared = [u EXCEPT !.held = None]
      BY <2>2
    <3> HIDE DEF u
    <3>3. QED
      BY <2>2, <3>1, <3>2, Constants DEF Registrations
  <2>3. QED
    BY <2>1, <2>2
<1> HIDE DEF cleared
<1>5. PICK q \in StartShortcut(cleared, mode') : Become(q)
  BY DEF Restart, cleared, stopped
<1>6. mode' \in Modes
  BY DEF Restart, IInv, WorldTypes
<1>7. Ages(cleared, q)
  BY <1>1, <1>4, <1>6, StartAges
<1>8. cleared.modeOf = modeOf
  <2>1. stopped.modeOf = modeOf
    BY <1>1, NowIs DEF stopped, Registrations
  <2>2. held # None => Unregister(stopped, held).modeOf = modeOf /\ Unregister(stopped, held) \in Registrations
    BY <1>2, <1>3, <2>1, Unregistered
  <2>3. QED
    BY <1>2, <2>1, <2>2 DEF cleared, Registrations
<1>9. portal \in [Gens -> Backends]
  BY <1>1, Fields, NowIs
<1>10. cleared.open \subseteq open /\ \A g \in Gens : cleared.portal[g] \in {portal[g], Idle}
  BY <1>4, <1>9
<1>11. \A g \in Gens : (Creates(cleared, g) <=> Creates(Now, g)) /\ (Binds(cleared, g) <=> Binds(Now, g))
  BY <1>4, NowIs DEF Creates, Binds
<1>12. Ages(Now, q)
  BY <1>4, <1>7, <1>8, <1>10, <1>11, NowIs DEF Ages
<1>13. q.x11 = None \/ q.x11 > gens
  BY <1>4, <1>7 DEF Ages
<1>14. QED
  BY <1>5, <1>12, <1>13

\* An answer leaves the lists that were built, or brings one a step further.
LEMMA HandlingAges ==
  ASSUME IInv, HandleAnswer
  PROVE  \E q : Become(q) /\ (Ages(Now, q) \/ Advances(bus[1], q))
<1>1. bus # <<>> /\ bus \in Seq(Messages) /\ gens < MaxGen /\ mode \in Modes /\ Now \in Registrations
  BY DEF HandleAnswer, IInv, WorldTypes, RegInv, Fits
<1>2. Head(bus) = bus[1] /\ Head(bus) \in Messages
  BY <1>1
<1>3. PICK q \in Answered(Head(bus)) : Become(q)
  BY DEF HandleAnswer
<1>4. QED
  BY <1>1, <1>2, <1>3, AnswerAges

\* While X11 serves no answer changes anything.
LEMMA X11HandlesNothing ==
  ASSUME IInv, HandleAnswer, x11 # None
  PROVE  x11' = x11
<1>1. bus # <<>> /\ bus \in Seq(Messages)
  BY DEF HandleAnswer, IInv, WorldTypes
<1>2. Head(bus).of \in Gens
  BY <1>1, MessagesAre DEF IInv
<1>3. portal[Head(bus).of].state = "idle"
  BY <1>2, NowIs DEF IInv, RegInv, Sole, Serving
<1>4. PICK q \in Answered(Head(bus)) : Become(q)
  BY DEF HandleAnswer
<1>5. q = Now
  BY <1>3, <1>4 DEF Answered
<1>6. QED
  BY <1>4, <1>5, NowIs DEF Become

-----------------------------------------------------------------------------
(***************************************************************************)
(* Sequences that lose their head or gain a tail                           *)
(***************************************************************************)
LEMMA TailIndices ==
  ASSUME NEW S, NEW s \in Seq(S), s # <<>>, NEW i
  PROVE  /\ i \in DOMAIN Tail(s) => i \in Nat /\ i > 0 /\ i + 1 \in DOMAIN s /\ Tail(s)[i] = s[i + 1]
         /\ i \in DOMAIN s => i = 1 \/ (i - 1 \in DOMAIN Tail(s) /\ Tail(s)[i - 1] = s[i])
         /\ Head(s) = s[1] /\ 1 \in DOMAIN s /\ Tail(s) \in Seq(S) /\ Len(Tail(s)) = Len(s) - 1
         /\ Len(s) \in Nat /\ Len(s) > 0
  OBVIOUS

\* What an append leaves in place, and where it puts the new element.
LEMMA AppendIndices ==
  ASSUME NEW S, NEW s \in Seq(S), NEW x \in S, NEW i
  PROVE  /\ i \in DOMAIN Append(s, x) =>
              \/ i \in DOMAIN s /\ Append(s, x)[i] = s[i]
              \/ i = Len(s) + 1 /\ Append(s, x)[i] = x
         /\ i \in DOMAIN s => i \in DOMAIN Append(s, x) /\ Append(s, x)[i] = s[i] /\ i <= Len(s)
         /\ Len(s) + 1 \in DOMAIN Append(s, x) /\ Append(s, x)[Len(s) + 1] = x
         /\ Append(s, x) \in Seq(S) /\ Len(s) \in Nat /\ Len(Append(s, x)) = Len(s) + 1
         /\ i \in DOMAIN s => i \in Nat
  OBVIOUS

-----------------------------------------------------------------------------
(***************************************************************************)
(* What the portal and the keyboard put on the bus                         *)
(***************************************************************************)
LEMMA SetToSeqOne ==
  ASSUME NEW x
  PROVE  SetToSeq({x}) = <<x>>
<1>1. Cardinality({x}) = 1
  BY FS_Singleton
<1>2. [i \in 1..1 |-> x] \in [1..Cardinality({x}) -> {x}] /\ IsInjective([i \in 1..1 |-> x])
  BY <1>1 DEF IsInjective
<1>3. SetToSeq({x}) \in [1..1 -> {x}]
  BY <1>1, <1>2 DEF SetToSeq
<1>4. QED
  BY <1>3

\* A sequence of nothing.
LEMMA SetToSeqNone == SetToSeq({}) = <<>>
<1>1. Cardinality({}) = 0
  BY FS_EmptySet
<1>2. <<>> \in [1..Cardinality({}) -> {}] /\ IsInjective(<<>>)
  BY <1>1 DEF IsInjective
<1>3. SetToSeq({}) \in [1..0 -> {}]
  BY <1>1, <1>2 DEF SetToSeq
<1>4. QED
  BY <1>3

\* The session that hears key k is the one of the ready backend.
Hears(k) == held \in open /\ k \in granted[held] /\ portal[held].state = "ready"

\* A moved key reaches at most the session of the backend that is ready.
LEMMA KeySignals ==
  ASSUME IInv, NEW k \in Keys, NEW n \in Nat, NEW type,
         NEW signal \in {"Activated", "Deactivated"}, KeyMoves(k, n, type, signal)
  PROVE  /\ UNCHANGED <<registration, pending, open, granted, grab, posted, gesture>>
         /\ Hears(k) => /\ bus' = Append(bus, Signal(signal, held, k, n)) /\ held \in Gens
                        /\ held <= gens /\ Signal(signal, held, k, n) \in Messages /\ x11 = None
         /\ ~Hears(k) => bus' = bus
<1>1. /\ gens \in Nat /\ gens <= MaxGen /\ open \subseteq Gens /\ held \in Nat /\ held <= gens
      /\ bus \in Seq(Messages)
  BY Fields, NowIs DEF IInv, RegInv, Fits, WorldTypes
<1> DEFINE heard == {g \in open : k \in granted[g] /\ portal[g].state = "ready"}
<1>2. bus' = bus \o SetToSeq({Signal(signal, g, k, n) : g \in heard})
      /\ UNCHANGED <<registration, pending, open, granted, grab, posted, gesture>>
  BY DEF KeyMoves, service
<1>3. \A g \in heard : g \in Gens /\ g = held /\ x11 = None
  BY <1>1, NowIs DEF IInv, RegInv, Sole, Serving
<1>4. CASE Hears(k)
  <2>1. heard = {held}
    BY <1>3, <1>4 DEF Hears
  <2>2. {Signal(signal, g, k, n) : g \in heard} = {Signal(signal, held, k, n)}
    BY <2>1
  <2>3. held \in Gens /\ x11 = None
    BY <1>3, <2>1
  <2>4. Signal(signal, held, k, n) \in Messages
    BY <2>3 DEF Signal, Messages
  <2> HIDE DEF heard
  <2>5. bus' = bus \o <<Signal(signal, held, k, n)>>
    BY <1>2, <2>2, SetToSeqOne
  <2>6. bus' = Append(bus, Signal(signal, held, k, n))
    BY <1>1, <2>4, <2>5
  <2>7. QED
    BY <1>1, <1>2, <1>4, <2>3, <2>4, <2>6
<1>5. CASE ~Hears(k)
  <2>1. heard = {}
    BY <1>3, <1>5 DEF Hears
  <2>2. {Signal(signal, g, k, n) : g \in heard} = {}
    BY <2>1
  <2> HIDE DEF heard
  <2>3. bus' = bus \o <<>>
    BY <1>2, <2>2, SetToSeqNone
  <2>4. QED
    BY <1>1, <1>2, <1>5, <2>3
<1>6. QED
  BY <1>4, <1>5

\* The portal answers one request, and may open or bind the session it is about.
LEMMA AnswersWorld ==
  ASSUME IInv, PortalAnswers
  PROVE  \E m \in Messages :
           /\ m.kind \in Kinds /\ m.of \in Gens /\ bus' = Append(bus, m)
           /\ <<m.of, m.kind>> \in pending /\ pending' = pending \ {<<m.of, m.kind>>}
           /\ \A g \in Gens : g \in open' => g \in open \/ Creates(Now, g)
           /\ \A g \in Gens : granted'[g] = granted[g] \/ Binds(Now, g)
<1>1. /\ pending \subseteq Gens \X Kinds /\ granted \in [Gens -> SUBSET Keys]
  BY Fields, NowIs DEF IInv, RegInv, Fits, WorldTypes
<1>2. PICK request \in pending :
        LET g == request[1]
            kind == request[2]
        IN /\ pending' = pending \ {request}
           /\ \/ /\ bus' = Append(bus, Answer(g, kind, FALSE, {})) /\ UNCHANGED <<open, granted>>
              \/ /\ kind = "CreateSession" /\ open' = open \cup {g}
                 /\ bus' = Append(bus, Answer(g, kind, TRUE, {})) /\ UNCHANGED granted
              \/ /\ kind = "BindShortcuts" /\ g \in open
                 /\ granted' \in {[granted EXCEPT ![g] = keys] : keys \in SUBSET Keys}
                 /\ bus' = Append(bus, Answer(g, kind, TRUE, {})) /\ UNCHANGED open
              \/ /\ kind = "ListShortcuts" /\ g \in open
                 /\ bus' = Append(bus, Answer(g, kind, TRUE, granted[g]))
                 /\ UNCHANGED <<open, granted>>
  BY DEF PortalAnswers
<1> DEFINE g == request[1]
           kind == request[2]
<1>3. g \in Gens /\ kind \in Kinds /\ request = <<g, kind>> /\ <<g, kind>> \in pending
  BY <1>1
<1>4. \E ok \in BOOLEAN, keys \in SUBSET Keys : bus' = Append(bus, Answer(g, kind, ok, keys))
  <2>1. {} \in SUBSET Keys /\ granted[g] \in SUBSET Keys
    BY <1>1, <1>3
  <2>2. QED
    BY <1>2, <2>1
<1>5. PICK ok \in BOOLEAN, keys \in SUBSET Keys : bus' = Append(bus, Answer(g, kind, ok, keys))
  BY <1>4
<1>6. Answer(g, kind, ok, keys) \in Messages /\ Answer(g, kind, ok, keys).kind = kind
      /\ Answer(g, kind, ok, keys).of = g
  BY <1>3 DEF Answer, Messages
<1>7. \A h \in Gens : h \in open' => h \in open \/ Creates(Now, h)
  BY <1>2, <1>3, NowIs DEF Creates
<1>8. \A h \in Gens : granted'[h] = granted[h] \/ Binds(Now, h)
  <2>1. kind = "BindShortcuts" => Binds(Now, g)
    BY <1>3, NowIs DEF Binds
  <2>2. granted' = granted \/ (kind = "BindShortcuts" /\ \E S \in SUBSET Keys : granted' = [granted EXCEPT ![g] = S])
    BY <1>2
  <2>3. QED
    BY <1>1, <1>3, <2>1, <2>2
<1>9. pending' = pending \ {<<g, kind>>}
  BY <1>2, <1>3
<1> HIDE DEF g, kind
<1>10. QED
  BY <1>3, <1>5, <1>6, <1>7, <1>8, <1>9

\* The portal closes sessions and forgets requests, and the backend may hear it.
LEMMA FaultsWorld ==
  ASSUME IInv, PortalCloses \/ PortalRestarts
  PROVE  /\ UNCHANGED <<granted, portal>> /\ open' \subseteq open /\ pending' \subseteq pending
         /\ \/ bus' = bus
            \/ \E m \in Messages : bus' = Append(bus, m) /\ m.kind \in {"Closed", "NoOwner"}
<1>1. gens \in Nat /\ gens <= MaxGen /\ open \subseteq Gens /\ held \in Nat /\ held <= gens
  BY Fields, NowIs DEF IInv, RegInv, Fits
<1>2. CASE PortalCloses
  <2>1. PICK g \in open :
          /\ open' = open \ {g}
          /\ bus' = IF WatchesSession(g) THEN Append(bus, [kind |-> "Closed", of |-> g]) ELSE bus
    BY <1>2 DEF PortalCloses
  <2>2. [kind |-> "Closed", of |-> g] \in Messages
    BY <1>1 DEF Messages
  <2>3. QED
    BY <1>2, <2>1, <2>2 DEF PortalCloses, registration
<1>3. CASE PortalRestarts
  <2>1. held # None => [kind |-> "NoOwner", of |-> held] \in Messages
    BY <1>1, Constants DEF Messages, Gens, None
  <2>2. QED
    BY <1>3, <2>1 DEF PortalRestarts, registration, WatchesService
<1>4. QED
  BY <1>2, <1>3

-----------------------------------------------------------------------------
(***************************************************************************)
(* A backend that listens is not asked to bind again                       *)
(***************************************************************************)
\* The types of the bus and of the registration.
LEMMA RegistrationTypes ==
  ASSUME IInv
  PROVE  /\ gens \in Nat /\ gens <= MaxGen /\ Gens \subseteq Nat /\ bus \in Seq(Messages)
         /\ modeOf \in [Gens -> Modes] /\ portal \in [Gens -> Backends] /\ held \in Nat /\ x11 \in Nat
         /\ x11 <= gens /\ open \subseteq Gens /\ pending \subseteq Gens \X Kinds
         /\ granted \in [Gens -> SUBSET Keys] /\ presses \in Nat /\ down \in [Keys -> Nat]
         /\ \A i \in DOMAIN bus : bus[i] \in Messages /\ bus[i].of \in Gens /\ bus[i].of <= gens
         /\ Now \in Registrations
<1>1. Now \in Registrations /\ gens <= MaxGen /\ x11 <= gens
  BY NowIs DEF IInv, RegInv, Fits
<1>2. \A i \in DOMAIN bus : bus[i] \in Messages /\ bus[i].of \in Gens /\ bus[i].of <= gens
  BY MessagesAre DEF IInv, BusFits
<1>3. QED
  BY <1>1, <1>2, Fields, NowIs, Constants DEF IInv, WorldTypes

\* What is on the bus after a step that took the first message, or took none.
LEMMA BusShrinks ==
  ASSUME IInv, bus' = bus \/ (bus # <<>> /\ bus' = Tail(bus))
  PROVE  \A i \in DOMAIN bus' : \E j \in DOMAIN bus : bus'[i] = bus[j]
<1>1. bus \in Seq(Messages)
  BY RegistrationTypes
<1>2. CASE bus' = bus
  BY <1>2
<1>3. CASE bus # <<>> /\ bus' = Tail(bus)
  <2>1. \A i \in DOMAIN bus' : bus'[i] = bus[i + 1] /\ i + 1 \in DOMAIN bus
    BY <1>1, <1>3, TailIndices
  <2>2. QED
    BY <2>1
<1>4. QED
  BY <1>2, <1>3

\* What was not asked of the portal yet.
LEMMA NotBuilt ==
  ASSUME IInv, NEW g \in Gens, g > gens
  PROVE  portal[g].state = "idle" /\ ~Creates(Now, g) /\ ~Binds(Now, g)
<1>1. Fresh(Now, g)
  BY NowIs DEF IInv, RegInv, Fits
<1>2. QED
  BY <1>1, NowIs DEF Fresh, Creates, Binds, Kinds, Idle

\* The requests of a backend, step by step.
LEMMA AgeAsksOnce ==
  ASSUME IInv, AskOnce, NEW q, Become(q), Ages(Now, q),
         bus' = bus \/ (bus # <<>> /\ bus' = Tail(bus))
  PROVE  AskOnce'
<1> SUFFICES ASSUME NEW g \in Gens PROVE AsksOnce(g)'
  BY DEF AskOnce
<1>1. AsksOnce(g)
  BY DEF AskOnce
<1>2. portal' = q.portal /\ pending' = q.pending
  BY DEF Become
<1>3. /\ Creates(Now, g)' => Creates(Now, g) \/ g > gens
      /\ Binds(Now, g)' => Binds(Now, g)
  BY <1>2, NowIs DEF Ages, Creates, Binds, Now
<1>4. portal'[g] = portal[g] \/ portal'[g].state = "idle" \/ (g > gens /\ portal'[g].state = "creating")
  BY <1>2, NowIs, Constants DEF Ages
<1>5. portal'[g].state \in {"binding", "listing", "ready"} =>
        g <= gens /\ portal[g] = portal'[g]
  BY <1>4, NotBuilt, RegistrationTypes
<1>6. portal'[g].state \in {"binding", "listing", "ready"} => ~Creates(Now, g)'
  BY <1>1, <1>3, <1>5, RegistrationTypes DEF AsksOnce
<1>7. portal'[g].state \in {"listing", "ready"} => ~Binds(Now, g)'
  BY <1>1, <1>3, <1>5 DEF AsksOnce
<1>8. ASSUME NEW j \in DOMAIN bus, bus[j].kind = "BindShortcuts", bus[j].of = g
      PROVE  ~Binds(Now, g)' /\ portal'[g].state # "creating"
  <2>1. ~Binds(Now, g) /\ portal[g].state # "creating" /\ g <= gens
    BY <1>1, <1>8, RegistrationTypes DEF AsksOnce
  <2>2. QED
    BY <1>3, <1>4, <2>1, RegistrationTypes
<1>9. QED
  BY <1>6, <1>7, <1>8, BusShrinks DEF AsksOnce

\* The requests of the backend that an answer advances.
LEMMA AdvanceAsksOnce ==
  ASSUME IInv, AskOnce, NEW q, Become(q), bus # <<>>, Advances(bus[1], q), bus' = Tail(bus)
  PROVE  AskOnce'
<1> DEFINE m == bus[1]
<1>1. bus \in Seq(Messages) /\ 1 \in DOMAIN bus /\ m.of \in Gens
  BY RegistrationTypes
<1>2. PICK b \in Backends, p \in SUBSET (Gens \X Kinds) : AdvancesTo(m, q, b, p)
  BY DEF Advances
<1>3. portal' = q.portal /\ pending' = p
  BY <1>2 DEF Become, AdvancesTo
<1>4. m.kind = "CreateSession" => ~Creates(Now, m.of)
  BY <1>1, NowIs DEF IInv, BusFits, Creates
<1> SUFFICES ASSUME NEW g \in Gens PROVE AsksOnce(g)'
  BY DEF AskOnce
<1>5. AsksOnce(g) /\ AsksOnce(m.of)
  BY <1>1 DEF AskOnce
<1>6. CASE g # m.of
  <2>1. portal'[g] = portal[g]
    BY <1>2, <1>3, <1>6 DEF AdvancesTo
  <2>2. (Creates(Now, g)' <=> Creates(Now, g)) /\ (Binds(Now, g)' <=> Binds(Now, g))
    BY <1>2, <1>3, <1>6 DEF AdvancesTo, Creates, Binds, Now
  <2>3. QED
    BY <1>5, <2>1, <2>2, BusShrinks DEF AsksOnce
<1>7. CASE g = m.of
  <2>1. portal'[g] = b
    BY <1>2, <1>3, <1>7 DEF AdvancesTo
  <2>2. Creates(Now, g)' <=> Creates(Now, g)
    BY <1>2, <1>3, <1>7 DEF AdvancesTo, Creates, Now
  <2>3. CASE m.kind = "CreateSession" /\ portal[g].state = "creating" /\ b.state = "binding"
    <3>1. ~Creates(Now, g)' /\ \A j \in DOMAIN bus : ~(bus[j].kind = "BindShortcuts" /\ bus[j].of = g)
      BY <1>4, <1>5, <1>7, <2>2, <2>3 DEF AsksOnce
    <3>2. QED
      BY <2>1, <2>3, <3>1, BusShrinks DEF AsksOnce
  <2>4. CASE \/ m.kind = "BindShortcuts" /\ portal[g].state = "binding" /\ b.state = "listing"
                /\ p = pending \cup {<<g, "ListShortcuts">>}
             \/ m.kind = "ListShortcuts" /\ portal[g].state = "listing" /\ b.state = "ready"
                /\ p = pending
    <3>1. ~Creates(Now, g) /\ ~Binds(Now, g)
      BY <1>1, <1>5, <1>7, <2>4 DEF AsksOnce
    <3>2. ~Creates(Now, g)' /\ ~Binds(Now, g)'
      BY <1>3, <2>2, <2>4, <3>1 DEF Binds, Now
    <3>3. QED
      BY <2>1, <2>4, <3>2 DEF AsksOnce
  <2>5. QED
    BY <1>2, <1>7, <2>3, <2>4 DEF AdvancesTo
<1>8. QED
  BY <1>6, <1>7

\* The portal is asked nothing new, and has answered what it says on the bus.
LEMMA WorldAsksOnce ==
  ASSUME IInv, AskOnce, portal' = portal, pending' \subseteq pending,
         \/ bus' = bus \/ (bus # <<>> /\ bus' = Tail(bus))
         \/ \E m \in Messages :
              /\ bus' = Append(bus, m)
              /\ m.kind = "BindShortcuts" =>
                   <<m.of, "BindShortcuts">> \notin pending' /\ portal[m.of].state # "creating"
  PROVE  AskOnce'
<1> SUFFICES ASSUME NEW g \in Gens PROVE AsksOnce(g)'
  BY DEF AskOnce
<1>1. AsksOnce(g)
  BY DEF AskOnce
<1>2. /\ Creates(Now, g)' => Creates(Now, g)
      /\ Binds(Now, g)' => Binds(Now, g)
      /\ Binds(Now, g)' <=> <<g, "BindShortcuts">> \in pending'
  BY DEF Creates, Binds, Now
<1>3. ASSUME NEW i \in DOMAIN bus', bus'[i].kind = "BindShortcuts", bus'[i].of = g
      PROVE  ~Binds(Now, g)' /\ portal[g].state # "creating"
  <2>1. CASE bus' = bus \/ (bus # <<>> /\ bus' = Tail(bus))
    <3>1. PICK j \in DOMAIN bus : bus'[i] = bus[j]
      BY <2>1, BusShrinks
    <3>2. QED
      BY <1>1, <1>2, <1>3, <3>1 DEF AsksOnce
  <2>2. CASE \E m \in Messages :
               /\ bus' = Append(bus, m)
               /\ m.kind = "BindShortcuts" =>
                    <<m.of, "BindShortcuts">> \notin pending' /\ portal[m.of].state # "creating"
    <3>1. PICK m \in Messages :
                 /\ bus' = Append(bus, m)
                 /\ m.kind = "BindShortcuts" =>
                      <<m.of, "BindShortcuts">> \notin pending' /\ portal[m.of].state # "creating"
      BY <2>2
    <3>2. (i \in DOMAIN bus /\ bus'[i] = bus[i]) \/ bus'[i] = m
      BY <3>1, RegistrationTypes, AppendIndices
    <3>3. QED
      BY <1>1, <1>2, <1>3, <3>1, <3>2 DEF AsksOnce
  <2>3. QED
    BY <2>1, <2>2
<1>4. QED
  BY <1>1, <1>2, <1>3 DEF AsksOnce

\* No step has a backend that listens ask for its session or its keys again.
LEMMA NextAsksOnce ==
  ASSUME IInv, AskOnce, [Next]_vars
  PROVE  AskOnce'
<1>1. CASE Restart
  <2>1. bus' = bus
    BY <1>1 DEF Restart
  <2>2. QED
    BY <1>1, <2>1, RestartAges, AgeAsksOnce
<1>2. CASE HandleAnswer
  <2>1. bus # <<>> /\ bus' = Tail(bus)
    BY <1>2 DEF HandleAnswer
  <2>2. QED
    BY <1>2, <2>1, HandlingAges, AgeAsksOnce, AdvanceAsksOnce
<1>3. CASE \/ HandleSignal \/ RunPosted \/ TrayToggles \/ UNCHANGED vars
           \/ \E k \in Keys : ReadKeyEvent(k) \/ FlushRelease(k) \/ AutoRepeat(k)
  <2>1. /\ portal' = portal /\ pending' = pending
        /\ bus' = bus \/ (bus # <<>> /\ bus' = Tail(bus))
    BY <1>3 DEF HandleSignal, RunPosted, TrayToggles, ReadKeyEvent, FlushRelease, AutoRepeat, vars,
           service, registration
  <2>2. QED
    BY <2>1, WorldAsksOnce
<1>4. CASE PortalAnswers
  <2>1. PICK m \in Messages :
           /\ m.kind \in Kinds /\ m.of \in Gens /\ bus' = Append(bus, m)
           /\ <<m.of, m.kind>> \in pending /\ pending' = pending \ {<<m.of, m.kind>>}
    BY <1>4, AnswersWorld
  <2>2. portal' = portal
    BY <1>4 DEF PortalAnswers, registration
  <2>3. m.kind = "BindShortcuts" => Binds(Now, m.of)
    BY <2>1, NowIs DEF Binds
  <2>4. m.kind = "BindShortcuts" => portal[m.of].state # "creating"
    BY <2>1, <2>3, NowIs DEF IInv, RegInv, Created
  <2>5. QED
    BY <2>1, <2>2, <2>4, WorldAsksOnce
<1>5. CASE PortalCloses \/ PortalRestarts
  BY <1>5, FaultsWorld, WorldAsksOnce
<1>6. CASE \E k \in Keys : KeyDown(k) \/ KeyUp(k)
  <2>1. PICK k \in Keys, n \in Nat, type \in {"press", "release"},
             signal \in {"Activated", "Deactivated"} : KeyMoves(k, n, type, signal)
    BY <1>6, RegistrationTypes DEF KeyDown, KeyUp
  <2>2. portal' = portal /\ pending' = pending
    BY <2>1 DEF KeyMoves, registration, service
  <2>3. Signal(signal, held, k, n).kind # "BindShortcuts"
    BY DEF Signal
  <2>4. QED
    BY <2>1, <2>2, <2>3, KeySignals, WorldAsksOnce
<1>7. QED
  BY <1>1, <1>2, <1>3, <1>4, <1>5, <1>6 DEF Next

-----------------------------------------------------------------------------
(***************************************************************************)
(* What a press and a release do to the gestures                           *)
(***************************************************************************)
\* One controller of one list is set.
LEMMA ControllerSet ==
  ASSUME controller \in Controllers, NEW g \in Gens, NEW k \in Keys,
         NEW c \in [pressed : BOOLEAN, owns : BOOLEAN], controller' = [controller EXCEPT ![g][k] = c]
  PROVE  /\ controller' \in Controllers /\ controller'[g][k] = c
         /\ \A h \in Gens, j \in Keys : (h # g \/ j # k) => controller'[h][j] = controller[h][j]
<1> DEFINE d == [controller[g] EXCEPT ![k] = c]
<1>1. controller[g] \in [Keys -> [pressed : BOOLEAN, owns : BOOLEAN]]
  BY DEF Controllers
<1>2. d \in [Keys -> [pressed : BOOLEAN, owns : BOOLEAN]] /\ d[k] = c /\ \A j \in Keys : j # k => d[j] = controller[g][j]
  BY <1>1
<1>3. controller' = [controller EXCEPT ![g] = d]
  OBVIOUS
<1> HIDE DEF d
<1>4. QED
  BY <1>2, <1>3 DEF Controllers

\* A press acts at most once, for a list: it starts a recording that its
\* controller owns for push-to-talk, it stops the one that runs, or it leaves it.
LEMMA PressedDoes ==
  ASSUME GestureTypes, modeOf \in [Gens -> Modes], NEW g \in Gens, NEW k \in Keys,
         NEW n \in Presses, acted[n] = None, Pressed(g, k, n)
  PROVE  /\ GestureTypes'
         /\ \A j \in Presses : j # n => acted'[j] = acted[j]
         /\ acted'[n] \in {None, g}
         /\ \/ recording' = None
            \/ /\ recording' = recording
               /\ \A h \in Gens, j \in Keys : Owner(h, j)' <=> Owner(h, j)
            \/ /\ recording' = n /\ acted'[n] = g
               /\ modeOf[g] = "push-to-talk" => Owner(g, k)'
<1>1. CASE controller[g][k].pressed
  <2>1. UNCHANGED gesture
    BY <1>1 DEF Pressed
  <2>2. QED
    BY <2>1 DEF gesture, GestureTypes, Owner
<1>2. CASE ~controller[g][k].pressed
  <2> DEFINE c == [pressed |-> TRUE, owns |-> modeOf[g] = "push-to-talk" /\ recording = None]
  <2>1. /\ recording' \in IF recording = None THEN {n, None}
                          ELSE IF modeOf[g] = "toggle" THEN {None} ELSE {recording}
        /\ controller' = [controller EXCEPT ![g][k] = c]
        /\ IF recording # None /\ modeOf[g] = "push-to-talk"
           THEN UNCHANGED <<acted, twice>> ELSE Act(g, n)
    BY <1>2 DEF Pressed
  <2>2. c \in [pressed : BOOLEAN, owns : BOOLEAN] /\ c.pressed = TRUE
        /\ c.owns = (modeOf[g] = "push-to-talk" /\ recording = None)
    OBVIOUS
  <2> HIDE DEF c
  <2>3. /\ controller' \in Controllers /\ controller'[g][k] = c
        /\ \A h \in Gens, j \in Keys : (h # g \/ j # k) => controller'[h][j] = controller[h][j]
    <3>1. controller \in Controllers /\ controller' = [controller EXCEPT ![g][k] = c]
      BY <2>1 DEF GestureTypes
    <3>2. c \in [pressed : BOOLEAN, owns : BOOLEAN]
      BY <2>2
    <3>3. QED
      BY <3>1, <3>2, ControllerSet
  <2>4. g \in Nat /\ acted \in [Presses -> Nat] /\ modeOf[g] \in {"toggle", "push-to-talk"}
    BY Constants DEF GestureTypes, Modes
  <2>5. /\ acted' \in [Presses -> Nat] /\ twice' = FALSE /\ acted'[n] \in {None, g}
        /\ \A j \in Presses : j # n => acted'[j] = acted[j]
        /\ ~(recording # None /\ modeOf[g] = "push-to-talk") => acted'[n] = g
    BY <2>1, <2>4 DEF Act, GestureTypes
  <2>6. recording' \in {None, Tray} \cup Presses
    BY <2>1 DEF GestureTypes
  <2>7. CASE recording = None
    <3>1. modeOf[g] = "push-to-talk" => Owner(g, k)'
      <4>1. Owner(g, k)' <=> controller'[g][k].pressed /\ controller'[g][k].owns
        BY DEF Owner
      <4>2. QED
        BY <2>2, <2>3, <2>7, <4>1
    <3>2. QED
      BY <2>1, <2>3, <2>5, <2>6, <2>7, <3>1 DEF GestureTypes
  <2>8. CASE recording # None /\ modeOf[g] = "toggle"
    BY <2>1, <2>3, <2>5, <2>6, <2>8 DEF GestureTypes
  <2>9. CASE recording # None /\ modeOf[g] = "push-to-talk"
    <3>1. \A h \in Gens, j \in Keys : Owner(h, j)' <=> Owner(h, j)
      <4>1. Owner(g, k)' <=> Owner(g, k)
        BY <1>2, <2>2, <2>3, <2>9 DEF Owner
      <4>2. \A h \in Gens, j \in Keys : (h # g \/ j # k) => (Owner(h, j)' <=> Owner(h, j))
        BY <2>3 DEF Owner
      <4>3. QED
        BY <4>1, <4>2
    <3>2. QED
      BY <2>1, <2>3, <2>5, <2>6, <2>9, <3>1 DEF GestureTypes
  <2>10. QED
    BY <2>4, <2>7, <2>8, <2>9
<1>3. QED
  BY <1>1, <1>2

\* The controllers of list g after keys S were released.
LEMMA AfterReleaseIs ==
  ASSUME controller \in Controllers, NEW g \in Gens, NEW S, controller' = AfterRelease(g, S)
  PROVE  /\ controller' \in Controllers
         /\ \A h \in Gens, j \in Keys : h # g \/ j \notin S => controller'[h][j] = controller[h][j]
         /\ \A j \in Keys : j \in S => controller'[g][j] = Released
<1> DEFINE d == [j \in Keys |-> IF j \in S THEN Released ELSE controller[g][j]]
<1>1. controller[g] \in [Keys -> [pressed : BOOLEAN, owns : BOOLEAN]]
  BY DEF Controllers
<1>2. Released \in [pressed : BOOLEAN, owns : BOOLEAN]
  BY DEF Released
<1>3. d \in [Keys -> [pressed : BOOLEAN, owns : BOOLEAN]]
      /\ \A j \in Keys : d[j] = IF j \in S THEN Released ELSE controller[g][j]
  BY <1>1, <1>2
<1>4. controller' = [controller EXCEPT ![g] = d]
  BY DEF AfterRelease
<1> HIDE DEF d
<1>5. QED
  BY <1>3, <1>4 DEF Controllers

\* A release of key k in list g stops the recording it owns for push-to-talk.
LEMMA ReleaseDoes ==
  ASSUME GestureTypes, NEW g \in Gens, NEW k \in Keys, Release(g, k)
  PROVE  /\ GestureTypes' /\ acted' = acted
         /\ recording' \in {recording, None}
         /\ \A h \in Gens, j \in Keys : h # g \/ j # k => (Owner(h, j)' <=> Owner(h, j))
         /\ modeOf[g] = "push-to-talk" /\ Owner(g, k) => recording' = None
<1>1. controller' = AfterRelease(g, {k}) /\ UNCHANGED <<acted, twice>>
      /\ recording' = IF StopsOnRelease(g, {k}) THEN None ELSE recording
  BY DEF Release
<1>2. /\ controller' \in Controllers
      /\ \A h \in Gens, j \in Keys : h # g \/ j \notin {k} => controller'[h][j] = controller[h][j]
  BY <1>1, AfterReleaseIs DEF GestureTypes
<1>3. \A h \in Gens, j \in Keys : h # g \/ j # k => (Owner(h, j)' <=> Owner(h, j))
  BY <1>2 DEF Owner
<1>4. modeOf[g] = "push-to-talk" /\ Owner(g, k) => StopsOnRelease(g, {k})
  BY DEF StopsOnRelease, Owner
<1>5. QED
  BY <1>1, <1>2, <1>3, <1>4 DEF GestureTypes

\* A signal names the key and the press.
LEMMA SignalHasKey ==
  ASSUME NEW m \in Messages, m.kind \in {"Activated", "Deactivated"}
  PROVE  m.key \in Keys /\ m.press \in Nat /\ m.of \in Gens
  BY DEF Messages, Kinds

\* A signal is a gesture of the backend that is ready and listed the shortcut.
Mine(m) ==
  portal[m.of].state = "ready" /\ portal[m.of].session /\ m.key \in portal[m.of].bindings

\* What the Qt thread does with a signal.
LEMMA HandlingSignal ==
  ASSUME IInv, PressesWaitOnce, HandleSignal, NEW m, m = bus[1]
  PROVE  /\ bus # <<>> /\ bus' = Tail(bus) /\ 1 \in DOMAIN bus
         /\ m \in Messages /\ m.of \in Gens /\ m.of <= gens /\ m.key \in Keys
         /\ UNCHANGED <<registration, pending, open, granted, keyboard, xevents, grab, posted>>
         /\ \/ /\ m.kind = "Activated" /\ Mine(m) /\ Pressed(m.of, m.key, m.press)
               /\ m.press \in Presses /\ m.press <= presses /\ acted[m.press] = None
            \/ /\ m.kind = "Activated" /\ ~Mine(m) /\ UNCHANGED gesture
            \/ /\ m.kind = "Deactivated" /\ Mine(m) /\ modeOf[m.of] = "push-to-talk"
               /\ Release(m.of, m.key)
            \/ /\ m.kind = "Deactivated" /\ ~(Mine(m) /\ modeOf[m.of] = "push-to-talk")
               /\ UNCHANGED gesture
<1>1. bus # <<>> /\ bus' = Tail(bus) /\ Head(bus).kind \in {"Activated", "Deactivated"}
      /\ UNCHANGED <<registration, pending, open, granted, keyboard, xevents, grab, posted>>
  BY DEF HandleSignal, service
<1>2. bus \in Seq(Messages) /\ Head(bus) = m /\ 1 \in DOMAIN bus /\ m \in Messages
  BY <1>1, RegistrationTypes
<1>3. m.of <= gens
  BY <1>2, RegistrationTypes
<1>4. m.key \in Keys /\ m.press \in Nat /\ m.of \in Gens
  BY <1>1, <1>2, SignalHasKey
<1>5. m.kind = "Activated" => m.press \in Presses /\ m.press <= presses /\ acted[m.press] = None
  <2>1. m.kind = "Activated" => InBus(1, m.press)
    BY <1>2 DEF InBus
  <2>2. PressWaitsOnce(m.press)
    BY <1>4 DEF PressesWaitOnce
  <2>3. QED
    BY <2>1, <2>2 DEF PressWaitsOnce, Unused
<1>6. CASE m.kind = "Activated" /\ Mine(m)
  <2>1. Pressed(m.of, m.key, m.press)
    BY <1>2, <1>6 DEF HandleSignal, Mine
  <2>2. QED
    BY <1>1, <1>2, <1>3, <1>4, <1>5, <1>6, <2>1
<1>7. CASE m.kind = "Deactivated" /\ Mine(m) /\ modeOf[m.of] = "push-to-talk"
  <2>1. Release(m.of, m.key)
    BY <1>2, <1>7 DEF HandleSignal, Mine
  <2>2. QED
    BY <1>1, <1>2, <1>3, <1>4, <1>7, <2>1
<1>8. CASE \/ m.kind = "Activated" /\ ~Mine(m)
           \/ m.kind = "Deactivated" /\ ~(Mine(m) /\ modeOf[m.of] = "push-to-talk")
  <2>1. UNCHANGED gesture
    BY <1>2, <1>8 DEF HandleSignal, Mine
  <2>2. QED
    BY <1>1, <1>2, <1>3, <1>4, <1>8, <2>1
<1>9. QED
  BY <1>1, <1>2, <1>6, <1>7, <1>8

\* What the Qt thread does with an edge of the grab threads.
LEMMA RunningPosted ==
  ASSUME GrabTypes, PressesWaitOnce, RunPosted, NEW e, e = posted[1]
  PROVE  /\ posted # <<>> /\ posted' = Tail(posted) /\ 1 \in DOMAIN posted
         /\ e \in Edges /\ e.of \in Gens /\ e.key \in Keys
         /\ UNCHANGED <<registration, pending, open, granted, bus, keyboard, xevents, grab>>
         /\ \/ /\ e.edge = "pressed" /\ Pressed(e.of, e.key, e.press)
               /\ e.press \in Presses /\ e.press <= presses /\ acted[e.press] = None
            \/ e.edge = "released" /\ Release(e.of, e.key)
<1>1. posted # <<>> /\ posted' = Tail(posted)
      /\ UNCHANGED <<registration, pending, open, granted, bus, keyboard, xevents, grab>>
  BY DEF RunPosted, service
<1>2. posted \in Seq(Edges) /\ Head(posted) = e /\ 1 \in DOMAIN posted /\ e \in Edges
  BY <1>1 DEF GrabTypes
<1>3. e.key \in Keys /\ e.press \in Nat /\ e.of \in Gens /\ e.edge \in {"pressed", "released"}
  BY <1>2 DEF Edges
<1>4. e.edge = "pressed" => e.press \in Presses /\ e.press <= presses /\ acted[e.press] = None
  <2>1. e.edge = "pressed" => InPosted(1, e.press)
    BY <1>2 DEF InPosted
  <2>2. PressWaitsOnce(e.press)
    BY <1>3 DEF PressesWaitOnce
  <2>3. QED
    BY <2>1, <2>2 DEF PressWaitsOnce, Unused
<1>5. IF e.edge = "pressed" THEN Pressed(e.of, e.key, e.press) ELSE Release(e.of, e.key)
  BY <1>2 DEF RunPosted
<1>6. QED
  BY <1>1, <1>2, <1>3, <1>4, <1>5

-----------------------------------------------------------------------------
(***************************************************************************)
(* The types of the keyboard, the grabs and the gestures                   *)
(***************************************************************************)
\* A replacement gives the grabs back and may stop the recording their key owns.
LEMMA Restarted ==
  ASSUME IInv, GestureTypes, Restart
  PROVE  /\ GestureTypes' /\ acted' = acted /\ recording' \in {recording, None}
         /\ UNCHANGED <<granted, bus, down, seized, presses, posted>>
         /\ xevents' = [k \in Keys |-> <<>>] /\ grab' = [k \in Keys |-> Loose]
         /\ \A g \in Gens, k \in Keys : g # x11 => (Owner(g, k)' <=> Owner(g, k))
         /\ x11 # None /\ modeOf[x11] = "push-to-talk"
              /\ (\E k \in Keys : Owner(x11, k) /\ grab[k].active # None) => recording' = None
<1>1. /\ UNCHANGED <<granted, bus, down, seized, presses, posted, acted, twice>>
      /\ xevents' = [k \in Keys |-> <<>>] /\ grab' = [k \in Keys |-> Loose]
  BY DEF Restart, keyboard
<1>2. CASE x11 = None
  <2>1. UNCHANGED <<controller, recording>>
    BY <1>2 DEF Restart
  <2>2. QED
    BY <1>1, <1>2, <2>1 DEF GestureTypes, Owner
<1>3. CASE x11 # None
  <2>1. x11 \in Gens
    BY <1>3, RegistrationTypes, Constants DEF Gens, None
  <2>2. /\ controller' = AfterRelease(x11, Keys)
        /\ recording' = IF StopsOnRelease(x11, {k \in Keys : grab[k].active # None}) THEN None ELSE recording
    BY <1>3 DEF Restart
  <2>3. /\ controller' \in Controllers
        /\ \A h \in Gens, j \in Keys : h # x11 \/ j \notin Keys => controller'[h][j] = controller[h][j]
    BY <2>1, <2>2, AfterReleaseIs DEF GestureTypes
  <2>4. \A g \in Gens, k \in Keys : g # x11 => (Owner(g, k)' <=> Owner(g, k))
    BY <2>3 DEF Owner
  <2>5. modeOf[x11] = "push-to-talk" /\ (\E k \in Keys : Owner(x11, k) /\ grab[k].active # None)
          => recording' = None
    BY <2>2 DEF StopsOnRelease, Owner
  <2>6. recording' \in {recording, None}
    BY <2>2
  <2>7. QED
    BY <1>1, <2>3, <2>4, <2>5, <2>6 DEF GestureTypes
<1>4. QED
  BY <1>2, <1>3

\* The types of the gestures are kept, and no press acts twice.
LEMMA NextGestureTypes ==
  ASSUME IInv, GestureTypes, GrabTypes, PressesWaitOnce, [Next]_vars
  PROVE  GestureTypes'
<1>1. CASE Restart
  BY <1>1, Restarted
<1>2. CASE HandleSignal
  <2> DEFINE m == bus[1]
  <2>1. \/ /\ m.of \in Gens /\ m.key \in Keys /\ Pressed(m.of, m.key, m.press)
           /\ m.press \in Presses /\ acted[m.press] = None
        \/ UNCHANGED gesture
        \/ m.of \in Gens /\ m.key \in Keys /\ Release(m.of, m.key)
    BY <1>2, HandlingSignal
  <2> HIDE DEF m
  <2>2. CASE /\ m.of \in Gens /\ m.key \in Keys /\ Pressed(m.of, m.key, m.press)
             /\ m.press \in Presses /\ acted[m.press] = None
    BY <2>2, RegistrationTypes, PressedDoes
  <2>3. CASE m.of \in Gens /\ m.key \in Keys /\ Release(m.of, m.key)
    BY <2>3, ReleaseDoes
  <2>4. CASE UNCHANGED gesture
    BY <2>4 DEF gesture, GestureTypes
  <2>5. QED
    BY <2>1, <2>2, <2>3, <2>4
<1>3. CASE RunPosted
  <2> DEFINE e == posted[1]
  <2>1. \/ /\ e.of \in Gens /\ e.key \in Keys /\ Pressed(e.of, e.key, e.press)
           /\ e.press \in Presses /\ acted[e.press] = None
        \/ e.of \in Gens /\ e.key \in Keys /\ Release(e.of, e.key)
    BY <1>3, RunningPosted
  <2> HIDE DEF e
  <2>2. CASE /\ e.of \in Gens /\ e.key \in Keys /\ Pressed(e.of, e.key, e.press)
             /\ e.press \in Presses /\ acted[e.press] = None
    BY <2>2, RegistrationTypes, PressedDoes
  <2>3. CASE e.of \in Gens /\ e.key \in Keys /\ Release(e.of, e.key)
    BY <2>3, ReleaseDoes
  <2>4. QED
    BY <2>1, <2>2, <2>3
<1>4. CASE TrayToggles
  BY <1>4 DEF TrayToggles, GestureTypes
<1>5. CASE \/ HandleAnswer \/ PortalAnswers \/ PortalCloses \/ PortalRestarts \/ UNCHANGED vars
           \/ \E k \in Keys : \/ ReadKeyEvent(k) \/ FlushRelease(k) \/ AutoRepeat(k)
                              \/ KeyDown(k) \/ KeyUp(k)
  <2>1. UNCHANGED gesture
    BY <1>5 DEF HandleAnswer, PortalAnswers, PortalCloses, PortalRestarts, vars, ReadKeyEvent,
           FlushRelease, AutoRepeat, KeyDown, KeyUp, KeyMoves
  <2>2. QED
    BY <2>1 DEF gesture, GestureTypes
<1>6. QED
  BY <1>1, <1>2, <1>3, <1>4, <1>5 DEF Next

-----------------------------------------------------------------------------
(***************************************************************************)
(* The grabs                                                               *)
(***************************************************************************)
\* The steps that neither a grab nor the keyboard takes part in.
GrabsKept == UNCHANGED <<x11, gens, presses, down, seized, grab, xevents>>

\* These steps leave the grabs and the keyboard alone.
LEMMA OtherGrabs ==
  ASSUME \/ HandleSignal \/ RunPosted \/ TrayToggles \/ UNCHANGED vars
         \/ PortalAnswers \/ PortalCloses \/ PortalRestarts
  PROVE  GrabsKept
  BY DEF HandleSignal, RunPosted, TrayToggles, PortalAnswers, PortalCloses, PortalRestarts, vars,
         keyboard, registration, GrabsKept

\* What a step of the registration does to the lists.
LEMMA ListsGrow ==
  ASSUME IInv, Restart \/ HandleAnswer
  PROVE  /\ gens' \in Nat /\ gens' >= gens
         /\ x11' = None \/ x11' > gens \/ (HandleAnswer /\ x11' = x11)
<1>1. gens' \in Nat
  <2>1. IInv'
    BY RestartKeeps, AnswerKeeps
  <2>2. QED
    BY <2>1, Fields, NowIs DEF IInv, RegInv, Fits, Now
<1>2. CASE Restart
  <2>1. PICK q : Become(q) /\ Ages(Now, q) /\ (q.x11 = None \/ q.x11 > gens)
    BY <1>2, RestartAges
  <2>2. QED
    BY <1>1, <2>1, NowIs DEF Become, Ages
<1>3. CASE HandleAnswer
  <2>1. PICK q : Become(q) /\ (Ages(Now, q) \/ Advances(bus[1], q))
    BY <1>3, HandlingAges
  <2>2. CASE Ages(Now, q)
    BY <1>1, <1>3, <2>1, <2>2, NowIs DEF Become, Ages
  <2>3. CASE Advances(bus[1], q)
    BY <1>3, <2>1, <2>3, RegistrationTypes DEF Become, Advances, AdvancesTo
  <2>4. QED
    BY <2>1, <2>2, <2>3
<1>4. QED
  BY <1>2, <1>3

\* So does an answer, but for the list that the grabs serve.
LEMMA HandlingGrabs ==
  ASSUME HandleAnswer
  PROVE  UNCHANGED <<presses, down, seized, grab, xevents, posted>>
  BY DEF HandleAnswer, keyboard

\* The keyboard sends a stroke to the grab that the press activated.
LEMMA KeyStrokes ==
  ASSUME IInv, GrabTypes, NEW k \in Keys, NEW n \in Nat \ {None}, NEW type \in {"press", "release"},
         NEW signal, KeyMoves(k, n, type, signal)
  PROVE  /\ UNCHANGED <<x11, gens, grab, posted>>
         /\ \A j \in Keys : j # k => xevents'[j] = xevents[j]
         /\ xevents' \in [Keys -> Seq(Strokes)]
         /\ (x11 = None \/ seized'[k] # x11) => xevents'[k] = xevents[k]
         /\ (x11 # None /\ seized'[k] = x11) =>
              xevents'[k] = Append(xevents[k], [type |-> type, press |-> n])
<1> DEFINE stroke == [type |-> type, press |-> n]
<1>1. stroke \in Strokes /\ xevents \in [Keys -> Seq(Strokes)]
  BY DEF Strokes, GrabTypes
<1>2. Append(xevents[k], stroke) \in Seq(Strokes)
  BY <1>1
<1>3. /\ UNCHANGED <<x11, gens, grab, posted>>
      /\ xevents' = IF x11 = None \/ seized'[k] # x11 THEN xevents
                    ELSE [xevents EXCEPT ![k] = Append(xevents[k], stroke)]
  BY DEF KeyMoves, registration
<1> HIDE DEF stroke
<1>4. CASE x11 = None \/ seized'[k] # x11
  BY <1>1, <1>3, <1>4
<1>5. CASE ~(x11 = None \/ seized'[k] # x11)
  <2>1. xevents' = [xevents EXCEPT ![k] = Append(xevents[k], stroke)]
    BY <1>3, <1>5
  <2>2. QED
    BY <1>1, <1>2, <1>3, <1>5, <2>1 DEF stroke
<1>6. QED
  BY <1>4, <1>5

\* The three steps of a key.
LEMMA KeyDownDoes ==
  ASSUME IInv, GrabTypes, NEW k \in Keys, KeyDown(k), NEW n, n = presses + 1
  PROVE  /\ n \in Presses /\ down[k] = None /\ presses' = n
         /\ down' = [down EXCEPT ![k] = n] /\ seized' = [seized EXCEPT ![k] = x11]
         /\ KeyMoves(k, n, "press", "Activated")
<1>1. presses \in Nat /\ MaxPresses \in Nat /\ presses < MaxPresses
  BY RegistrationTypes, Constants DEF KeyDown
<1>2. QED
  BY <1>1 DEF KeyDown, Presses

\* A key goes up.
LEMMA KeyUpDoes ==
  ASSUME IInv, GrabTypes, NEW k \in Keys, KeyUp(k), NEW n, n = down[k]
  PROVE  /\ n \in Nat \ {None} /\ presses' = presses
         /\ down' = [down EXCEPT ![k] = None] /\ seized' = seized
         /\ KeyMoves(k, n, "release", "Deactivated")
  BY RegistrationTypes DEF KeyUp

\* A held key repeats as a release and a press.
LEMMA AutoRepeatDoes ==
  ASSUME IInv, GrabTypes, NEW k \in Keys, AutoRepeat(k)
  PROVE  /\ Grasped(k)
         /\ UNCHANGED <<x11, gens, grab, posted, bus, presses, down, seized>>
         /\ xevents' \in [Keys -> Seq(Strokes)]
         /\ \A j \in Keys : j # k => xevents'[j] = xevents[j]
         /\ \E r, p \in Strokes : /\ p.type = "press"
                                  /\ xevents'[k] = Append(Append(xevents[k], r), p)
<1> DEFINE r == [type |-> "release", press |-> down[k]]
           p == [type |-> "press", press |-> down[k]]
<1>1. down[k] \in Nat \ {None} /\ Grasped(k)
      /\ UNCHANGED <<x11, gens, grab, posted, bus, presses, down, seized>>
  BY RegistrationTypes DEF AutoRepeat, registration, Grasped
<1>2. r \in Strokes /\ p \in Strokes /\ p.type = "press" /\ xevents \in [Keys -> Seq(Strokes)]
  BY <1>1 DEF Strokes, GrabTypes
<1>3. xevents' = [xevents EXCEPT ![k] = xevents[k] \o <<r, p>>]
  BY DEF AutoRepeat
<1> HIDE DEF r, p
<1>4. xevents[k] \o <<r, p>> = Append(Append(xevents[k], r), p)
      /\ xevents[k] \o <<r, p>> \in Seq(Strokes)
  BY <1>2
<1>5. xevents'[k] = Append(Append(xevents[k], r), p) /\ \A j \in Keys : j # k => xevents'[j] = xevents[j]
  BY <1>2, <1>3, <1>4
<1>6. xevents' \in [Keys -> Seq(Strokes)]
  BY <1>2, <1>3, <1>4
<1>7. QED
  BY <1>1, <1>2, <1>5, <1>6

\* What the thread of a grab makes of the event it reads.
LEMMA ReadDoes ==
  ASSUME IInv, GrabTypes, NEW k \in Keys, ReadKeyEvent(k), NEW e, e = xevents[k][1]
  PROVE  /\ x11 # None /\ xevents[k] # <<>> /\ e \in Strokes
         /\ UNCHANGED <<x11, gens, presses, down, seized, bus>>
         /\ xevents' \in [Keys -> Seq(Strokes)] /\ xevents'[k] = Tail(xevents[k])
         /\ \A j \in Keys : j # k => xevents'[j] = xevents[j] /\ grab'[j] = grab[j]
         /\ grab' \in [Keys -> [active : Nat, deadline : BOOLEAN]]
         /\ \/ /\ e.type = "press" /\ grab[k].deadline /\ posted' = posted
               /\ grab'[k].active = grab[k].active /\ ~grab'[k].deadline
            \/ /\ e.type = "press" /\ ~grab[k].deadline /\ grab[k].active = None
               /\ grab'[k].active = e.press /\ grab'[k].deadline = grab[k].deadline
               /\ posted' = Append(posted, [edge |-> "pressed", of |-> x11, key |-> k, press |-> e.press])
            \/ /\ e.type = "release" /\ grab[k].active # None /\ posted' = posted
               /\ grab'[k].active = grab[k].active /\ grab'[k].deadline
            \/ /\ e.type = "release" /\ grab[k].active = None /\ posted' = posted
               /\ grab'[k] = grab[k]
            \/ /\ e.type = "press" /\ ~grab[k].deadline /\ grab[k].active # None /\ posted' = posted
               /\ grab'[k] = grab[k]
<1>1. x11 # None /\ xevents[k] # <<>> /\ UNCHANGED <<x11, gens, presses, down, seized, bus>>
  BY DEF ReadKeyEvent, registration, keyboard
<1>2. /\ xevents \in [Keys -> Seq(Strokes)] /\ grab \in [Keys -> [active : Nat, deadline : BOOLEAN]]
  BY DEF GrabTypes
<1>3. Head(xevents[k]) = e /\ e \in Strokes /\ Tail(xevents[k]) \in Seq(Strokes)
  BY <1>1, <1>2
<1>4. e.type \in {"press", "release"} /\ e.press \in Nat
  BY <1>3 DEF Strokes
<1>5. xevents' = [xevents EXCEPT ![k] = Tail(xevents[k])]
  BY DEF ReadKeyEvent
<1>6. /\ xevents' \in [Keys -> Seq(Strokes)] /\ xevents'[k] = Tail(xevents[k])
      /\ \A j \in Keys : j # k => xevents'[j] = xevents[j]
  BY <1>2, <1>3, <1>5
<1>7. CASE e.type = "press" /\ grab[k].deadline
  <2>1. grab' = [grab EXCEPT ![k].deadline = FALSE] /\ posted' = posted
    BY <1>3, <1>7 DEF ReadKeyEvent
  <2>2. QED
    BY <1>1, <1>2, <1>3, <1>6, <1>7, <2>1
<1>8. CASE e.type = "press" /\ ~grab[k].deadline /\ grab[k].active = None
  <2>1. /\ grab' = [grab EXCEPT ![k].active = e.press]
        /\ posted' = Append(posted, [edge |-> "pressed", of |-> x11, key |-> k, press |-> e.press])
    BY <1>3, <1>8 DEF ReadKeyEvent
  <2>2. QED
    BY <1>1, <1>2, <1>3, <1>4, <1>6, <1>8, <2>1
<1>9. CASE e.type = "release" /\ grab[k].active # None
  <2>1. grab' = [grab EXCEPT ![k].deadline = TRUE] /\ posted' = posted
    BY <1>3, <1>9 DEF ReadKeyEvent
  <2>2. QED
    BY <1>1, <1>2, <1>3, <1>6, <1>9, <2>1
<1>10. CASE \/ e.type = "release" /\ grab[k].active = None
            \/ e.type = "press" /\ ~grab[k].deadline /\ grab[k].active # None
  <2>1. grab' = grab /\ posted' = posted
    BY <1>3, <1>10 DEF ReadKeyEvent
  <2>2. QED
    BY <1>1, <1>2, <1>3, <1>6, <1>10, <2>1
<1>11. QED
  BY <1>4, <1>7, <1>8, <1>9, <1>10

\* A grab whose delay passed is at rest and its release is an edge.
LEMMA FlushDoes ==
  ASSUME GrabTypes, NEW k \in Keys, FlushRelease(k)
  PROVE  /\ x11 # None /\ xevents[k] = <<>> /\ grab[k].deadline
         /\ UNCHANGED <<x11, gens, presses, down, seized, bus, xevents>>
         /\ grab' \in [Keys -> [active : Nat, deadline : BOOLEAN]] /\ grab'[k] = Loose
         /\ \A j \in Keys : j # k => grab'[j] = grab[j]
         /\ posted' = Append(posted, [edge |-> "released", of |-> x11, key |-> k,
                                      press |-> grab[k].active])
<1>1. Loose \in [active : Nat, deadline : BOOLEAN]
  BY Constants DEF Loose
<1>2. grab' = [grab EXCEPT ![k] = Loose]
  BY DEF FlushRelease
<1>3. QED
  BY <1>1, <1>2 DEF FlushRelease, GrabTypes, registration, keyboard

\* The edge that such a grab posts.
LEMMA FlushPosts ==
  ASSUME IInv, GrabTypes, NEW k \in Keys, FlushRelease(k)
  PROVE  \E e \in Edges : /\ e.edge = "released" /\ e.of = x11 /\ e.key = k
                         /\ posted' = Append(posted, e)
<1>1. PICK e : e = [edge |-> "released", of |-> x11, key |-> k, press |-> grab[k].active]
  OBVIOUS
<1>2. x11 # None /\ posted' = Append(posted, e)
  BY <1>1 DEF FlushRelease
<1>3. x11 \in Gens /\ grab[k].active \in Nat
  BY <1>2, RegistrationTypes, Constants DEF Gens, None, GrabTypes
<1>4. e \in Edges
  BY <1>1, <1>3 DEF Edges
<1>5. QED
  BY <1>1, <1>2, <1>4

\* The types of the grabs and the keyboard are kept.
LEMMA NextGrabTypes ==
  ASSUME IInv, GrabTypes, [Next]_vars
  PROVE  GrabTypes'
<1>1. /\ presses \in Nat /\ down \in [Keys -> Nat] /\ x11 \in Nat /\ x11 <= gens /\ gens \in Nat
      /\ gens <= MaxGen /\ MaxGen \in Nat
  BY RegistrationTypes, Constants
<1>2. CASE Restart
  <2>1. gens' \in Nat /\ gens' >= gens
    BY <1>2, ListsGrow
  <2>2. /\ UNCHANGED <<presses, down, seized, posted>>
        /\ xevents' = [k \in Keys |-> <<>>] /\ grab' = [k \in Keys |-> Loose]
    BY <1>2 DEF Restart, keyboard
  <2>3. <<>> \in Seq(Strokes) /\ Loose \in [active : Nat, deadline : BOOLEAN]
    BY Constants DEF Loose
  <2>4. \A k \in Keys : seized[k] <= gens'
    BY <1>1, <2>1 DEF GrabTypes
  <2>5. QED
    BY <2>2, <2>3, <2>4 DEF GrabTypes
<1>3. CASE HandleAnswer
  <2>1. gens' \in Nat /\ gens' >= gens
    BY <1>3, ListsGrow
  <2>2. \A k \in Keys : seized[k] <= gens'
    BY <1>1, <2>1 DEF GrabTypes
  <2>3. QED
    BY <1>3, <2>2, HandlingGrabs DEF GrabTypes
<1>4. CASE RunPosted
  <2>1. posted' = Tail(posted) /\ posted # <<>> /\ GrabsKept
    BY <1>4, OtherGrabs DEF RunPosted
  <2>2. posted \in Seq(Edges)
    BY DEF GrabTypes
  <2>3. posted' \in Seq(Edges)
    BY <2>1, <2>2
  <2>4. QED
    BY <2>1, <2>3 DEF GrabTypes, GrabsKept
<1>5. CASE \/ HandleSignal \/ TrayToggles \/ UNCHANGED vars
           \/ PortalAnswers \/ PortalCloses \/ PortalRestarts
  <2>1. posted' = posted
    BY <1>5 DEF HandleSignal, TrayToggles, vars, PortalAnswers, PortalCloses, PortalRestarts
  <2>2. QED
    BY <1>5, <2>1, OtherGrabs DEF GrabTypes, GrabsKept
<1>6. ASSUME NEW k \in Keys, ReadKeyEvent(k) PROVE GrabTypes'
  <2> DEFINE e == xevents[k][1]
             edge == [edge |-> "pressed", of |-> x11, key |-> k, press |-> e.press]
  <2>1. /\ x11 # None /\ e \in Strokes /\ UNCHANGED <<x11, gens, presses, down, seized>>
        /\ xevents' \in [Keys -> Seq(Strokes)]
        /\ grab' \in [Keys -> [active : Nat, deadline : BOOLEAN]]
        /\ posted' = posted \/ posted' = Append(posted, edge)
    BY <1>6, ReadDoes
  <2>2. edge \in Edges
    BY <1>1, <2>1 DEF Edges, Strokes, Gens, None
  <2>3. posted \in Seq(Edges)
    BY DEF GrabTypes
  <2> HIDE DEF edge, e
  <2>4. posted' \in Seq(Edges)
    <3>1. Append(posted, edge) \in Seq(Edges)
      BY <2>2, <2>3
    <3>2. QED
      BY <2>1, <2>3, <3>1
  <2>5. QED
    BY <2>1, <2>4 DEF GrabTypes
<1>7. ASSUME NEW k \in Keys, FlushRelease(k) PROVE GrabTypes'
  <2> DEFINE edge == [edge |-> "released", of |-> x11, key |-> k, press |-> grab[k].active]
  <2>1. /\ x11 # None /\ UNCHANGED <<x11, gens, presses, down, seized, xevents>>
        /\ grab' \in [Keys -> [active : Nat, deadline : BOOLEAN]]
        /\ posted' = Append(posted, edge)
    BY <1>7, FlushDoes
  <2>2. edge \in Edges
    BY <1>1, <2>1 DEF Edges, GrabTypes, Gens, None
  <2>3. posted \in Seq(Edges)
    BY DEF GrabTypes
  <2> HIDE DEF edge
  <2>4. posted' \in Seq(Edges)
    BY <2>1, <2>2, <2>3
  <2>5. QED
    BY <2>1, <2>4 DEF GrabTypes
<1>8. ASSUME NEW k \in Keys, KeyDown(k) PROVE GrabTypes'
  <2>1. /\ presses + 1 \in Presses /\ presses' = presses + 1
        /\ down' = [down EXCEPT ![k] = presses + 1] /\ seized' = [seized EXCEPT ![k] = x11]
        /\ KeyMoves(k, presses + 1, "press", "Activated")
    BY <1>8, KeyDownDoes
  <2>2. /\ UNCHANGED <<x11, gens, grab, posted>> /\ xevents' \in [Keys -> Seq(Strokes)]
    <3>1. presses + 1 \in Nat \ {None}
      BY <1>1 DEF None
    <3>2. QED
      BY <2>1, <3>1, KeyStrokes
  <2>3. presses' <= MaxPresses /\ \A j \in Keys : down'[j] <= presses'
    BY <1>1, <2>1 DEF GrabTypes, Presses
  <2>4. seized' \in [Keys -> Nat] /\ \A j \in Keys : seized'[j] <= gens
    BY <1>1, <2>1 DEF GrabTypes
  <2>5. QED
    BY <2>2, <2>3, <2>4 DEF GrabTypes
<1>9. ASSUME NEW k \in Keys, KeyUp(k) PROVE GrabTypes'
  <2>1. /\ down[k] \in Nat \ {None} /\ presses' = presses
        /\ down' = [down EXCEPT ![k] = None] /\ seized' = seized
        /\ KeyMoves(k, down[k], "release", "Deactivated")
    BY <1>9, KeyUpDoes
  <2>2. /\ UNCHANGED <<x11, gens, grab, posted>> /\ xevents' \in [Keys -> Seq(Strokes)]
    BY <2>1, KeyStrokes
  <2>3. \A j \in Keys : down'[j] <= presses'
    BY <1>1, <2>1 DEF GrabTypes, None
  <2>4. QED
    BY <2>1, <2>2, <2>3 DEF GrabTypes
<1>10. ASSUME NEW k \in Keys, AutoRepeat(k) PROVE GrabTypes'
  BY <1>10, AutoRepeatDoes DEF GrabTypes
<1>11. QED
  BY <1>2, <1>3, <1>4, <1>5, <1>6, <1>7, <1>8, <1>9, <1>10 DEF Next

-----------------------------------------------------------------------------
(***************************************************************************)
(* The grabs agree with the keyboard                                       *)
(***************************************************************************)
LEMMA GrabSame ==
  ASSUME NEW j \in Keys, GrabAgrees(j), x11' = x11, xevents'[j] = xevents[j], grab'[j] = grab[j],
         down'[j] = down[j], seized'[j] = seized[j]
  PROVE  GrabAgrees(j)'
  BY DEF GrabAgrees, Grasped

\* A list of grabs that was just made holds no key.
LEMMA NewGrabs ==
  ASSUME IInv, GrabTypes, x11' = None \/ x11' > gens, seized' = seized, NEW k \in Keys
  PROVE  ~Grasped(k)'
<1>1. seized[k] \in Nat /\ seized[k] <= gens /\ gens \in Nat
  BY RegistrationTypes DEF GrabTypes
<1>2. QED
  BY <1>1 DEF Grasped

\* A stroke is the last of its grab; it is the first as well when it is a press
\* or when the grab holds the key.
LEMMA StrokeAgrees ==
  ASSUME GrabTypes, NEW k \in Keys, GrabAgrees(k), x11' = x11, x11 # None, grab'[k] = grab[k],
         NEW stroke \in Strokes, xevents'[k] = Append(xevents[k], stroke),
         stroke.type = "press" <=> Grasped(k)',
         stroke.type = "press" \/ Grasped(k)
  PROVE  GrabAgrees(k)'
<1>1. xevents[k] \in Seq(Strokes)
  BY DEF GrabTypes
<1>2. /\ xevents'[k] # <<>> /\ xevents'[k][Len(xevents'[k])] = stroke
      /\ xevents[k] # <<>> => xevents'[k][1] = xevents[k][1]
      /\ xevents[k] = <<>> => xevents'[k][1] = stroke
  BY <1>1
<1>3. QED
  BY <1>2 DEF GrabAgrees

\* A grab that reads an event still agrees with its key.
LEMMA ReadAgrees ==
  ASSUME IInv, GrabTypes, NEW k \in Keys, GrabAgrees(k), ReadKeyEvent(k)
  PROVE  GrabAgrees(k)'
<1> DEFINE e == xevents[k][1]
           rest == Tail(xevents[k])
<1>1. xevents[k] \in Seq(Strokes) /\ xevents[k] # <<>>
  BY ReadDoes DEF GrabTypes
<1>2. e.press # None /\ e.type \in {"press", "release"}
  <2>1. e \in Strokes
    BY ReadDoes
  <2>2. QED
    BY <2>1 DEF Strokes
<1>3. Grasped(k)' <=> Grasped(k)
  BY ReadDoes DEF Grasped
<1>4. /\ rest = <<>> => xevents[k][Len(xevents[k])] = e
      /\ rest # <<>> => rest[Len(rest)] = xevents[k][Len(xevents[k])]
  BY <1>1, SMTT(30)
<1>5. x11' = x11 /\ x11 # None /\ xevents'[k] = rest
  BY ReadDoes
<1>6. /\ grab[k].deadline => grab[k].active # None
      /\ grab[k].active = None => e.type = "press"
      /\ xevents[k][Len(xevents[k])].type = "press" <=> Grasped(k)
  BY <1>1 DEF GrabAgrees
<1>7. /\ grab'[k].deadline => grab'[k].active # None
      /\ grab'[k].active # None
      /\ grab'[k].deadline <=> e.type = "release"
  <2>1. \/ /\ e.type = "press" /\ grab[k].deadline
           /\ grab'[k].active = grab[k].active /\ ~grab'[k].deadline
        \/ /\ e.type = "press" /\ ~grab[k].deadline /\ grab[k].active = None
           /\ grab'[k].active = e.press /\ grab'[k].deadline = grab[k].deadline
        \/ /\ e.type = "release" /\ grab[k].active # None
           /\ grab'[k].active = grab[k].active /\ grab'[k].deadline
        \/ /\ e.type = "release" /\ grab[k].active = None /\ grab'[k] = grab[k]
        \/ /\ e.type = "press" /\ ~grab[k].deadline /\ grab[k].active # None /\ grab'[k] = grab[k]
    BY ReadDoes, ZenonT(60)
  <2>2. QED
    BY <1>2, <1>6, <2>1
<1> HIDE DEF e, rest
<1>8. QED
  BY <1>2, <1>3, <1>4, <1>5, <1>6, <1>7 DEF GrabAgrees

\* Every grab agrees with its key after every step.
LEMMA NextGrabsAgree ==
  ASSUME IInv, GrabTypes, GrabsAgree, [Next]_vars
  PROVE  GrabsAgree'
<1>1. CASE Restart
  <2>1. /\ xevents' = [k \in Keys |-> <<>>] /\ grab' = [k \in Keys |-> Loose] /\ seized' = seized
    BY <1>1 DEF Restart, keyboard
  <2>2. x11' = None \/ x11' > gens
    BY <1>1, RestartAges DEF Become
  <2>3. \A k \in Keys : ~Grasped(k)'
    BY <2>1, <2>2, NewGrabs
  <2>4. QED
    BY <2>1, <2>3 DEF GrabsAgree, GrabAgrees, Loose
<1>2. CASE HandleAnswer
  <2>1. UNCHANGED <<presses, down, seized, grab, xevents>>
    BY <1>2, HandlingGrabs
  <2>2. CASE x11' = x11
    BY <2>1, <2>2, GrabSame DEF GrabsAgree
  <2>3. CASE x11' # x11
    <3>1. x11 = None /\ (x11' = None \/ x11' > gens)
      BY <1>2, <2>3, X11HandlesNothing, ListsGrow
    <3>2. \A k \in Keys : ~Grasped(k)'
      BY <2>1, <3>1, NewGrabs
    <3>3. \A k \in Keys : xevents[k] = <<>> /\ grab[k] = Loose
      BY <3>1 DEF GrabsAgree, GrabAgrees
    <3>4. QED
      <4>1. \A k \in Keys : xevents'[k] = <<>> /\ grab'[k] = Loose
        BY <2>1, <3>3
      <4>2. Loose.active = None /\ Loose.deadline = FALSE
        BY DEF Loose
      <4>3. ASSUME NEW k \in Keys PROVE GrabAgrees(k)'
        BY <3>2, <4>1, <4>2 DEF GrabAgrees
      <4>4. QED
        BY <4>3 DEF GrabsAgree
  <2>4. QED
    BY <2>2, <2>3
<1>3. CASE \/ HandleSignal \/ RunPosted \/ TrayToggles \/ UNCHANGED vars
           \/ PortalAnswers \/ PortalCloses \/ PortalRestarts
  BY <1>3, OtherGrabs, GrabSame DEF GrabsKept, GrabsAgree
<1>4. ASSUME NEW k \in Keys, ReadKeyEvent(k) PROVE GrabsAgree'
  <2>1. GrabAgrees(k)'
    BY <1>4, ReadAgrees DEF GrabsAgree
  <2>2. /\ UNCHANGED <<x11, down, seized>>
        /\ \A j \in Keys : j # k => xevents'[j] = xevents[j] /\ grab'[j] = grab[j]
    BY <1>4, ReadDoes
  <2>3. QED
    BY <2>1, <2>2, GrabSame DEF GrabsAgree
<1>5. ASSUME NEW k \in Keys, FlushRelease(k) PROVE GrabsAgree'
  <2>1. /\ x11 # None /\ xevents[k] = <<>> /\ grab[k].deadline /\ grab'[k] = Loose
        /\ UNCHANGED <<x11, down, seized, xevents>>
        /\ \A j \in Keys : j # k => grab'[j] = grab[j]
    BY <1>5, FlushDoes
  <2>2. ~Grasped(k) /\ (Grasped(k)' <=> Grasped(k))
    BY <2>1 DEF GrabsAgree, GrabAgrees, Grasped
  <2>3. GrabAgrees(k)'
    BY <2>1, <2>2 DEF GrabAgrees, Loose
  <2>4. QED
    BY <2>1, <2>3, GrabSame DEF GrabsAgree
<1>6. ASSUME NEW k \in Keys, KeyDown(k) PROVE GrabsAgree'
  <2> DEFINE n == presses + 1
             stroke == [type |-> "press", press |-> n]
  <2>1. /\ n \in Presses /\ down[k] = None
        /\ down' = [down EXCEPT ![k] = n] /\ seized' = [seized EXCEPT ![k] = x11]
        /\ KeyMoves(k, n, "press", "Activated")
    BY <1>6, KeyDownDoes
  <2>2. n \in Nat \ {None} /\ stroke \in Strokes /\ stroke.type = "press"
    BY <2>1, Constants DEF Presses, None, Strokes
  <2>3. down \in [Keys -> Nat] /\ seized \in [Keys -> Nat]
    BY RegistrationTypes DEF GrabTypes
  <2> HIDE DEF n
  <2>4. /\ UNCHANGED <<x11, grab>>
        /\ \A j \in Keys : j # k => xevents'[j] = xevents[j]
        /\ (x11 = None \/ seized'[k] # x11) => xevents'[k] = xevents[k]
        /\ (x11 # None /\ seized'[k] = x11) => xevents'[k] = Append(xevents[k], stroke)
    BY <2>1, <2>2, KeyStrokes
  <2>5. GrabAgrees(k)'
    <3>1. CASE x11 = None
      <4>1. ~Grasped(k)' /\ ~Grasped(k)
        BY <2>4, <3>1 DEF Grasped
      <4>2. QED
        BY <2>4, <3>1, <4>1 DEF GrabsAgree, GrabAgrees
    <3>2. CASE x11 # None
      <4>1. Grasped(k)' /\ xevents'[k] = Append(xevents[k], stroke)
        BY <2>1, <2>2, <2>3, <2>4, <3>2 DEF Grasped
      <4> HIDE DEF stroke
      <4>2. QED
        BY <2>2, <2>4, <3>2, <4>1, StrokeAgrees DEF GrabsAgree
    <3>3. QED
      BY <3>1, <3>2
  <2>6. \A j \in Keys : j # k => down'[j] = down[j] /\ seized'[j] = seized[j]
    BY <2>1, <2>3
  <2>7. QED
    BY <2>4, <2>5, <2>6, GrabSame DEF GrabsAgree
<1>7. ASSUME NEW k \in Keys, KeyUp(k) PROVE GrabsAgree'
  <2> DEFINE n == down[k]
             stroke == [type |-> "release", press |-> n]
  <2>1. /\ n \in Nat \ {None}
        /\ down' = [down EXCEPT ![k] = None] /\ seized' = seized
        /\ KeyMoves(k, n, "release", "Deactivated")
    BY <1>7, KeyUpDoes
  <2>2. stroke \in Strokes /\ stroke.type = "release"
    BY <2>1 DEF Strokes
  <2>3. down \in [Keys -> Nat]
    BY RegistrationTypes
  <2>4. /\ UNCHANGED <<x11, grab>>
        /\ \A j \in Keys : j # k => xevents'[j] = xevents[j]
        /\ (x11 = None \/ seized'[k] # x11) => xevents'[k] = xevents[k]
        /\ (x11 # None /\ seized'[k] = x11) => xevents'[k] = Append(xevents[k], stroke)
    BY <2>1, KeyStrokes
  <2>5. ~Grasped(k)' /\ (Grasped(k) <=> x11 # None /\ seized[k] = x11)
    BY <2>1, <2>3 DEF Grasped
  <2>6. GrabAgrees(k)'
    <3>1. CASE Grasped(k)
      <4>1. xevents'[k] = Append(xevents[k], stroke) /\ x11 # None
        BY <2>1, <2>4, <2>5, <3>1
      <4> HIDE DEF stroke
      <4>2. QED
        BY <2>2, <2>4, <2>5, <3>1, <4>1, StrokeAgrees DEF GrabsAgree
    <3>2. CASE ~Grasped(k)
      <4>1. xevents'[k] = xevents[k]
        BY <2>1, <2>4, <2>5, <3>2
      <4>2. QED
        BY <2>4, <2>5, <3>2, <4>1 DEF GrabsAgree, GrabAgrees
    <3>3. QED
      BY <3>1, <3>2
  <2>7. \A j \in Keys : j # k => down'[j] = down[j] /\ seized'[j] = seized[j]
    BY <2>1, <2>3
  <2>8. QED
    BY <2>4, <2>6, <2>7, GrabSame DEF GrabsAgree
<1>8. ASSUME NEW k \in Keys, AutoRepeat(k) PROVE GrabsAgree'
  <2>1. /\ Grasped(k) /\ UNCHANGED <<x11, grab, down, seized>>
        /\ \A j \in Keys : j # k => xevents'[j] = xevents[j]
    BY <1>8, AutoRepeatDoes
  <2>2. PICK r, p \in Strokes : /\ p.type = "press"
                                /\ xevents'[k] = Append(Append(xevents[k], r), p)
    BY <1>8, AutoRepeatDoes
  <2>3. Grasped(k)' /\ GrabAgrees(k) /\ xevents[k] \in Seq(Strokes)
    BY <2>1 DEF Grasped, GrabsAgree, GrabTypes
  <2>4. /\ xevents'[k] # <<>> /\ xevents'[k][Len(xevents'[k])] = p
        /\ xevents[k] # <<>> => xevents'[k][1] = xevents[k][1]
    BY <2>2, <2>3
  <2>5. GrabAgrees(k)'
    BY <2>1, <2>2, <2>3, <2>4 DEF GrabAgrees, Grasped
  <2>6. QED
    BY <2>1, <2>5, GrabSame DEF GrabsAgree
<1>9. QED
  BY <1>1, <1>2, <1>3, <1>4, <1>5, <1>6, <1>7, <1>8 DEF Next

-----------------------------------------------------------------------------
(***************************************************************************)
(* A press waits in one place                                              *)
(***************************************************************************)
\* Where press n waits after a step, it waited before.
BusOld(n) == \E d \in {0, 1} : \A i : InBus(i, n)' => i \in Nat /\ InBus(i + d, n)
PostedOld(n) == \E d \in {0, 1} : \A i : InPosted(i, n)' => i \in Nat /\ InPosted(i + d, n)
GrabOld(n) == \A k : InGrab(k, n)' => InGrab(k, n)
Nowhere(n) == \A i : ~InBus(i, n) /\ ~InPosted(i, n) /\ ~InGrab(i, n)

\* A press that waits only where it waited before waits in one place.
LEMMA WaitsAsBefore ==
  ASSUME NEW n, PressWaitsOnce(n), BusOld(n), PostedOld(n), GrabOld(n), Unused(n) => Unused(n)'
  PROVE  PressWaitsOnce(n)'
<1>1. PICK d \in {0, 1} : \A i : InBus(i, n)' => i \in Nat /\ InBus(i + d, n)
  BY DEF BusOld
<1>2. PICK c \in {0, 1} : \A i : InPosted(i, n)' => i \in Nat /\ InPosted(i + c, n)
  BY DEF PostedOld
<1>3. \A k : InGrab(k, n)' => InGrab(k, n)
  BY DEF GrabOld
<1>4. \A i : (InBus(i, n) \/ InPosted(i, n) \/ InGrab(i, n))' => Unused(n)'
  BY <1>1, <1>2, <1>3 DEF PressWaitsOnce
<1>5. ASSUME NEW i, NEW j, InBus(i, n)', InBus(j, n)' PROVE i = j
  <2>1. i \in Nat /\ j \in Nat /\ InBus(i + d, n) /\ InBus(j + d, n)
    BY <1>1, <1>5
  <2>2. i + d = j + d
    BY <2>1 DEF PressWaitsOnce
  <2>3. QED
    BY <2>1, <2>2
<1>6. ASSUME NEW i, NEW j, InPosted(i, n)', InPosted(j, n)' PROVE i = j
  <2>1. i \in Nat /\ j \in Nat /\ InPosted(i + c, n) /\ InPosted(j + c, n)
    BY <1>2, <1>6
  <2>2. i + c = j + c
    BY <2>1 DEF PressWaitsOnce
  <2>3. QED
    BY <2>1, <2>2
<1>7. \A i, j : InGrab(i, n)' /\ InGrab(j, n)' => i = j
  BY <1>3 DEF PressWaitsOnce
<1>8. \A i, j : /\ ~(InBus(i, n)' /\ InPosted(j, n)')
                /\ ~(InBus(i, n)' /\ InGrab(j, n)')
                /\ ~(InPosted(i, n)' /\ InGrab(j, n)')
  BY <1>1, <1>2, <1>3 DEF PressWaitsOnce
<1>9. QED
  BY <1>4, <1>5, <1>6, <1>7, <1>8 DEF PressWaitsOnce

\* So does one that waits nowhere.
LEMMA WaitsNowhere ==
  ASSUME NEW n, Nowhere(n)'
  PROVE  PressWaitsOnce(n)'
  BY DEF Nowhere, PressWaitsOnce

\* A press that was not used, and is, is one that was not made yet.
LEMMA NotMadeYet ==
  ASSUME NEW n, PressWaitsOnce(n), ~Unused(n)
  PROVE  Nowhere(n)
  BY DEF Nowhere, PressWaitsOnce

\* A bus that loses its head or gets another message holds the press where it was.
LEMMA BusStays ==
  ASSUME IInv, NEW n,
         \/ bus' = bus \/ (bus # <<>> /\ bus' = Tail(bus))
         \/ \E m \in Messages : bus' = Append(bus, m) /\ ~(m.kind = "Activated" /\ m.press = n)
  PROVE  BusOld(n)
<1>1. bus \in Seq(Messages)
  BY RegistrationTypes
<1>2. CASE bus' = bus
  <2>1. \A i : InBus(i, n)' => i \in Nat /\ InBus(i + 0, n)
    BY <1>1, <1>2 DEF InBus
  <2>2. QED
    BY <2>1 DEF BusOld
<1>3. CASE bus # <<>> /\ bus' = Tail(bus)
  <2>1. \A i : InBus(i, n)' => i \in Nat /\ InBus(i + 1, n)
    BY <1>1, <1>3, TailIndices DEF InBus
  <2>2. QED
    BY <2>1 DEF BusOld
<1>4. CASE \E m \in Messages : bus' = Append(bus, m) /\ ~(m.kind = "Activated" /\ m.press = n)
  <2>1. PICK m \in Messages : bus' = Append(bus, m) /\ ~(m.kind = "Activated" /\ m.press = n)
    BY <1>4
  <2>2. ASSUME NEW i, InBus(i, n)' PROVE i \in Nat /\ InBus(i + 0, n)
    <3>1. i \in DOMAIN bus' /\ bus'[i].kind = "Activated" /\ bus'[i].press = n
      BY <2>2 DEF InBus
    <3>2. (i \in DOMAIN bus /\ bus'[i] = bus[i]) \/ bus'[i] = m
      BY <1>1, <2>1, <3>1, AppendIndices
    <3>3. i \in DOMAIN bus /\ bus'[i] = bus[i]
      BY <2>1, <3>1, <3>2
    <3>4. QED
      BY <1>1, <3>1, <3>3 DEF InBus
  <2>3. QED
    BY <2>2 DEF BusOld
<1>5. QED
  BY <1>2, <1>3, <1>4

\* The same for the edges.
LEMMA PostedStays ==
  ASSUME GrabTypes, NEW n,
         \/ posted' = posted \/ (posted # <<>> /\ posted' = Tail(posted))
         \/ \E e \in Edges : posted' = Append(posted, e) /\ ~(e.edge = "pressed" /\ e.press = n)
  PROVE  PostedOld(n)
<1>1. posted \in Seq(Edges)
  BY DEF GrabTypes
<1>2. CASE posted' = posted
  <2>1. \A i : InPosted(i, n)' => i \in Nat /\ InPosted(i + 0, n)
    BY <1>1, <1>2 DEF InPosted
  <2>2. QED
    BY <2>1 DEF PostedOld
<1>3. CASE posted # <<>> /\ posted' = Tail(posted)
  <2>1. \A i : InPosted(i, n)' => i \in Nat /\ InPosted(i + 1, n)
    BY <1>1, <1>3, TailIndices DEF InPosted
  <2>2. QED
    BY <2>1 DEF PostedOld
<1>4. CASE \E e \in Edges : posted' = Append(posted, e) /\ ~(e.edge = "pressed" /\ e.press = n)
  <2>1. PICK e \in Edges : posted' = Append(posted, e) /\ ~(e.edge = "pressed" /\ e.press = n)
    BY <1>4
  <2>2. ASSUME NEW i, InPosted(i, n)' PROVE i \in Nat /\ InPosted(i + 0, n)
    <3>1. i \in DOMAIN posted' /\ posted'[i].edge = "pressed" /\ posted'[i].press = n
      BY <2>2 DEF InPosted
    <3>2. (i \in DOMAIN posted /\ posted'[i] = posted[i]) \/ posted'[i] = e
      BY <1>1, <2>1, <3>1, AppendIndices
    <3>3. i \in DOMAIN posted /\ posted'[i] = posted[i]
      BY <2>1, <3>1, <3>2
    <3>4. QED
      BY <1>1, <3>1, <3>3 DEF InPosted
  <2>3. QED
    BY <2>2 DEF PostedOld
<1>5. QED
  BY <1>2, <1>3, <1>4

\* The same for the events of a grab.
LEMMA GrabStays ==
  ASSUME NEW n, \A k \in Keys : /\ InGrab(k, n)' => xevents[k] # <<>> /\ grab[k].active = None
                                                    /\ xevents'[k][1] = xevents[k][1]
  PROVE  GrabOld(n)
  BY DEF GrabOld, InGrab

\* The first of the bus, or of the posted edges, is handled: its press waits no more.
LEMMA HeadLeaves ==
  ASSUME IInv, GrabTypes, NEW n, PressWaitsOnce(n), xevents' = xevents, grab' = grab,
         \/ InBus(1, n) /\ bus # <<>> /\ bus' = Tail(bus) /\ posted' = posted
         \/ InPosted(1, n) /\ posted # <<>> /\ posted' = Tail(posted) /\ bus' = bus
  PROVE  PressWaitsOnce(n)'
<1>1. bus \in Seq(Messages) /\ posted \in Seq(Edges)
  BY RegistrationTypes DEF GrabTypes
<1>2. \A k : InGrab(k, n)' => InGrab(k, n)
  BY DEF InGrab
<1>3. CASE InBus(1, n) /\ bus # <<>> /\ bus' = Tail(bus) /\ posted' = posted
  <2>1. ASSUME NEW i, InBus(i, n)' PROVE FALSE
    <3>1. i \in Nat /\ i > 0 /\ InBus(i + 1, n)
      BY <1>1, <1>3, <2>1, TailIndices DEF InBus
    <3>2. i + 1 = 1
      BY <1>3, <3>1 DEF PressWaitsOnce
    <3>3. QED
      BY <3>1, <3>2
  <2>2. \A i : ~InPosted(i, n)' /\ ~InGrab(i, n)'
    BY <1>2, <1>3 DEF PressWaitsOnce, InPosted
  <2>3. QED
    BY <2>1, <2>2, WaitsNowhere DEF Nowhere
<1>4. CASE InPosted(1, n) /\ posted # <<>> /\ posted' = Tail(posted) /\ bus' = bus
  <2>1. ASSUME NEW i, InPosted(i, n)' PROVE FALSE
    <3>1. i \in Nat /\ i > 0 /\ InPosted(i + 1, n)
      BY <1>1, <1>4, <2>1, TailIndices DEF InPosted
    <3>2. i + 1 = 1
      BY <1>4, <3>1 DEF PressWaitsOnce
    <3>3. QED
      BY <3>1, <3>2
  <2>2. \A i : ~InBus(i, n)' /\ ~InGrab(i, n)'
    BY <1>2, <1>4 DEF PressWaitsOnce, InBus
  <2>3. QED
    BY <2>1, <2>2, WaitsNowhere DEF Nowhere
<1>5. QED
  BY <1>3, <1>4

\* A signal uses the press it brings, and no other.
LEMMA WaitsAfterSignal ==
  ASSUME IInv, KeyTypes, PressesWaitOnce, HandleSignal
  PROVE  PressesWaitOnce'
<1> SUFFICES ASSUME NEW n \in Nat PROVE PressWaitsOnce(n)'
  BY DEF PressesWaitOnce
<1> DEFINE m == bus[1]
<1>1. PressWaitsOnce(n)
  BY DEF PressesWaitOnce
<1>2. /\ bus # <<>> /\ bus' = Tail(bus) /\ 1 \in DOMAIN bus
      /\ UNCHANGED <<presses, xevents, grab, posted>>
      /\ \/ /\ m.kind = "Activated" /\ Pressed(m.of, m.key, m.press)
            /\ m.press \in Presses /\ acted[m.press] = None /\ m.of \in Gens /\ m.key \in Keys
         \/ UNCHANGED gesture
         \/ Release(m.of, m.key)
  BY HandlingSignal DEF keyboard
<1>3. CASE m.kind = "Activated" /\ m.press = n
  BY <1>1, <1>2, <1>3, HeadLeaves DEF InBus, KeyTypes
<1>4. CASE ~(m.kind = "Activated" /\ m.press = n)
  <2>1. n \in Presses => acted'[n] = acted[n]
    <3>1. CASE UNCHANGED gesture \/ Release(m.of, m.key)
      BY <3>1 DEF gesture, Release
    <3>2. CASE /\ m.kind = "Activated" /\ Pressed(m.of, m.key, m.press)
               /\ m.press \in Presses /\ acted[m.press] = None /\ m.of \in Gens /\ m.key \in Keys
      <4> HIDE DEF m
      <4>1. \A j \in Presses : j # m.press => acted'[j] = acted[j]
        BY <3>2, RegistrationTypes, PressedDoes DEF KeyTypes
      <4>2. QED
        BY <1>4, <3>2, <4>1
    <3>3. QED
      BY <1>2, <3>1, <3>2
  <2>2. Unused(n) => Unused(n)'
    BY <1>2, <2>1 DEF Unused
  <2>3. BusOld(n) /\ PostedOld(n) /\ GrabOld(n)
    BY <1>2, BusStays, PostedStays DEF KeyTypes, GrabOld, InGrab
  <2>4. QED
    BY <1>1, <2>2, <2>3, WaitsAsBefore
<1>5. QED
  BY <1>3, <1>4

\* An edge that was run waits no longer.
LEMMA WaitsAfterPosted ==
  ASSUME IInv, KeyTypes, PressesWaitOnce, RunPosted
  PROVE  PressesWaitOnce'
<1> SUFFICES ASSUME NEW n \in Nat PROVE PressWaitsOnce(n)'
  BY DEF PressesWaitOnce
<1> DEFINE e == posted[1]
<1>1. PressWaitsOnce(n)
  BY DEF PressesWaitOnce
<1>2. /\ posted # <<>> /\ posted' = Tail(posted) /\ 1 \in DOMAIN posted
      /\ UNCHANGED <<presses, xevents, grab, bus>>
      /\ \/ /\ e.edge = "pressed" /\ Pressed(e.of, e.key, e.press)
            /\ e.press \in Presses /\ acted[e.press] = None /\ e.of \in Gens /\ e.key \in Keys
         \/ Release(e.of, e.key)
  BY RunningPosted DEF keyboard, KeyTypes
<1>3. CASE e.edge = "pressed" /\ e.press = n
  BY <1>1, <1>2, <1>3, HeadLeaves DEF InPosted, KeyTypes
<1>4. CASE ~(e.edge = "pressed" /\ e.press = n)
  <2>1. n \in Presses => acted'[n] = acted[n]
    <3>1. CASE Release(e.of, e.key)
      BY <3>1 DEF Release
    <3>2. CASE /\ e.edge = "pressed" /\ Pressed(e.of, e.key, e.press)
               /\ e.press \in Presses /\ acted[e.press] = None /\ e.of \in Gens /\ e.key \in Keys
      <4> HIDE DEF e
      <4>1. \A j \in Presses : j # e.press => acted'[j] = acted[j]
        BY <3>2, RegistrationTypes, PressedDoes DEF KeyTypes
      <4>2. QED
        BY <1>4, <3>2, <4>1
    <3>3. QED
      BY <1>2, <3>1, <3>2
  <2>2. Unused(n) => Unused(n)'
    BY <1>2, <2>1 DEF Unused
  <2>3. BusOld(n) /\ PostedOld(n) /\ GrabOld(n)
    BY <1>2, BusStays, PostedStays DEF KeyTypes, GrabOld, InGrab
  <2>4. QED
    BY <1>1, <2>2, <2>3, WaitsAsBefore
<1>5. QED
  BY <1>3, <1>4

\* Steps that bring no press and use none.
LEMMA WaitsElsewhere ==
  ASSUME IInv, GrabTypes, PressesWaitOnce, UNCHANGED <<presses, acted>>,
         \A n \in Nat : GrabOld(n),
         \/ posted' = posted
         \/ \E e \in Edges : posted' = Append(posted, e) /\ e.edge # "pressed",
         \/ bus' = bus \/ (bus # <<>> /\ bus' = Tail(bus))
         \/ \E m \in Messages : bus' = Append(bus, m) /\ m.kind # "Activated"
  PROVE  PressesWaitOnce'
<1> SUFFICES ASSUME NEW n \in Nat PROVE PressWaitsOnce(n)'
  BY DEF PressesWaitOnce
<1>1. BusOld(n)
  BY BusStays
<1>2. PostedOld(n)
  BY PostedStays
<1>3. Unused(n) => Unused(n)'
  BY DEF Unused
<1>4. QED
  BY <1>1, <1>2, <1>3, WaitsAsBefore DEF PressesWaitOnce

\* The grab that opens hands its press on as an edge.
LEMMA WaitsAfterRead ==
  ASSUME IInv, GrabTypes, GrabsAgree, PressesWaitOnce, NEW k \in Keys, ReadKeyEvent(k)
  PROVE  PressesWaitOnce'
<1> DEFINE e == xevents[k][1]
           edge == [edge |-> "pressed", of |-> x11, key |-> k, press |-> e.press]
<1>1. /\ x11 # None /\ xevents[k] # <<>> /\ e \in Strokes /\ UNCHANGED <<presses, bus>>
      /\ \A j \in Keys : j # k => xevents'[j] = xevents[j] /\ grab'[j] = grab[j]
  BY ReadDoes
<1>2. acted' = acted
  BY DEF ReadKeyEvent, gesture
<1>3. grab'[k].active # None
      /\ \/ posted' = posted
         \/ grab[k].active = None /\ posted' = Append(posted, edge)
  <2>1. grab[k].active = None => e.type = "press"
    BY <1>1 DEF GrabsAgree, GrabAgrees
  <2>2. grab[k].deadline => grab[k].active # None
    BY DEF GrabsAgree, GrabAgrees
  <2>3. e.press # None /\ e.type \in {"press", "release"}
    BY <1>1 DEF Strokes
  <2>4. \/ /\ e.type = "press" /\ grab[k].deadline /\ posted' = posted
           /\ grab'[k].active = grab[k].active
        \/ /\ e.type = "press" /\ ~grab[k].deadline /\ grab[k].active = None
           /\ grab'[k].active = e.press
           /\ posted' = Append(posted, edge)
        \/ /\ e.type = "release" /\ grab[k].active # None /\ posted' = posted
           /\ grab'[k].active = grab[k].active
        \/ /\ e.type = "release" /\ grab[k].active = None /\ posted' = posted
        \/ /\ e.type = "press" /\ ~grab[k].deadline /\ grab[k].active # None /\ posted' = posted
           /\ grab'[k] = grab[k]
    BY ReadDoes
  <2> HIDE DEF e, edge
  <2>5. QED
    BY <2>1, <2>2, <2>3, <2>4
<1>4. ASSUME NEW n PROVE GrabOld(n) /\ ~InGrab(k, n)'
  BY <1>1, <1>3 DEF GrabOld, InGrab
<1>5. CASE posted' = posted
  BY <1>1, <1>2, <1>4, <1>5, WaitsElsewhere
<1>6. CASE grab[k].active = None /\ posted' = Append(posted, edge)
  <2>1. edge \in Edges /\ edge.press = e.press /\ edge.edge = "pressed" /\ e.press \in Nat
    <3>1. x11 \in Gens /\ e.press \in Nat
      BY <1>1, RegistrationTypes, Constants DEF Gens, None, Strokes
    <3>2. QED
      BY <3>1 DEF Edges
  <2>2. posted \in Seq(Edges) /\ bus \in Seq(Messages)
    BY RegistrationTypes DEF GrabTypes
  <2>3. InGrab(k, e.press)
    BY <1>1, <1>6 DEF InGrab
  <2> SUFFICES ASSUME NEW n \in Nat PROVE PressWaitsOnce(n)'
    BY DEF PressesWaitOnce
  <2>4. PressWaitsOnce(n)
    BY DEF PressesWaitOnce
  <2>5. CASE n # e.press
    <3>1. BusOld(n)
      BY <1>1, BusStays
    <3>2. PostedOld(n)
      BY <1>6, <2>1, <2>5, PostedStays
    <3>3. Unused(n) => Unused(n)'
      BY <1>1, <1>2 DEF Unused
    <3>4. QED
      BY <1>4, <2>4, <3>1, <3>2, <3>3, WaitsAsBefore
  <2>6. CASE n = e.press
    <3> HIDE DEF e, edge
    <3>1. Unused(n)'
      BY <1>1, <1>2, <2>3, <2>4, <2>6 DEF PressWaitsOnce, Unused
    <3>2. \A i : ~InBus(i, n)'
      BY <1>1, <2>3, <2>4, <2>6 DEF PressWaitsOnce, InBus
    <3>3. \A i : ~InGrab(i, n)'
      BY <1>4, <2>3, <2>4, <2>6 DEF PressWaitsOnce, GrabOld
    <3>4. ASSUME NEW i, InPosted(i, n)' PROVE i = Len(posted) + 1
      <4>1. i \in DOMAIN posted' /\ posted'[i].edge = "pressed" /\ posted'[i].press = n
        BY <3>4 DEF InPosted
      <4>2. (i \in DOMAIN posted /\ posted'[i] = posted[i]) \/ i = Len(posted) + 1
        BY <1>6, <2>1, <2>2, <4>1, AppendIndices
      <4>3. ~(i \in DOMAIN posted /\ posted'[i] = posted[i])
        BY <2>3, <2>4, <2>6, <4>1 DEF PressWaitsOnce, InPosted
      <4>4. QED
        BY <4>2, <4>3
    <3>5. QED
      BY <3>1, <3>2, <3>3, <3>4 DEF PressWaitsOnce
  <2>7. QED
    BY <2>5, <2>6
<1>7. QED
  BY <1>3, <1>5, <1>6

\* A new press waits in the signal of the session that hears it, or in the grab.
LEMMA WaitsAfterDown ==
  ASSUME IInv, GrabTypes, GrabsAgree, PressesWaitOnce, PressesMade, NEW k \in Keys, KeyDown(k)
  PROVE  PressesWaitOnce'
<1> DEFINE new == presses + 1
           signal == Signal("Activated", held, k, new)
<1>1. /\ new \in Presses /\ down[k] = None /\ presses' = new
      /\ seized' = [seized EXCEPT ![k] = x11] /\ KeyMoves(k, new, "press", "Activated")
  BY KeyDownDoes
<1>2. /\ new \in Nat \ {None} /\ presses \in Nat /\ bus \in Seq(Messages)
      /\ seized \in [Keys -> Nat] /\ xevents \in [Keys -> Seq(Strokes)]
  BY <1>1, RegistrationTypes, Constants DEF Presses, None, GrabTypes
<1> HIDE DEF new
<1>3. /\ UNCHANGED <<grab, posted, acted>>
      /\ \A j \in Keys : j # k => xevents'[j] = xevents[j]
      /\ x11 = None => xevents'[k] = xevents[k]
      /\ x11 # None => xevents'[k] = Append(xevents[k], [type |-> "press", press |-> new])
  <2>1. seized'[k] = x11
    BY <1>1, <1>2
  <2>2. acted' = acted
    BY <1>1 DEF KeyMoves, gesture
  <2>3. QED
    BY <1>1, <1>2, <2>1, <2>2, KeyStrokes
<1>4. /\ Hears(k) => bus' = Append(bus, signal) /\ signal \in Messages /\ x11 = None
      /\ ~Hears(k) => bus' = bus
  BY <1>1, <1>2, KeySignals
<1>5. signal.kind = "Activated" /\ signal.press = new
  BY DEF Signal
<1> HIDE DEF signal
<1>6. [type |-> "press", press |-> new] \in Strokes
  BY <1>2 DEF Strokes
<1>7. ASSUME NEW j \in Keys, NEW n, InGrab(j, n)'
      PROVE  InGrab(j, n) \/ (j = k /\ n = new /\ x11 # None)
  <2>1. CASE j # k \/ x11 = None \/ xevents[k] # <<>>
    <3>1. xevents'[j] # <<>> /\ xevents'[j][1].press = n /\ grab[j].active = None
      BY <1>3, <1>7 DEF InGrab
    <3>2. CASE j # k \/ x11 = None
      BY <1>3, <3>1, <3>2 DEF InGrab
    <3>3. CASE x11 # None /\ xevents[k] # <<>> /\ j = k
      <4>1. xevents[k] \in Seq(Strokes)
        BY <1>2
      <4>2. xevents'[k] = Append(xevents[k], [type |-> "press", press |-> new])
        BY <1>3, <3>3
      <4>3. xevents'[k][1] = xevents[k][1]
        BY <1>6, <3>3, <4>1, <4>2
      <4>4. QED
        BY <3>1, <3>3, <4>3 DEF InGrab
    <3>4. QED
      BY <2>1, <3>2, <3>3
  <2>2. CASE j = k /\ x11 # None /\ xevents[k] = <<>>
    <3>1. xevents'[k][1] = [type |-> "press", press |-> new]
      BY <1>2, <1>3, <1>6, <2>2
    <3>2. QED
      BY <1>7, <2>2, <3>1 DEF InGrab
  <2>3. QED
    BY <2>1, <2>2
<1> SUFFICES ASSUME NEW n \in Nat PROVE PressWaitsOnce(n)'
  BY DEF PressesWaitOnce
<1>8. PressWaitsOnce(n)
  BY DEF PressesWaitOnce
<1>9. CASE n # new
  <2>1. BusOld(n)
    BY <1>4, <1>5, <1>9, BusStays
  <2>2. PostedOld(n)
    BY <1>3, PostedStays
  <2>3. GrabOld(n)
    BY <1>7, <1>9 DEF GrabOld, InGrab
  <2>4. Unused(n) => Unused(n)'
    BY <1>1, <1>2, <1>3 DEF Unused, new
  <2>5. QED
    BY <1>8, <2>1, <2>2, <2>3, <2>4, WaitsAsBefore
<1>10. CASE n = new
  <2>1. n > presses
    BY <1>2, <1>10 DEF new
  <2>2. Nowhere(n)
    BY <1>2, <1>8, <1>10, <2>1, NotMadeYet DEF Unused
  <2>3. acted[n] = None => Unused(n)'
    BY <1>1, <1>2, <1>3, <1>10 DEF Unused
  <2>4. \A i : ~InPosted(i, n)'
    BY <1>3, <2>2 DEF Nowhere, InPosted
  <2>5. \A i : InGrab(i, n)' => i = k /\ x11 # None
    BY <1>7, <2>2 DEF Nowhere, InGrab
  <2>6. ASSUME NEW i, InBus(i, n)' PROVE i = Len(bus) + 1 /\ x11 = None
    <3>1. i \in DOMAIN bus' /\ bus'[i].kind = "Activated" /\ bus'[i].press = n
      BY <2>6 DEF InBus
    <3>2. bus' # bus
      BY <2>2, <3>1 DEF Nowhere, InBus
    <3>3. bus' = Append(bus, signal) /\ signal \in Messages /\ x11 = None
      BY <1>4, <3>2
    <3>4. (i \in DOMAIN bus /\ bus'[i] = bus[i]) \/ i = Len(bus) + 1
      BY <1>2, <3>1, <3>3, AppendIndices
    <3>5. QED
      BY <2>2, <3>1, <3>3, <3>4 DEF Nowhere, InBus
  <2>7. acted[n] = None
    BY <1>1, <1>10, <2>1 DEF PressesMade
  <2>8. QED
    BY <2>3, <2>4, <2>5, <2>6, <2>7 DEF PressWaitsOnce
<1>11. QED
  BY <1>9, <1>10

\* A release brings no press.
LEMMA WaitsAfterUp ==
  ASSUME IInv, GrabTypes, GrabsAgree, PressesWaitOnce, NEW k \in Keys, KeyUp(k)
  PROVE  PressesWaitOnce'
<1> DEFINE n == down[k]
           stroke == [type |-> "release", press |-> n]
           signal == Signal("Deactivated", held, k, n)
<1>1. /\ n \in Nat \ {None} /\ presses' = presses /\ seized' = seized
      /\ KeyMoves(k, n, "release", "Deactivated")
  BY KeyUpDoes
<1>2. xevents \in [Keys -> Seq(Strokes)] /\ stroke \in Strokes /\ signal.kind = "Deactivated"
  BY <1>1 DEF Strokes, GrabTypes, Signal
<1>3. /\ UNCHANGED <<grab, posted, acted>>
      /\ \A j \in Keys : j # k => xevents'[j] = xevents[j]
      /\ (x11 = None \/ seized[k] # x11) => xevents'[k] = xevents[k]
      /\ (x11 # None /\ seized[k] = x11) => xevents'[k] = Append(xevents[k], stroke)
  <2>1. acted' = acted
    BY <1>1 DEF KeyMoves, gesture
  <2>2. QED
    BY <1>1, <2>1, KeyStrokes
<1>4. bus' = bus \/ (signal \in Messages /\ bus' = Append(bus, signal))
  BY <1>1, KeySignals
<1>5. Grasped(k) <=> x11 # None /\ seized[k] = x11
  BY <1>1 DEF Grasped
<1> HIDE DEF stroke, signal, n
<1>6. ASSUME NEW m, NEW j \in Keys, InGrab(j, m)'
      PROVE  xevents[j] # <<>> /\ grab[j].active = None /\ xevents'[j][1] = xevents[j][1]
  <2>1. xevents'[j] # <<>> /\ grab[j].active = None
    BY <1>3, <1>6 DEF InGrab
  <2>2. CASE j # k \/ ~Grasped(k)
    BY <1>3, <1>5, <2>1, <2>2
  <2>3. CASE j = k /\ Grasped(k)
    <3>1. xevents[k] # <<>>
      BY <2>1, <2>3 DEF GrabsAgree, GrabAgrees
    <3>2. xevents'[k] = Append(xevents[k], stroke) /\ xevents[k] \in Seq(Strokes)
      BY <1>2, <1>3, <1>5, <2>3
    <3>3. xevents'[k][1] = xevents[k][1]
      BY <1>2, <3>1, <3>2
    <3>4. QED
      BY <2>1, <2>3, <3>1, <3>3
  <2>4. QED
    BY <2>2, <2>3
<1>7. \A m \in Nat : GrabOld(m)
  BY <1>6, GrabStays
<1>8. QED
  BY <1>1, <1>2, <1>3, <1>4, <1>7, WaitsElsewhere

\* The press of an autorepeat joins behind the event that waits.
LEMMA WaitsAfterRepeat ==
  ASSUME IInv, GrabTypes, GrabsAgree, PressesWaitOnce, NEW k \in Keys, AutoRepeat(k)
  PROVE  PressesWaitOnce'
<1>1. /\ Grasped(k) /\ UNCHANGED <<grab, posted, bus, presses>>
      /\ \A j \in Keys : j # k => xevents'[j] = xevents[j]
  BY AutoRepeatDoes
<1>2. PICK r, p \in Strokes : xevents'[k] = Append(Append(xevents[k], r), p)
  BY AutoRepeatDoes
<1>3. acted' = acted
  BY DEF AutoRepeat, gesture
<1>4. ASSUME NEW m, NEW j \in Keys, InGrab(j, m)'
      PROVE  xevents[j] # <<>> /\ grab[j].active = None /\ xevents'[j][1] = xevents[j][1]
  <2>1. xevents'[j] # <<>> /\ grab[j].active = None
    BY <1>1, <1>4 DEF InGrab
  <2>2. CASE j # k
    BY <1>1, <2>1, <2>2
  <2>3. CASE j = k
    <3>1. xevents[k] # <<>> /\ xevents[k] \in Seq(Strokes)
      BY <1>1, <2>1, <2>3 DEF GrabsAgree, GrabAgrees, GrabTypes
    <3>2. xevents'[k][1] = xevents[k][1]
      BY <1>2, <3>1
    <3>3. QED
      BY <2>1, <2>3, <3>1, <3>2
  <2>4. QED
    BY <2>2, <2>3
<1>5. \A m \in Nat : GrabOld(m)
  BY <1>4, GrabStays
<1>6. QED
  BY <1>1, <1>3, <1>5, WaitsElsewhere

\* A release that is posted is no press.
LEMMA WaitsAfterFlush ==
  ASSUME IInv, GrabTypes, PressesWaitOnce, NEW k \in Keys, FlushRelease(k)
  PROVE  PressesWaitOnce'
<1>1. UNCHANGED <<presses, acted, bus, xevents>> /\ grab' = [grab EXCEPT ![k] = Loose]
      /\ xevents[k] = <<>>
  BY DEF FlushRelease, gesture, keyboard
<1>2. \A j \in Keys : j # k => grab'[j] = grab[j]
  BY <1>1 DEF GrabTypes
<1>3. \A m \in Nat : GrabOld(m)
  BY <1>1, <1>2 DEF GrabOld, InGrab
<1>4. \E e \in Edges : posted' = Append(posted, e) /\ e.edge # "pressed"
  BY FlushPosts
<1>5. QED
  BY <1>1, <1>3, <1>4, WaitsElsewhere

\* A press waits in one place after every step.
LEMMA NextWaits ==
  ASSUME IInv, KeyTypes, GrabsAgree, PressesWaitOnce, PressesMade, [Next]_vars
  PROVE  PressesWaitOnce'
<1>1. CASE Restart
  <2>1. /\ UNCHANGED <<presses, acted, posted, bus>> /\ xevents' = [k \in Keys |-> <<>>]
    BY <1>1 DEF Restart, keyboard
  <2>2. \A n \in Nat : GrabOld(n)
    BY <2>1 DEF GrabOld, InGrab
  <2>3. QED
    BY <2>1, <2>2, WaitsElsewhere DEF KeyTypes
<1>2. CASE HandleAnswer \/ TrayToggles \/ UNCHANGED vars \/ PortalAnswers \/ PortalCloses \/ PortalRestarts
  <2>1. UNCHANGED <<presses, acted, posted, xevents, grab>>
    BY <1>2 DEF HandleAnswer, TrayToggles, PortalAnswers, PortalCloses, PortalRestarts, vars,
           keyboard, gesture
  <2>2. \A n \in Nat : GrabOld(n)
    BY <2>1 DEF GrabOld, InGrab
  <2>3. \/ bus' = bus \/ (bus # <<>> /\ bus' = Tail(bus))
        \/ \E m \in Messages : bus' = Append(bus, m) /\ m.kind # "Activated"
    <3>1. CASE HandleAnswer \/ TrayToggles \/ UNCHANGED vars
      BY <3>1 DEF HandleAnswer, TrayToggles, vars
    <3>2. CASE PortalAnswers
      <4>1. PICK m \in Messages : m.kind \in Kinds /\ bus' = Append(bus, m)
        BY <3>2, AnswersWorld
      <4>2. QED
        BY <4>1 DEF Kinds
    <3>3. CASE PortalCloses \/ PortalRestarts
      BY <3>3, FaultsWorld
    <3>4. QED
      BY <1>2, <3>1, <3>2, <3>3
  <2>4. QED
    BY <2>1, <2>2, <2>3, WaitsElsewhere DEF KeyTypes
<1>3. CASE HandleSignal
  BY <1>3, WaitsAfterSignal
<1>4. CASE RunPosted
  BY <1>4, WaitsAfterPosted
<1>5. ASSUME NEW k \in Keys, ReadKeyEvent(k) PROVE PressesWaitOnce'
  BY <1>5, WaitsAfterRead DEF KeyTypes
<1>6. ASSUME NEW k \in Keys, FlushRelease(k) PROVE PressesWaitOnce'
  BY <1>6, WaitsAfterFlush DEF KeyTypes
<1>7. ASSUME NEW k \in Keys, KeyDown(k) PROVE PressesWaitOnce'
  BY <1>7, WaitsAfterDown DEF KeyTypes
<1>8. ASSUME NEW k \in Keys, KeyUp(k) PROVE PressesWaitOnce'
  BY <1>8, WaitsAfterUp DEF KeyTypes
<1>9. ASSUME NEW k \in Keys, AutoRepeat(k) PROVE PressesWaitOnce'
  BY <1>9, WaitsAfterRepeat DEF KeyTypes
<1>10. QED
  BY <1>1, <1>2, <1>3, <1>4, <1>5, <1>6, <1>7, <1>8, <1>9 DEF Next

\* Only a press that was made starts or stops a recording.
LEMMA NextPressesMade ==
  ASSUME IInv, KeyTypes, PressesWaitOnce, PressesMade, [Next]_vars
  PROVE  PressesMade'
<1>1. presses \in Nat
  BY RegistrationTypes
<1>2. CASE HandleSignal
  <2> DEFINE m == bus[1]
  <2>1. /\ presses' = presses
        /\ \/ /\ m.of \in Gens /\ m.key \in Keys /\ Pressed(m.of, m.key, m.press)
              /\ m.press \in Presses /\ m.press <= presses /\ acted[m.press] = None
           \/ UNCHANGED gesture
           \/ Release(m.of, m.key)
    BY <1>2, HandlingSignal DEF keyboard
  <2> HIDE DEF m
  <2>2. CASE UNCHANGED gesture \/ Release(m.of, m.key)
    BY <2>1, <2>2 DEF gesture, Release, PressesMade
  <2>3. CASE /\ m.of \in Gens /\ m.key \in Keys /\ Pressed(m.of, m.key, m.press)
             /\ m.press \in Presses /\ m.press <= presses /\ acted[m.press] = None
    <3>1. \A j \in Presses : j # m.press => acted'[j] = acted[j]
      BY <2>3, RegistrationTypes, PressedDoes DEF KeyTypes
    <3>2. m.press \in Nat /\ \A j \in Presses : j \in Nat
      BY <2>3 DEF Presses
    <3>3. QED
      BY <1>1, <2>1, <2>3, <3>1, <3>2 DEF PressesMade
  <2>4. QED
    BY <2>1, <2>2, <2>3
<1>3. CASE RunPosted
  <2> DEFINE e == posted[1]
  <2>1. /\ presses' = presses
        /\ \/ /\ e.of \in Gens /\ e.key \in Keys /\ Pressed(e.of, e.key, e.press)
              /\ e.press \in Presses /\ e.press <= presses /\ acted[e.press] = None
           \/ Release(e.of, e.key)
    BY <1>3, RunningPosted DEF keyboard, KeyTypes
  <2> HIDE DEF e
  <2>2. CASE Release(e.of, e.key)
    BY <2>1, <2>2 DEF Release, PressesMade
  <2>3. CASE /\ e.of \in Gens /\ e.key \in Keys /\ Pressed(e.of, e.key, e.press)
             /\ e.press \in Presses /\ e.press <= presses /\ acted[e.press] = None
    <3>1. \A j \in Presses : j # e.press => acted'[j] = acted[j]
      BY <2>3, RegistrationTypes, PressedDoes DEF KeyTypes
    <3>2. e.press \in Nat /\ \A j \in Presses : j \in Nat
      BY <2>3 DEF Presses
    <3>3. QED
      BY <1>1, <2>1, <2>3, <3>1, <3>2 DEF PressesMade
  <2>4. QED
    BY <2>1, <2>2, <2>3
<1>4. CASE \E k \in Keys : KeyDown(k)
  <2>1. acted' = acted /\ presses' = presses + 1
    BY <1>4 DEF KeyDown, KeyMoves, gesture
  <2>2. \A j \in Presses : j \in Nat
    BY DEF Presses
  <2>3. QED
    BY <1>1, <2>1, <2>2 DEF PressesMade
<1>5. CASE \/ Restart \/ HandleAnswer \/ TrayToggles \/ UNCHANGED vars
           \/ PortalAnswers \/ PortalCloses \/ PortalRestarts
           \/ \E k \in Keys : ReadKeyEvent(k) \/ FlushRelease(k) \/ AutoRepeat(k) \/ KeyUp(k)
  <2>1. acted' = acted /\ presses' = presses
    BY <1>5 DEF Restart, HandleAnswer, TrayToggles, PortalAnswers, PortalCloses, PortalRestarts, vars,
           ReadKeyEvent, FlushRelease, AutoRepeat, KeyUp, KeyMoves, keyboard, gesture
  <2>2. QED
    BY <2>1 DEF PressesMade
<1>6. QED
  BY <1>2, <1>3, <1>4, <1>5 DEF Next

-----------------------------------------------------------------------------
(***************************************************************************)
(* The lists that signals, edges and recordings belong to                  *)
(***************************************************************************)
\* A list that was built, and is ready or gone, does not come back.
LEMMA ListKept ==
  ASSUME IInv, Restart \/ HandleAnswer, NEW g \in Gens, g <= gens
  PROVE  /\ modeOf'[g] = modeOf[g] /\ (g \in open' => g \in open)
         /\ Settled(g) => Settled(g)' /\ portal'[g] \in {portal[g], Idle}
         /\ portal[g].state = "idle" => portal'[g].state = "idle"
<1>1. PICK q : Become(q) /\ (Ages(Now, q) \/ Advances(bus[1], q))
  BY RestartAges, HandlingAges
<1>2. portal' = q.portal /\ modeOf' = q.modeOf /\ open' = q.open
  BY <1>1 DEF Become
<1>3. Idle.state = "idle" /\ gens \in Nat /\ g \in Nat
  BY RegistrationTypes, Constants
<1>4. CASE Ages(Now, q)
  <2>1. modeOf'[g] = modeOf[g] /\ portal'[g] \in {portal[g], Idle} /\ (g \in open' => g \in open)
    BY <1>2, <1>3, <1>4, NowIs DEF Ages
  <2>2. QED
    BY <1>3, <2>1 DEF Settled
<1>5. CASE Advances(bus[1], q)
  <2>1. PICK b \in Backends, p \in SUBSET (Gens \X Kinds) : AdvancesTo(bus[1], q, b, p)
    BY <1>5 DEF Advances
  <2>2. modeOf'[g] = modeOf[g] /\ open' = open /\ (g # bus[1].of => portal'[g] = portal[g])
    BY <1>2, <2>1 DEF AdvancesTo
  <2>3. g = bus[1].of => portal[g].state \in {"creating", "binding", "listing"}
    BY <2>1 DEF AdvancesTo
  <2>4. QED
    BY <2>2, <2>3 DEF Settled
<1>6. QED
  BY <1>1, <1>4, <1>5

\* The steps of the world: what joins the lists is of a settled list.
LEMMA SettledSteps ==
  ASSUME IInv, ListsAreSettled, acted' = acted, UNCHANGED <<portal, gens>>,
         \/ posted' = posted
         \/ posted \in Seq(Edges) /\ \E e \in Edges : posted' = Append(posted, e) /\ e.of = x11,
         \/ bus' = bus
         \/ \E m \in Messages : /\ bus' = Append(bus, m)
                                /\ m.kind \in {"Activated", "Deactivated"} => Settled(m.of)
  PROVE  ListsAreSettled'
<1>1. bus \in Seq(Messages) /\ x11 \in Nat /\ x11 <= gens
  BY RegistrationTypes
<1>2. \A n \in Presses : acted'[n] # None => acted'[n] \in Gens /\ acted'[n] <= gens /\ Settled(acted[n])'
  BY DEF ListsAreSettled, Settled
<1>3. ASSUME NEW i \in DOMAIN bus', bus'[i].kind \in {"Activated", "Deactivated"} PROVE Settled(bus[i].of)'
  <2>1. (i \in DOMAIN bus /\ bus'[i] = bus[i]) \/ Settled(bus'[i].of)
    <3>1. CASE bus' = bus
      BY <3>1, <1>3
    <3>2. CASE \E m \in Messages : /\ bus' = Append(bus, m)
                                   /\ m.kind \in {"Activated", "Deactivated"} => Settled(m.of)
      <4>1. PICK m \in Messages : /\ bus' = Append(bus, m)
                                  /\ m.kind \in {"Activated", "Deactivated"} => Settled(m.of)
        BY <3>2
      <4>2. (i \in DOMAIN bus /\ bus'[i] = bus[i]) \/ bus'[i] = m
        BY <1>1, <1>3, <4>1, AppendIndices
      <4>3. QED
        BY <1>3, <4>1, <4>2
    <3>3. QED
      BY <3>1, <3>2
  <2>2. Settled(bus'[i].of)
    BY <1>3, <2>1 DEF ListsAreSettled
  <2>3. QED
    BY <2>2 DEF Settled
<1>4. ASSUME NEW i \in DOMAIN posted' PROVE posted'[i].of <= gens /\ portal[posted'[i].of].state = "idle"
  <2>1. CASE posted' = posted
    BY <1>4, <2>1 DEF ListsAreSettled
  <2>2. CASE posted \in Seq(Edges) /\ \E e \in Edges : posted' = Append(posted, e) /\ e.of = x11
    <3>1. PICK e \in Edges : posted' = Append(posted, e) /\ e.of = x11
      BY <2>2
    <3>2. x11 \in Gens /\ x11 # None
      BY <3>1, Constants DEF Edges
    <3>3. portal[x11].state = "idle"
      BY <3>2, NowIs DEF IInv, RegInv, Sole, Serving
    <3>4. (i \in DOMAIN posted /\ posted'[i] = posted[i]) \/ posted'[i] = e
      BY <1>4, <2>2, <3>1, AppendIndices
    <3>5. QED
      BY <1>1, <3>1, <3>3, <3>4 DEF ListsAreSettled
  <2>3. QED
    BY <2>1, <2>2
<1>5. QED
  BY <1>2, <1>3, <1>4 DEF ListsAreSettled, Settled

\* A registration unsettles no list that was settled.
LEMMA SettledRegistration ==
  ASSUME IInv, GestureTypes, GrabTypes, ListsAreSettled, Restart \/ HandleAnswer
  PROVE  ListsAreSettled'
<1>1. /\ acted' = acted /\ posted' = posted
      /\ bus' = bus \/ (bus # <<>> /\ bus' = Tail(bus))
  BY DEF Restart, HandleAnswer, gesture
<1>2. gens' \in Nat /\ gens' >= gens /\ gens \in Nat
  BY ListsGrow, RegistrationTypes
<1>3. \A n \in Presses : acted[n] # None => acted[n] \in Gens /\ acted[n] <= gens' /\ Settled(acted[n])'
  <2> SUFFICES ASSUME NEW n \in Presses, acted[n] # None
               PROVE  acted[n] \in Gens /\ acted[n] <= gens' /\ Settled(acted[n])'
    OBVIOUS
  <2>1. acted[n] \in Gens /\ acted[n] <= gens /\ Settled(acted[n]) /\ acted[n] \in Nat
    BY Constants DEF ListsAreSettled
  <2>2. portal'[acted[n]].state \in {"ready", "idle"}
    BY <1>1, <2>1, ListKept DEF Settled
  <2>3. QED
    BY <1>1, <1>2, <2>1, <2>2 DEF Settled
<1>4. ASSUME NEW j \in DOMAIN bus, bus[j].kind \in {"Activated", "Deactivated"}
      PROVE  portal'[bus[j].of].state \in {"ready", "idle"}
  <2>1. bus[j].of \in Gens /\ bus[j].of <= gens /\ Settled(bus[j].of)
    BY <1>4, RegistrationTypes DEF ListsAreSettled
  <2>2. QED
    BY <2>1, ListKept DEF Settled
<1>5. ASSUME NEW i \in DOMAIN posted PROVE posted[i].of <= gens' /\ portal'[posted[i].of].state = "idle"
  <2>1. posted[i].of \in Gens
    <3>1. posted \in Seq(Edges)
      BY DEF GrabTypes
    <3>2. posted[i] \in Edges
      BY <3>1
    <3>3. QED
      BY <3>2 DEF Edges
  <2>2. posted[i].of <= gens /\ portal[posted[i].of].state = "idle"
    BY DEF ListsAreSettled
  <2>3. posted[i].of \in Nat
    BY <2>1, Constants
  <2>4. QED
    BY <1>2, <2>1, <2>2, <2>3, ListKept
<1>6. \A i \in DOMAIN bus' : \E j \in DOMAIN bus : bus'[i] = bus[j]
  BY <1>1, BusShrinks
<1>7. \A i \in DOMAIN bus' : bus'[i].kind \in {"Activated", "Deactivated"} => portal'[bus'[i].of].state \in {"ready", "idle"}
  BY <1>4, <1>6
<1>8. QED
  BY <1>1, <1>3, <1>5, <1>7 DEF ListsAreSettled, Settled

\* A press acts through a backend that is ready.
LEMMA SettledSignal ==
  ASSUME IInv, KeyTypes, PressesWaitOnce, ListsAreSettled, HandleSignal
  PROVE  ListsAreSettled'
<1> DEFINE m == bus[1]
<1>1. /\ bus # <<>> /\ bus' = Tail(bus) /\ UNCHANGED <<registration, posted>>
      /\ m.of \in Gens /\ m.of <= gens /\ m.key \in Keys
      /\ \/ /\ Mine(m) /\ Pressed(m.of, m.key, m.press)
            /\ m.press \in Presses /\ acted[m.press] = None
         \/ UNCHANGED gesture
         \/ Release(m.of, m.key)
  BY HandlingSignal
<1>2. UNCHANGED <<portal, gens, posted>>
  BY <1>1 DEF registration
<1>3. \A n \in Presses : acted'[n] # None => acted'[n] \in Gens /\ acted'[n] <= gens /\ Settled(acted'[n])
  <2> HIDE DEF m
  <2>1. CASE UNCHANGED gesture \/ Release(m.of, m.key)
    BY <2>1 DEF gesture, Release, ListsAreSettled
  <2>2. CASE /\ Mine(m) /\ Pressed(m.of, m.key, m.press)
             /\ m.press \in Presses /\ acted[m.press] = None
    <3>1. /\ \A j \in Presses : j # m.press => acted'[j] = acted[j]
          /\ acted'[m.press] \in {None, m.of}
      BY <1>1, <2>2, RegistrationTypes, PressedDoes DEF KeyTypes
    <3>2. Settled(m.of)
      BY <2>2 DEF Mine, Settled
    <3>3. QED
      BY <1>1, <3>1, <3>2 DEF ListsAreSettled
  <2>3. QED
    BY <1>1, <2>1, <2>2
<1>4. \A i \in DOMAIN bus' : \E j \in DOMAIN bus : bus'[i] = bus[j]
  BY <1>1, BusShrinks
<1>5. \A i \in DOMAIN bus' : bus'[i].kind \in {"Activated", "Deactivated"} => Settled(bus'[i].of)
  BY <1>4 DEF ListsAreSettled
<1>6. QED
  BY <1>2, <1>3, <1>5 DEF ListsAreSettled, Settled

\* A press acts through a list that X11 served.
LEMMA SettledPosted ==
  ASSUME IInv, KeyTypes, PressesWaitOnce, ListsAreSettled, RunPosted
  PROVE  ListsAreSettled'
<1> DEFINE e == posted[1]
<1>1. /\ posted # <<>> /\ posted' = Tail(posted) /\ UNCHANGED <<registration, bus>>
      /\ e.of \in Gens /\ e.key \in Keys /\ 1 \in DOMAIN posted
      /\ \/ /\ Pressed(e.of, e.key, e.press)
            /\ e.press \in Presses /\ acted[e.press] = None
         \/ Release(e.of, e.key)
  BY RunningPosted DEF KeyTypes
<1>2. UNCHANGED <<portal, gens, bus>> /\ posted \in Seq(Edges)
  BY <1>1 DEF registration, KeyTypes, GrabTypes
<1>3. e.of <= gens /\ Settled(e.of)
  BY <1>1 DEF ListsAreSettled, Settled
<1>4. \A n \in Presses : acted'[n] # None => acted'[n] \in Gens /\ acted'[n] <= gens /\ Settled(acted'[n])
  <2> HIDE DEF e
  <2>1. CASE Release(e.of, e.key)
    BY <2>1 DEF Release, ListsAreSettled
  <2>2. CASE Pressed(e.of, e.key, e.press) /\ e.press \in Presses /\ acted[e.press] = None
    <3>1. /\ \A j \in Presses : j # e.press => acted'[j] = acted[j]
          /\ acted'[e.press] \in {None, e.of}
      BY <1>1, <2>2, RegistrationTypes, PressedDoes DEF KeyTypes
    <3>2. QED
      BY <1>1, <1>3, <3>1 DEF ListsAreSettled
  <2>3. QED
    BY <1>1, <2>1, <2>2
<1>5. \A i \in DOMAIN posted' : posted'[i] = posted[i + 1] /\ i + 1 \in DOMAIN posted
  BY <1>1, <1>2, TailIndices
<1>6. \A i \in DOMAIN posted' : posted'[i].of <= gens /\ portal[posted'[i].of].state = "idle"
  BY <1>5 DEF ListsAreSettled
<1>7. QED
  BY <1>2, <1>4, <1>6 DEF ListsAreSettled, Settled

\* The lists that presses, signals and edges name are settled after every step.
LEMMA NextSettled ==
  ASSUME IInv, PressInv, ListsAreSettled, [Next]_vars
  PROVE  ListsAreSettled'
<1>1. GestureTypes /\ GrabTypes /\ KeyTypes /\ PressesWaitOnce /\ posted \in Seq(Edges)
  BY DEF PressInv, KeyTypes, GrabTypes
<1>2. CASE Restart \/ HandleAnswer
  BY <1>1, <1>2, SettledRegistration
<1>3. CASE HandleSignal
  BY <1>1, <1>3, SettledSignal
<1>4. CASE RunPosted
  BY <1>1, <1>4, SettledPosted
<1>5. CASE \/ TrayToggles \/ UNCHANGED vars \/ \E k \in Keys : AutoRepeat(k)
  <2>1. UNCHANGED <<acted, portal, gens, posted, bus>>
    BY <1>5 DEF TrayToggles, vars, AutoRepeat, registration, gesture
  <2>2. QED
    BY <2>1, SettledSteps
<1>6. CASE PortalAnswers
  <2>1. UNCHANGED <<acted, portal, gens, posted>>
    BY <1>6 DEF PortalAnswers, registration, gesture
  <2>2. PICK m \in Messages : m.kind \in Kinds /\ bus' = Append(bus, m)
    BY <1>6, AnswersWorld
  <2>3. m.kind \notin {"Activated", "Deactivated"}
    BY <2>2 DEF Kinds
  <2>4. QED
    BY <2>1, <2>2, <2>3, SettledSteps
<1>7. CASE PortalCloses \/ PortalRestarts
  <2>1. UNCHANGED <<acted, portal, gens, posted>>
    BY <1>7 DEF PortalCloses, PortalRestarts, registration, gesture
  <2>2. \/ bus' = bus
        \/ \E m \in Messages : bus' = Append(bus, m) /\ m.kind \notin {"Activated", "Deactivated"}
    BY <1>7, FaultsWorld
  <2>3. QED
    BY <2>1, <2>2, SettledSteps
<1>8. ASSUME NEW k \in Keys, ReadKeyEvent(k) \/ FlushRelease(k) PROVE ListsAreSettled'
  <2>1. UNCHANGED <<acted, portal, gens, bus>>
    BY <1>8 DEF ReadKeyEvent, FlushRelease, registration, gesture
  <2>2. posted' = posted \/ \E e \in Edges : posted' = Append(posted, e) /\ e.of = x11
    <3>1. CASE ReadKeyEvent(k)
      <4> DEFINE s == xevents[k][1]
                 edge == [edge |-> "pressed", of |-> x11, key |-> k, press |-> s.press]
      <4>1. x11 # None /\ s \in Strokes /\ (posted' = posted \/ posted' = Append(posted, edge))
        BY <1>1, <3>1, ReadDoes
      <4>2. x11 \in Gens /\ s.press \in Nat
        BY <4>1, RegistrationTypes, Constants DEF Gens, None, Strokes
      <4>3. edge \in Edges /\ edge.of = x11
        BY <4>2 DEF Edges
      <4> HIDE DEF edge
      <4>4. QED
        BY <4>1, <4>3
    <3>2. CASE FlushRelease(k)
      BY <1>1, <3>2, FlushPosts
    <3>3. QED
      BY <1>8, <3>1, <3>2
  <2>3. QED
    BY <1>1, <2>1, <2>2, SettledSteps
<1>9. ASSUME NEW k \in Keys, KeyDown(k) \/ KeyUp(k) PROVE ListsAreSettled'
  <2>1. PICK n \in Nat, type \in {"press", "release"}, signal \in {"Activated", "Deactivated"} :
               KeyMoves(k, n, type, signal)
    BY <1>9, RegistrationTypes DEF KeyDown, KeyUp
  <2>2. UNCHANGED <<acted, portal, gens, posted>>
    BY <2>1 DEF KeyMoves, registration, gesture
  <2>3. \/ bus' = bus
        \/ /\ Signal(signal, held, k, n) \in Messages /\ bus' = Append(bus, Signal(signal, held, k, n))
           /\ Settled(held)
    BY <2>1, KeySignals DEF Hears, Settled
  <2>4. Signal(signal, held, k, n).of = held
    BY DEF Signal
  <2>5. QED
    BY <2>2, <2>3, <2>4, SettledSteps
<1>10. QED
  BY <1>2, <1>3, <1>4, <1>5, <1>6, <1>7, <1>8, <1>9 DEF Next

-----------------------------------------------------------------------------
(***************************************************************************)
(* Releases on their way                                                   *)
(***************************************************************************)
\* A release stays on its way while events join the list behind it.
LEMMA GrabStillReleases ==
  ASSUME GrabTypes, NEW k \in Keys, NEW i \in Nat, GrabReleases(k, i), x11' = x11,
         posted' = posted \/ \E e \in Edges : posted' = Append(posted, e),
         grab[k].active # None => grab'[k].active # None
  PROVE  GrabReleases(k, i)'
<1>1. posted \in Seq(Edges)
  BY DEF GrabTypes
<1>2. \A j \in Nat : LetsGo(k, j) => LetsGo(k, j)'
  <2> SUFFICES ASSUME NEW j \in Nat, LetsGo(k, j) PROVE LetsGo(k, j)'
    OBVIOUS
  <2>1. CASE posted' = posted
    BY <2>1 DEF LetsGo
  <2>2. CASE \E e \in Edges : posted' = Append(posted, e)
    <3>1. PICK e \in Edges : posted' = Append(posted, e)
      BY <2>2
    <3>2. j \in DOMAIN posted /\ posted[j].edge = "released" /\ posted[j].of = x11 /\ posted[j].key = k
      BY DEF LetsGo
    <3>3. j \in DOMAIN posted' /\ posted'[j] = posted[j]
      BY <1>1, <3>1, <3>2, AppendIndices
    <3>4. QED
      BY <3>2, <3>3 DEF LetsGo
  <2>3. QED
    BY <2>1, <2>2
<1>3. QED
  BY <1>2 DEF GrabReleases

\* The edge that the grab posts at last is the release.
LEMMA GrabReleasesNow ==
  ASSUME GrabTypes, NEW k \in Keys, NEW i \in Nat, i <= Len(posted), x11' = x11,
         NEW e \in Edges, posted' = Append(posted, e),
         e.edge = "released" /\ e.of = x11 /\ e.key = k
  PROVE  GrabReleases(k, i)'
<1>1. posted \in Seq(Edges)
  BY DEF GrabTypes
<1>2. PICK j \in Nat : j > i /\ j \in DOMAIN posted' /\ posted'[j] = e
  <2>1. LET j == Len(posted) + 1 IN j \in Nat /\ j > i /\ j \in DOMAIN posted' /\ posted'[j] = e
    BY <1>1
  <2>2. QED
    BY <2>1
<1>3. LetsGo(k, j)'
  BY <1>2 DEF LetsGo
<1>4. QED
  BY <1>2, <1>3 DEF GrabReleases

\* The Qt thread runs an edge that is not this release.
LEMMA GrabReleasesNext ==
  ASSUME GrabTypes, NEW k \in Keys, NEW i \in Nat, GrabReleases(k, i + 1), x11' = x11,
         posted # <<>>, posted' = Tail(posted), grab' = grab
  PROVE  GrabReleases(k, i)'
<1>1. posted \in Seq(Edges)
  BY DEF GrabTypes
<1>2. CASE grab[k].active # None
  BY <1>2 DEF GrabReleases
<1>3. CASE \E j \in Nat : j > i + 1 /\ LetsGo(k, j)
  <2>1. PICK j \in Nat : j > i + 1 /\ LetsGo(k, j)
    BY <1>3
  <2>2. /\ j \in DOMAIN posted /\ posted[j].edge = "released" /\ posted[j].of = x11
        /\ posted[j].key = k
    BY <2>1 DEF LetsGo
  <2>3. j - 1 \in DOMAIN posted' /\ posted'[j - 1] = posted[j] /\ j - 1 \in Nat /\ j - 1 > i
    BY <1>1, <2>1, <2>2, TailIndices
  <2>4. LetsGo(k, j - 1)'
    BY <2>2, <2>3 DEF LetsGo
  <2>5. QED
    BY <2>3, <2>4 DEF GrabReleases
<1>4. QED
  BY <1>2, <1>3 DEF GrabReleases

\* The same for the portal's signals.
LEMMA PortalStillReleases ==
  ASSUME IInv, NEW g \in Gens, NEW k \in Keys, NEW i \in Nat, PortalReleases(g, k, i),
         granted'[g] = granted[g], down[k] # None => down'[k] # None,
         bus' = bus \/ \E m \in Messages : bus' = Append(bus, m)
  PROVE  PortalReleases(g, k, i)'
<1>1. bus \in Seq(Messages)
  BY RegistrationTypes
<1>2. \A j \in Nat : Ends(g, k, j) => Ends(g, k, j)'
  <2> SUFFICES ASSUME NEW j \in Nat, Ends(g, k, j) PROVE Ends(g, k, j)'
    OBVIOUS
  <2>1. CASE bus' = bus
    BY <2>1 DEF Ends
  <2>2. CASE \E m \in Messages : bus' = Append(bus, m)
    <3>1. PICK m \in Messages : bus' = Append(bus, m)
      BY <2>2
    <3>2. j \in DOMAIN bus /\ bus[j].kind = "Deactivated" /\ bus[j].of = g /\ bus[j].key = k
      BY DEF Ends
    <3>3. j \in DOMAIN bus' /\ bus'[j] = bus[j]
      BY <1>1, <3>1, <3>2, AppendIndices
    <3>4. QED
      BY <3>2, <3>3 DEF Ends
  <2>3. QED
    BY <2>1, <2>2
<1>3. QED
  BY <1>2 DEF PortalReleases

\* The last signal of the portal is the release.
LEMMA PortalReleasesNow ==
  ASSUME IInv, NEW g \in Gens, NEW k \in Keys, NEW i \in Nat, i <= Len(bus), k \in granted'[g],
         NEW m \in Messages, bus' = Append(bus, m),
         m.kind = "Deactivated" /\ m.of = g /\ m.key = k
  PROVE  PortalReleases(g, k, i)'
<1>1. bus \in Seq(Messages)
  BY RegistrationTypes
<1>2. PICK j \in Nat : j > i /\ j \in DOMAIN bus' /\ bus'[j] = m
  <2>1. LET j == Len(bus) + 1 IN j \in Nat /\ j > i /\ j \in DOMAIN bus' /\ bus'[j] = m
    BY <1>1
  <2>2. QED
    BY <2>1
<1>3. Ends(g, k, j)'
  BY <1>2 DEF Ends
<1>4. QED
  BY <1>2, <1>3 DEF PortalReleases

\* The Qt thread handles a message that is not this release.
LEMMA PortalReleasesNext ==
  ASSUME IInv, NEW g \in Gens, NEW k \in Keys, NEW i \in Nat, PortalReleases(g, k, i + 1),
         granted' = granted, down' = down, bus # <<>>, bus' = Tail(bus)
  PROVE  PortalReleases(g, k, i)'
<1>1. bus \in Seq(Messages)
  BY RegistrationTypes
<1>2. CASE down[k] # None
  BY <1>2 DEF PortalReleases
<1>3. CASE \E j \in Nat : j > i + 1 /\ Ends(g, k, j)
  <2>1. PICK j \in Nat : j > i + 1 /\ Ends(g, k, j)
    BY <1>3
  <2>2. j \in DOMAIN bus /\ bus[j].kind = "Deactivated" /\ bus[j].of = g /\ bus[j].key = k
    BY <2>1 DEF Ends
  <2>3. j - 1 \in DOMAIN bus' /\ bus'[j - 1] = bus[j] /\ j - 1 \in Nat /\ j - 1 > i
    BY <1>1, <2>1, <2>2, TailIndices
  <2>4. Ends(g, k, j - 1)'
    BY <2>2, <2>3 DEF Ends
  <2>5. QED
    BY <2>3, <2>4 DEF PortalReleases
<1>4. QED
  BY <1>2, <1>3 DEF PortalReleases

\* What does not let go of a key at the head of a list comes later in it.
LEMMA ReleasesLater ==
  ASSUME NEW g, NEW k
  PROVE  /\ GrabReleases(k, 0) => LetsGo(k, 1) \/ GrabReleases(k, 0 + 1)
         /\ PortalReleases(g, k, 0) => Ends(g, k, 1) \/ PortalReleases(g, k, 0 + 1)
<1>1. \A j \in Nat : j > 0 => j = 1 \/ j > 0 + 1
  OBVIOUS
<1>2. QED
  BY <1>1 DEF GrabReleases, PortalReleases

\* Of the messages on the bus those behind the head are left, one place nearer.
LEMMA BusMovesUp ==
  ASSUME IInv, bus # <<>>, bus' = Tail(bus)
  PROVE  /\ \A i \in DOMAIN bus' : /\ i \in Nat /\ i + 1 \in DOMAIN bus /\ bus'[i] = bus[i + 1]
         /\ 1 \in DOMAIN bus /\ Head(bus) = bus[1]
<1>1. bus \in Seq(Messages)
  BY RegistrationTypes
<1>2. QED
  BY <1>1, TailIndices

\* The same for the edges.
LEMMA PostedMovesUp ==
  ASSUME GrabTypes, posted # <<>>, posted' = Tail(posted)
  PROVE  \A i \in DOMAIN posted' : i \in Nat /\ i + 1 \in DOMAIN posted /\ posted'[i] = posted[i + 1]
<1>1. posted \in Seq(Edges)
  BY DEF GrabTypes
<1>2. QED
  BY <1>1, TailIndices

\* Every edge names a list, a key and a place.
LEMMA EdgesAre ==
  ASSUME GrabTypes, NEW i \in DOMAIN posted
  PROVE  i \in Nat /\ i > 0 /\ i <= Len(posted) /\ posted[i] \in Edges /\ posted[i].of \in Gens /\ posted[i].key \in Keys
<1>1. posted \in Seq(Edges)
  BY DEF GrabTypes
<1>2. i \in Nat /\ i > 0 /\ i <= Len(posted) /\ posted[i] \in Edges
  BY <1>1
<1>3. QED
  BY <1>2 DEF Edges

\* Every signal names a list, a key and a place.
LEMMA SignalsAre ==
  ASSUME IInv, NEW i \in DOMAIN bus, bus[i].kind \in {"Activated", "Deactivated"}
  PROVE  i \in Nat /\ i > 0 /\ i <= Len(bus) /\ bus[i] \in Messages /\ bus[i].of \in Gens
         /\ bus[i].of <= gens /\ bus[i].key \in Keys
<1>1. bus \in Seq(Messages) /\ bus[i].of <= gens
  BY RegistrationTypes
<1>2. i \in Nat /\ i > 0 /\ i <= Len(bus) /\ bus[i] \in Messages
  BY <1>1
<1>3. QED
  BY <1>1, <1>2, SignalHasKey

\* A list whose backend serves after a registration step served before it.
LEMMA LiveBefore ==
  ASSUME IInv, Restart \/ HandleAnswer, NEW g \in Gens, g <= gens, Settled(g), Live(g)'
  PROVE  Live(g) /\ portal'[g] = portal[g] /\ modeOf'[g] = modeOf[g]
<1>1. /\ modeOf'[g] = modeOf[g] /\ (g \in open' => g \in open) /\ portal'[g] \in {portal[g], Idle}
  BY ListKept
<1>2. portal'[g].state = "ready" /\ g \in open'
  BY DEF Live
<1>3. portal'[g] = portal[g]
  BY <1>1, <1>2, Constants
<1>4. QED
  BY <1>1, <1>2, <1>3 DEF Live

\* A backend serves only while no grab does.
LEMMA LiveIsAlone ==
  ASSUME IInv, NEW g \in Gens, portal[g].state = "ready"
  PROVE  x11 = None /\ held = g
  BY NowIs DEF IInv, RegInv, Sole, Serving

-----------------------------------------------------------------------------
(***************************************************************************)
(* A registration step                                                     *)
(***************************************************************************)
LEMMA PressesEndRestart ==
  ASSUME IInv, KeyTypes, ListsAreSettled, PressesEnd, Restart
  PROVE  PressesEnd'
<1>1. UNCHANGED <<granted, bus, down, posted>>
  BY Restarted DEF KeyTypes
<1>2. x11' = None \/ x11' > gens
  <2>1. PICK q : Become(q) /\ (q.x11 = None \/ q.x11 > gens)
    BY RestartAges
  <2>2. QED
    BY <2>1 DEF Become
<1>3. \A i \in DOMAIN posted : posted[i].of # x11'
  <2> SUFFICES ASSUME NEW i \in DOMAIN posted PROVE posted[i].of # x11'
    OBVIOUS
  <2>1. posted[i].of \in Gens /\ posted[i].of <= gens
    BY EdgesAre DEF ListsAreSettled, KeyTypes
  <2>2. PICK h : h = posted[i].of
    OBVIOUS
  <2>3. h \in Nat /\ h # None /\ h <= gens /\ gens \in Nat
    BY <2>1, <2>2, Constants, RegistrationTypes
  <2>4. h # x11'
    BY <1>2, <2>3
  <2>5. QED
    BY <2>2, <2>4
<1>4. ASSUME NEW i \in DOMAIN bus, bus[i].kind = "Activated", Live(bus[i].of)'
      PROVE  PortalReleases(bus[i].of, bus[i].key, i)'
  <2>1. bus[i].of \in Gens /\ bus[i].of <= gens /\ Settled(bus[i].of)
    BY <1>4, SignalsAre DEF ListsAreSettled
  <2>2. portal'[bus[i].of].state = "ready" /\ bus[i].of \in open'
    BY <1>1, <1>4 DEF Live
  <2>3. Live(bus[i].of)
    <3> DEFINE g == bus[i].of
    <3> HIDE DEF g
    <3>1. g \in Gens /\ g <= gens /\ Settled(g) /\ portal'[g].state = "ready" /\ g \in open'
      BY <2>1, <2>2 DEF g
    <3>2. /\ (g \in open' => g \in open) /\ portal'[g] \in {portal[g], Idle}
      BY <3>1, ListKept
    <3>3. portal[g].state = "ready" /\ g \in open
      BY <3>1, <3>2, Constants
    <3>4. QED
      BY <3>3 DEF Live, g
  <2>4. PortalReleases(bus[i].of, bus[i].key, i)
    BY <1>4, <2>3 DEF PressesEnd
  <2>5. QED
    BY <1>1, <2>4 DEF PortalReleases, Ends
<1>5. QED
  BY <1>1, <1>3, <1>4 DEF PressesEnd

\* The recording of a replaced grab was stopped, one of a backend has no list to end it.
LEMMA RecordingEndsRestart ==
  ASSUME IInv, KeyTypes, ListsAreSettled, RecordingEnds, Restart
  PROVE  RecordingEnds'
<1>1. /\ UNCHANGED <<granted, bus, down, posted, acted>> /\ recording' \in {recording, None}
      /\ \A g \in Gens, k \in Keys : g # x11 => (Owner(g, k)' <=> Owner(g, k))
  BY Restarted DEF KeyTypes
<1>2. x11' = None \/ x11' > gens
  <2>1. PICK q : Become(q) /\ (q.x11 = None \/ q.x11 > gens)
    BY RestartAges
  <2>2. QED
    BY <2>1 DEF Become
<1> SUFFICES ASSUME recording' \in Presses, NEW g, g = acted'[recording']
             PROVE  KeyEnds(g)'
  BY DEF RecordingEnds, KeyEnds
<1>3. recording' = recording
  BY <1>1, Constants DEF Presses, None
<1>4. g = acted[recording] /\ KeyEnds(g)
  BY <1>1, <1>3 DEF RecordingEnds
<1>5. g \in Gens /\ g <= gens /\ Settled(g) /\ g # None
  BY <1>3, <1>4 DEF ListsAreSettled, KeyEnds
<1>6. g # x11'
  BY <1>2, <1>5, Constants, RegistrationTypes
<1>7. ASSUME modeOf'[g] = "push-to-talk", Live(g)'
      PROVE  \E k \in Keys : Owner(g, k)' /\ k \in portal'[g].bindings /\ PortalReleases(g, k, 0)'
  <2>1. Live(g) /\ portal'[g] = portal[g] /\ modeOf'[g] = modeOf[g]
    BY <1>5, <1>7, LiveBefore
  <2>2. x11 = None
    BY <1>5, <2>1, LiveIsAlone DEF Live
  <2>3. PICK k \in Keys : Owner(g, k) /\ k \in portal[g].bindings /\ PortalReleases(g, k, 0)
    BY <1>4, <1>7, <2>1 DEF KeyEnds
  <2>4. Owner(g, k)'
    BY <1>1, <1>5, <2>2, <2>3
  <2>5. PortalReleases(g, k, 0)'
    BY <1>1, <2>3 DEF PortalReleases, Ends
  <2>6. QED
    BY <2>1, <2>3, <2>4, <2>5
<1>8. QED
  BY <1>5, <1>6, <1>7 DEF KeyEnds

\* An answer of the portal changes no gesture and no grab.
LEMMA AnswerTakes ==
  ASSUME IInv, HandleAnswer
  PROVE  /\ bus # <<>> /\ bus' = Tail(bus) /\ bus[1].kind \notin {"Activated", "Deactivated"}
         /\ UNCHANGED <<granted, down, posted, grab, controller, recording, acted>>
         /\ x11' = x11 \/ x11' = None \/ x11' > gens
<1>1. /\ bus # <<>> /\ bus' = Tail(bus) /\ Head(bus).kind \notin {"Activated", "Deactivated"}
      /\ UNCHANGED <<granted, down, posted, grab, controller, recording, acted>>
  BY DEF HandleAnswer, keyboard, gesture
<1>2. bus[1] = Head(bus)
  BY <1>1, BusMovesUp
<1>3. QED
  BY <1>1, <1>2, ListsGrow

\* An answer of the portal takes no release from the lists.
LEMMA PressesEndAnswer ==
  ASSUME IInv, KeyTypes, ListsAreSettled, PressesEnd, HandleAnswer
  PROVE  PressesEnd'
<1>1. /\ bus # <<>> /\ bus' = Tail(bus) /\ UNCHANGED <<granted, down, posted, grab>>
      /\ x11' = x11 \/ x11' = None \/ x11' > gens
  BY AnswerTakes
<1>2. ASSUME NEW i \in DOMAIN posted, posted[i].edge = "pressed", posted[i].of = x11'
      PROVE  GrabReleases(posted[i].key, i)'
  <2>1. PICK h \in Gens : h = posted[i].of /\ h <= gens
    BY EdgesAre DEF ListsAreSettled, KeyTypes
  <2>2. x11' = x11
    BY <1>1, <1>2, <2>1, Constants, RegistrationTypes
  <2>3. GrabReleases(posted[i].key, i)
    BY <1>2, <2>2 DEF PressesEnd
  <2>4. QED
    BY <1>1, <2>2, <2>3 DEF GrabReleases, LetsGo
<1>3. ASSUME NEW i \in DOMAIN bus', bus'[i].kind = "Activated",
             NEW g, g = bus'[i].of, NEW k, k = bus'[i].key, Live(g)'
      PROVE  PortalReleases(g, k, i)'
  <2>1. i \in Nat /\ i + 1 \in DOMAIN bus /\ bus'[i] = bus[i + 1]
    BY <1>1, <1>3, BusMovesUp
  <2>2. bus[i + 1].kind = "Activated" /\ g = bus[i + 1].of /\ k = bus[i + 1].key
    BY <1>3, <2>1
  <2>3. g \in Gens /\ g <= gens /\ k \in Keys /\ Settled(g)
    BY <2>1, <2>2, SignalsAre DEF ListsAreSettled
  <2>4. Live(g)
    BY <1>3, <2>3, LiveBefore
  <2>5. PortalReleases(g, k, i + 1)
    BY <2>1, <2>2, <2>4 DEF PressesEnd
  <2>6. QED
    BY <1>1, <2>1, <2>3, <2>5, PortalReleasesNext
<1>4. QED
  BY <1>1, <1>2, <1>3 DEF PressesEnd, PortalReleases, Ends, Live, GrabReleases, LetsGo

\* Nor from the recording.
LEMMA RecordingEndsAnswer ==
  ASSUME IInv, KeyTypes, ListsAreSettled, RecordingEnds, HandleAnswer
  PROVE  RecordingEnds'
<1>1. /\ bus # <<>> /\ bus' = Tail(bus) /\ bus[1].kind \notin {"Activated", "Deactivated"}
      /\ UNCHANGED <<granted, down, posted, grab, controller, recording, acted>>
      /\ x11' = x11 \/ x11' = None \/ x11' > gens
  BY AnswerTakes
<1> SUFFICES ASSUME recording' \in Presses, NEW g, g = acted'[recording']
             PROVE  KeyEnds(g)'
  BY DEF RecordingEnds, KeyEnds
<1>2. g = acted[recording] /\ KeyEnds(g) /\ recording \in Presses
  BY <1>1 DEF RecordingEnds
<1>3. g \in Gens /\ g <= gens /\ Settled(g) /\ g # None
  BY <1>2 DEF ListsAreSettled, KeyEnds
<1>4. modeOf'[g] = modeOf[g]
  BY <1>3, ListKept
<1>5. ASSUME modeOf'[g] = "push-to-talk", g = x11'
      PROVE  \E k \in Keys : Owner(g, k)' /\ GrabReleases(k, 0)'
  <2>1. x11' = x11
    BY <1>1, <1>3, <1>5, Constants, RegistrationTypes
  <2>2. PICK k \in Keys : Owner(g, k) /\ GrabReleases(k, 0)
    BY <1>2, <1>4, <1>5, <2>1 DEF KeyEnds
  <2>3. Owner(g, k)' /\ GrabReleases(k, 0)'
    BY <1>1, <2>1, <2>2 DEF Owner, GrabReleases, LetsGo
  <2>4. QED
    BY <2>3
<1>6. ASSUME modeOf'[g] = "push-to-talk", Live(g)'
      PROVE  \E k \in Keys : Owner(g, k)' /\ k \in portal'[g].bindings /\ PortalReleases(g, k, 0)'
  <2>1. Live(g) /\ portal'[g] = portal[g]
    BY <1>3, <1>6, LiveBefore
  <2>2. PICK k \in Keys : Owner(g, k) /\ k \in portal[g].bindings /\ PortalReleases(g, k, 0)
    BY <1>2, <1>4, <1>6, <2>1 DEF KeyEnds
  <2>3. ~Ends(g, k, 1)
    BY <1>1 DEF Ends
  <2>4. PortalReleases(g, k, 0 + 1)
    BY <2>2, <2>3, ReleasesLater
  <2>5. PortalReleases(g, k, 0)'
    BY <1>1, <1>3, <2>4, PortalReleasesNext
  <2>6. Owner(g, k)'
    BY <1>1, <2>2 DEF Owner
  <2>7. QED
    BY <2>1, <2>2, <2>5, <2>6
<1>7. QED
  BY <1>3, <1>5, <1>6 DEF KeyEnds

-----------------------------------------------------------------------------
(***************************************************************************)
(* A signal and an edge                                                    *)
(***************************************************************************)
LEMMA PressesEndSignal ==
  ASSUME IInv, KeyTypes, PressesWaitOnce, PressesEnd, HandleSignal
  PROVE  PressesEnd'
<1>1. /\ bus # <<>> /\ bus' = Tail(bus)
      /\ UNCHANGED <<registration, pending, open, granted, keyboard, xevents, grab, posted>>
  BY HandlingSignal
<1>2. UNCHANGED <<x11, portal, open, granted, down, grab, posted>>
  BY <1>1 DEF registration, keyboard
<1>3. ASSUME NEW i \in DOMAIN bus', bus'[i].kind = "Activated",
             NEW g, g = bus'[i].of, NEW k, k = bus'[i].key, Live(g)'
      PROVE  PortalReleases(g, k, i)'
  <2>1. i \in Nat /\ i + 1 \in DOMAIN bus /\ bus'[i] = bus[i + 1]
    BY <1>1, <1>3, BusMovesUp
  <2>2. bus[i + 1].kind = "Activated" /\ g = bus[i + 1].of /\ k = bus[i + 1].key
    BY <1>3, <2>1
  <2>3. g \in Gens /\ k \in Keys
    BY <2>1, <2>2, SignalsAre
  <2>4. Live(g)
    BY <1>2, <1>3 DEF Live
  <2>5. PortalReleases(g, k, i + 1)
    BY <2>1, <2>2, <2>4 DEF PressesEnd
  <2>6. QED
    BY <1>1, <1>2, <2>1, <2>3, <2>5, PortalReleasesNext
<1>4. ASSUME NEW i \in DOMAIN posted, posted[i].edge = "pressed", posted[i].of = x11
      PROVE  GrabReleases(posted[i].key, i)'
  BY <1>2, <1>4 DEF PressesEnd, GrabReleases, LetsGo
<1>5. QED
  BY <1>2, <1>3, <1>4 DEF PressesEnd, PortalReleases, Ends, Live, GrabReleases, LetsGo

\* The edges behind the one that was run keep their releases.
LEMMA PressesEndPosted ==
  ASSUME IInv, KeyTypes, PressesWaitOnce, PressesEnd, RunPosted
  PROVE  PressesEnd'
<1>1. /\ posted # <<>> /\ posted' = Tail(posted) /\ GrabTypes
      /\ UNCHANGED <<registration, pending, open, granted, bus, keyboard, xevents, grab>>
  BY RunningPosted DEF KeyTypes
<1>2. UNCHANGED <<x11, portal, open, granted, down, grab, bus>>
  BY <1>1 DEF registration, keyboard
<1>3. ASSUME NEW i \in DOMAIN posted', posted'[i].edge = "pressed", posted'[i].of = x11',
             NEW k, k = posted'[i].key
      PROVE  GrabReleases(k, i)'
  <2>1. i \in Nat /\ i + 1 \in DOMAIN posted /\ posted'[i] = posted[i + 1]
    BY <1>1, <1>3, PostedMovesUp
  <2>2. k \in Keys /\ posted[i + 1].edge = "pressed" /\ posted[i + 1].of = x11 /\ k = posted[i + 1].key
    BY <1>1, <1>2, <1>3, <2>1, EdgesAre
  <2>3. GrabReleases(k, i + 1)
    BY <2>1, <2>2 DEF PressesEnd
  <2>4. QED
    BY <1>1, <1>2, <2>1, <2>2, <2>3, GrabReleasesNext
<1>4. ASSUME NEW i \in DOMAIN bus, bus[i].kind = "Activated", Live(bus[i].of)
      PROVE  PortalReleases(bus[i].of, bus[i].key, i)'
  BY <1>2, <1>4 DEF PressesEnd, PortalReleases, Ends
<1>5. QED
  BY <1>2, <1>3, <1>4 DEF PressesEnd, PortalReleases, Ends, Live, GrabReleases, LetsGo

\* A backend that is ready has its session.
LEMMA LiveHasSession ==
  ASSUME IInv, NEW g \in Gens, portal[g].state = "ready"
  PROVE  portal[g].session
  BY NowIs DEF IInv, RegInv, HasSession

\* A signal ends the recording, starts one whose release is due or leaves it.
LEMMA RecordingEndsSignal ==
  ASSUME IInv, KeyTypes, PressesWaitOnce, ListsAreSettled, PressesEnd, RecordingEnds, HandleSignal
  PROVE  RecordingEnds'
<1>0. PICK m : m = bus[1]
  OBVIOUS
<1>1. /\ bus # <<>> /\ bus' = Tail(bus) /\ 1 \in DOMAIN bus
      /\ m \in Messages /\ m.of \in Gens /\ m.of <= gens /\ m.key \in Keys
      /\ UNCHANGED <<registration, pending, open, granted, keyboard, xevents, grab, posted>>
      /\ \/ /\ m.kind = "Activated" /\ Mine(m) /\ Pressed(m.of, m.key, m.press)
            /\ m.press \in Presses /\ m.press <= presses /\ acted[m.press] = None
         \/ /\ m.kind = "Activated" /\ ~Mine(m) /\ UNCHANGED gesture
         \/ /\ m.kind = "Deactivated" /\ Mine(m) /\ modeOf[m.of] = "push-to-talk"
            /\ Release(m.of, m.key)
         \/ /\ m.kind = "Deactivated" /\ ~(Mine(m) /\ modeOf[m.of] = "push-to-talk")
            /\ UNCHANGED gesture
  BY <1>0, HandlingSignal
<1>2. UNCHANGED <<x11, modeOf, portal, open, granted, down, grab, posted>>
  BY <1>1 DEF registration, keyboard
<1>3. GestureTypes /\ modeOf \in [Gens -> Modes]
  BY RegistrationTypes DEF KeyTypes
<1>4. \/ recording' = None
      \/ /\ recording' = recording /\ (recording \in Presses => acted'[recording] = acted[recording])
         /\ \A h \in Gens, j \in Keys :
              \/ Owner(h, j)' <=> Owner(h, j)
              \/ /\ m.kind = "Deactivated" /\ Mine(m) /\ h = m.of /\ j = m.key
                 /\ ~(modeOf[h] = "push-to-talk" /\ Owner(h, j))
         /\ \A h \in Gens, j \in Keys :
              Ends(h, j, 1) => ~(Mine(m) /\ modeOf[h] = "push-to-talk" /\ Owner(h, j))
      \/ /\ m.kind = "Activated" /\ Mine(m) /\ recording' = m.press /\ acted'[m.press] = m.of
         /\ modeOf[m.of] = "push-to-talk" => Owner(m.of, m.key)'
  <2>1. \A h \in Gens, j \in Keys : Ends(h, j, 1) => h = m.of /\ j = m.key /\ m.kind = "Deactivated"
    BY <1>0 DEF Ends
  <2>2. CASE UNCHANGED gesture /\ (m.kind = "Activated" \/ ~(Mine(m) /\ modeOf[m.of] = "push-to-talk"))
    <3>1. recording' = recording /\ acted' = acted /\ controller' = controller
      BY <2>2 DEF gesture
    <3>2. \A h \in Gens, j \in Keys : Owner(h, j)' <=> Owner(h, j)
      BY <3>1 DEF Owner
    <3>3. QED
      BY <2>1, <2>2, <3>1, <3>2
  <2>3. CASE m.kind = "Deactivated" /\ Mine(m) /\ modeOf[m.of] = "push-to-talk" /\ Release(m.of, m.key)
    <3>1. /\ acted' = acted /\ recording' \in {recording, None}
          /\ \A h \in Gens, j \in Keys : h # m.of \/ j # m.key => (Owner(h, j)' <=> Owner(h, j))
          /\ modeOf[m.of] = "push-to-talk" /\ Owner(m.of, m.key) => recording' = None
      BY <1>1, <1>3, <2>3, ReleaseDoes
    <3>2. QED
      BY <2>1, <2>3, <3>1
  <2>4. CASE /\ m.kind = "Activated" /\ Mine(m) /\ Pressed(m.of, m.key, m.press)
             /\ m.press \in Presses /\ acted[m.press] = None
    <3>1. /\ \A j \in Presses : j # m.press => acted'[j] = acted[j]
          /\ \/ recording' = None
             \/ /\ recording' = recording
                /\ \A h \in Gens, j \in Keys : Owner(h, j)' <=> Owner(h, j)
             \/ /\ recording' = m.press /\ acted'[m.press] = m.of
                /\ modeOf[m.of] = "push-to-talk" => Owner(m.of, m.key)'
      BY <1>1, <1>3, <2>4, PressedDoes
    <3>2. recording \in Presses => recording # m.press
      BY <2>4 DEF RecordingEnds, KeyEnds
    <3>3. m.kind # "Deactivated"
      BY <2>4
    <3>4. QED
      BY <2>1, <2>4, <3>1, <3>2, <3>3
  <2>5. QED
    BY <1>1, <2>2, <2>3, <2>4
<1> SUFFICES ASSUME recording' \in Presses, NEW g, g = acted'[recording']
             PROVE  KeyEnds(g)'
  BY DEF RecordingEnds, KeyEnds
<1>5. recording' # None
  BY Constants DEF Presses, None
<1>6. Mine(m) => portal[m.of].state = "ready" /\ x11 = None /\ m.key \in portal[m.of].bindings
  BY <1>1, LiveIsAlone DEF Mine
<1>7. CASE /\ recording' = recording /\ (recording \in Presses => acted'[recording] = acted[recording])
           /\ \A h \in Gens, j \in Keys :
                \/ Owner(h, j)' <=> Owner(h, j)
                \/ /\ m.kind = "Deactivated" /\ Mine(m) /\ h = m.of /\ j = m.key
                   /\ ~(modeOf[h] = "push-to-talk" /\ Owner(h, j))
           /\ \A h \in Gens, j \in Keys :
                Ends(h, j, 1) => ~(Mine(m) /\ modeOf[h] = "push-to-talk" /\ Owner(h, j))
  <2>1. g = acted[recording] /\ KeyEnds(g) /\ recording \in Presses
    BY <1>7 DEF RecordingEnds
  <2>2. g \in Gens /\ g # None
    BY <2>1 DEF ListsAreSettled, KeyEnds
  <2>3. ASSUME modeOf[g] = "push-to-talk", g = x11
        PROVE  \E k \in Keys : Owner(g, k)' /\ GrabReleases(k, 0)'
    <3>1. PICK k \in Keys : Owner(g, k) /\ GrabReleases(k, 0)
      BY <2>1, <2>3 DEF KeyEnds
    <3>2. Owner(g, k)'
      BY <1>6, <1>7, <2>2, <2>3, <3>1
    <3>3. GrabReleases(k, 0)'
      BY <1>2, <3>1 DEF GrabReleases, LetsGo
    <3>4. QED
      BY <3>2, <3>3
  <2>4. ASSUME modeOf[g] = "push-to-talk", Live(g)
        PROVE  \E k \in Keys : Owner(g, k)' /\ k \in portal[g].bindings /\ PortalReleases(g, k, 0)'
    <3>1. PICK k \in Keys : Owner(g, k) /\ k \in portal[g].bindings /\ PortalReleases(g, k, 0)
      BY <2>1, <2>4 DEF KeyEnds
    <3>2. Owner(g, k)'
      BY <1>7, <2>2, <2>4, <3>1
    <3>3. ~Ends(g, k, 1)
      <4>1. Ends(g, k, 1) => m.of = g /\ m.key = k
        BY <1>0 DEF Ends
      <4>2. portal[g].session
        BY <2>2, <2>4, LiveHasSession DEF Live
      <4>3. Ends(g, k, 1) => Mine(m)
        BY <2>4, <3>1, <4>1, <4>2 DEF Mine, Live
      <4>4. QED
        BY <1>7, <2>2, <2>4, <3>1, <4>3
    <3>4. PortalReleases(g, k, 0 + 1)
      BY <3>1, <3>3, ReleasesLater
    <3>5. PortalReleases(g, k, 0)'
      BY <1>1, <1>2, <2>2, <3>4, PortalReleasesNext
    <3>6. QED
      BY <3>1, <3>2, <3>5
  <2>5. QED
    BY <1>2, <2>2, <2>3, <2>4 DEF KeyEnds, Live
<1>8. CASE /\ m.kind = "Activated" /\ Mine(m) /\ recording' = m.press /\ acted'[m.press] = m.of
           /\ modeOf[m.of] = "push-to-talk" => Owner(m.of, m.key)'
  <2>1. g = m.of /\ g \in Gens /\ g # None /\ x11 = None
    BY <1>1, <1>6, <1>8, Constants
  <2>2. PICK k \in Keys : k = m.key
    BY <1>1
  <2>3. ASSUME modeOf[g] = "push-to-talk", Live(g)
        PROVE  Owner(g, k)' /\ k \in portal[g].bindings /\ PortalReleases(g, k, 0)'
    <3>1. Owner(g, k)'
      BY <1>8, <2>1, <2>2, <2>3
    <3>2. PortalReleases(g, k, 0 + 1)
      <4>1. PortalReleases(m.of, m.key, 1)
        BY <1>0, <1>1, <1>8, <2>1, <2>3 DEF PressesEnd
      <4>2. 0 + 1 = 1
        OBVIOUS
      <4>3. QED
        BY <2>1, <2>2, <4>1, <4>2
    <3>3. PortalReleases(g, k, 0)'
      BY <1>1, <1>2, <2>1, <3>2, PortalReleasesNext
    <3>4. QED
      BY <1>6, <1>8, <2>1, <2>2, <3>1, <3>3
  <2>4. QED
    BY <1>2, <2>1, <2>3 DEF KeyEnds, Live
<1>9. QED
  BY <1>4, <1>5, <1>7, <1>8

\* So does an edge.
LEMMA RecordingEndsPosted ==
  ASSUME IInv, KeyTypes, PressesWaitOnce, ListsAreSettled, PressesEnd, RecordingEnds, RunPosted
  PROVE  RecordingEnds'
<1>0. PICK e : e = posted[1]
  OBVIOUS
<1>1. /\ posted # <<>> /\ posted' = Tail(posted) /\ 1 \in DOMAIN posted
      /\ e \in Edges /\ e.of \in Gens /\ e.key \in Keys
      /\ UNCHANGED <<registration, pending, open, granted, bus, keyboard, xevents, grab>>
      /\ \/ /\ e.edge = "pressed" /\ Pressed(e.of, e.key, e.press)
            /\ e.press \in Presses /\ e.press <= presses /\ acted[e.press] = None
         \/ e.edge = "released" /\ Release(e.of, e.key)
  BY <1>0, RunningPosted DEF KeyTypes
<1>2. UNCHANGED <<x11, modeOf, portal, open, granted, down, grab, bus>>
  BY <1>1 DEF registration, keyboard
<1>3. GestureTypes /\ GrabTypes /\ modeOf \in [Gens -> Modes]
  BY RegistrationTypes DEF KeyTypes
<1>4. portal[e.of].state = "idle"
  BY <1>0, <1>1 DEF ListsAreSettled
<1>5. \A j \in Keys : LetsGo(j, 1) => e.edge = "released" /\ e.of = x11 /\ e.key = j
  BY <1>0 DEF LetsGo
<1>6. \/ recording' = None
      \/ /\ recording' = recording /\ (recording \in Presses => acted'[recording] = acted[recording])
         /\ \A h \in Gens, j \in Keys :
              \/ (Owner(h, j)' <=> Owner(h, j)) /\ ~(e.edge = "released" /\ h = e.of /\ j = e.key)
              \/ h = e.of /\ e.edge = "pressed" /\ (Owner(h, j)' <=> Owner(h, j))
              \/ h = e.of /\ ~(modeOf[h] = "push-to-talk" /\ Owner(h, j))
      \/ /\ e.edge = "pressed" /\ recording' = e.press /\ acted'[e.press] = e.of
         /\ modeOf[e.of] = "push-to-talk" => Owner(e.of, e.key)'
  <2>1. CASE e.edge = "released" /\ Release(e.of, e.key)
    <3>1. /\ acted' = acted /\ recording' \in {recording, None}
          /\ \A h \in Gens, j \in Keys : h # e.of \/ j # e.key => (Owner(h, j)' <=> Owner(h, j))
          /\ modeOf[e.of] = "push-to-talk" /\ Owner(e.of, e.key) => recording' = None
      BY <1>1, <1>3, <2>1, ReleaseDoes
    <3>2. QED
      BY <2>1, <3>1
  <2>2. CASE /\ e.edge = "pressed" /\ Pressed(e.of, e.key, e.press)
             /\ e.press \in Presses /\ acted[e.press] = None
    <3>1. /\ \A j \in Presses : j # e.press => acted'[j] = acted[j]
          /\ \/ recording' = None
             \/ /\ recording' = recording
                /\ \A h \in Gens, j \in Keys : Owner(h, j)' <=> Owner(h, j)
             \/ /\ recording' = e.press /\ acted'[e.press] = e.of
                /\ modeOf[e.of] = "push-to-talk" => Owner(e.of, e.key)'
      BY <1>1, <1>3, <2>2, PressedDoes
    <3>2. recording \in Presses => recording # e.press
      BY <2>2 DEF RecordingEnds, KeyEnds
    <3>3. e.edge # "released"
      BY <2>2
    <3>4. QED
      BY <2>2, <3>1, <3>2, <3>3
  <2>3. QED
    BY <1>1, <2>1, <2>2
<1> SUFFICES ASSUME recording' \in Presses, NEW g, g = acted'[recording']
             PROVE  KeyEnds(g)'
  BY DEF RecordingEnds, KeyEnds
<1>7. recording' # None
  BY Constants DEF Presses, None
<1>8. CASE /\ recording' = recording /\ (recording \in Presses => acted'[recording] = acted[recording])
           /\ \A h \in Gens, j \in Keys :
                \/ (Owner(h, j)' <=> Owner(h, j)) /\ ~(e.edge = "released" /\ h = e.of /\ j = e.key)
                \/ h = e.of /\ e.edge = "pressed" /\ (Owner(h, j)' <=> Owner(h, j))
                \/ h = e.of /\ ~(modeOf[h] = "push-to-talk" /\ Owner(h, j))
  <2>1. g = acted[recording] /\ KeyEnds(g) /\ recording \in Presses
    BY <1>8 DEF RecordingEnds
  <2>2. g \in Gens /\ g # None
    BY <2>1 DEF ListsAreSettled, KeyEnds
  <2>3. ASSUME modeOf[g] = "push-to-talk", g = x11
        PROVE  \E k \in Keys : Owner(g, k)' /\ GrabReleases(k, 0)'
    <3>1. PICK k \in Keys : Owner(g, k) /\ GrabReleases(k, 0)
      BY <2>1, <2>3 DEF KeyEnds
    <3>2. Owner(g, k)' /\ ~(e.edge = "released" /\ g = e.of /\ k = e.key)
      BY <1>8, <2>2, <2>3, <3>1
    <3>3. ~LetsGo(k, 1)
      BY <1>5, <2>3, <3>2
    <3>4. GrabReleases(k, 0 + 1)
      BY <3>1, <3>3, ReleasesLater
    <3>5. GrabReleases(k, 0)'
      BY <1>1, <1>2, <1>3, <3>4, GrabReleasesNext
    <3>6. QED
      BY <3>2, <3>5
  <2>4. ASSUME modeOf[g] = "push-to-talk", Live(g)
        PROVE  \E k \in Keys : Owner(g, k)' /\ k \in portal[g].bindings /\ PortalReleases(g, k, 0)'
    <3>1. PICK k \in Keys : Owner(g, k) /\ k \in portal[g].bindings /\ PortalReleases(g, k, 0)
      BY <2>1, <2>4 DEF KeyEnds
    <3>2. Owner(g, k)'
      BY <1>8, <2>2, <2>4, <3>1
    <3>3. PortalReleases(g, k, 0)'
      BY <1>2, <3>1 DEF PortalReleases, Ends
    <3>4. QED
      BY <3>1, <3>2, <3>3
  <2>5. QED
    BY <1>2, <2>2, <2>3, <2>4 DEF KeyEnds, Live
<1>9. CASE /\ e.edge = "pressed" /\ recording' = e.press /\ acted'[e.press] = e.of
           /\ modeOf[e.of] = "push-to-talk" => Owner(e.of, e.key)'
  <2>1. g = e.of /\ g \in Gens /\ g # None /\ ~Live(g)
    BY <1>1, <1>4, <1>9, Constants DEF Live
  <2>2. PICK k \in Keys : k = e.key
    BY <1>1
  <2>3. ASSUME modeOf[g] = "push-to-talk", g = x11
        PROVE  Owner(g, k)' /\ GrabReleases(k, 0)'
    <3>1. Owner(g, k)'
      BY <1>9, <2>1, <2>2, <2>3
    <3>2. GrabReleases(k, 0 + 1)
      <4>1. GrabReleases(e.key, 1)
        BY <1>0, <1>1, <1>9, <2>1, <2>3 DEF PressesEnd
      <4>2. 0 + 1 = 1
        OBVIOUS
      <4>3. QED
        BY <2>2, <4>1, <4>2
    <3>3. GrabReleases(k, 0)'
      BY <1>1, <1>2, <1>3, <3>2, GrabReleasesNext
    <3>4. QED
      BY <3>1, <3>3
  <2>4. QED
    BY <1>2, <2>1, <2>3 DEF KeyEnds, Live
<1>10. QED
  BY <1>6, <1>7, <1>8, <1>9

-----------------------------------------------------------------------------
(***************************************************************************)
(* The steps that act on no gesture of a key                               *)
(***************************************************************************)
\* Releases under way stay so, and what joins the lists has its release ahead.
GrabsLetGo ==
  /\ \A k \in Keys, i \in Nat : i <= Len(posted) /\ GrabReleases(k, i) => GrabReleases(k, i)'
  /\ \/ posted' = posted
     \/ \E e \in Edges : /\ posted' = Append(posted, e)
                         /\ e.edge = "pressed" => grab'[e.key].active # None
PortalLetsGo ==
  /\ \A g \in Gens : Live(g)' => Live(g)
  /\ \A g \in Gens, k \in Keys, i \in Nat :
       i <= Len(bus) /\ Live(g) /\ PortalReleases(g, k, i) => PortalReleases(g, k, i)'
  /\ \/ bus' = bus
     \/ \E m \in Messages :
          /\ bus' = Append(bus, m)
          /\ m.kind = "Activated" => m.key \in granted'[m.of] /\ down'[m.key] # None

\* A step that keeps the releases keeps those of the presses,
LEMMA QuietPresses ==
  ASSUME IInv, KeyTypes, PressesEnd, UNCHANGED <<x11, portal>>, GrabsLetGo, PortalLetsGo
  PROVE  PressesEnd'
<1>1. posted \in Seq(Edges) /\ bus \in Seq(Messages) /\ GrabTypes
  BY RegistrationTypes DEF KeyTypes, GrabTypes
<1>2. ASSUME NEW i \in DOMAIN posted', posted'[i].edge = "pressed", posted'[i].of = x11,
             NEW k, k = posted'[i].key
      PROVE  GrabReleases(k, i)'
  <2>1. ASSUME i \in DOMAIN posted, posted'[i] = posted[i] PROVE GrabReleases(k, i)'
    <3>1. i \in Nat /\ i <= Len(posted) /\ k \in Keys
      BY <1>1, <1>2, <2>1, EdgesAre
    <3>2. GrabReleases(k, i)
      BY <1>2, <2>1 DEF PressesEnd
    <3>3. QED
      BY <3>1, <3>2 DEF GrabsLetGo
  <2>2. CASE posted' = posted
    BY <1>2, <2>1, <2>2
  <2>3. ASSUME NEW e \in Edges, posted' = Append(posted, e),
               e.edge = "pressed" => grab'[e.key].active # None
        PROVE  GrabReleases(k, i)'
    <3>1. (i \in DOMAIN posted /\ posted'[i] = posted[i]) \/ posted'[i] = e
      BY <1>1, <1>2, <2>3, AppendIndices
    <3>2. CASE posted'[i] = e
      BY <1>2, <2>3, <3>2 DEF GrabReleases
    <3>3. QED
      BY <2>1, <3>1, <3>2
  <2>4. QED
    BY <2>2, <2>3 DEF GrabsLetGo
<1>3. ASSUME NEW i \in DOMAIN bus', bus'[i].kind = "Activated",
             NEW g, g = bus'[i].of, NEW k, k = bus'[i].key, Live(g)'
      PROVE  PortalReleases(g, k, i)'
  <2>1. ASSUME i \in DOMAIN bus, bus'[i] = bus[i] PROVE PortalReleases(g, k, i)'
    <3>1. i \in Nat /\ i <= Len(bus) /\ g \in Gens /\ k \in Keys
      BY <1>3, <2>1, SignalsAre
    <3>2. Live(g)
      BY <1>3, <3>1 DEF PortalLetsGo
    <3>3. PortalReleases(g, k, i)
      BY <1>3, <2>1, <3>2 DEF PressesEnd
    <3>4. QED
      BY <3>1, <3>2, <3>3 DEF PortalLetsGo
  <2>2. CASE bus' = bus
    BY <1>3, <2>1, <2>2
  <2>3. ASSUME NEW m \in Messages, bus' = Append(bus, m),
               m.kind = "Activated" => m.key \in granted'[m.of] /\ down'[m.key] # None
        PROVE  PortalReleases(g, k, i)'
    <3>1. (i \in DOMAIN bus /\ bus'[i] = bus[i]) \/ bus'[i] = m
      BY <1>1, <1>3, <2>3, AppendIndices
    <3>2. CASE bus'[i] = m
      BY <1>3, <2>3, <3>2 DEF PortalReleases
    <3>3. QED
      BY <2>1, <3>1, <3>2
  <2>4. QED
    BY <2>2, <2>3 DEF PortalLetsGo
<1>4. QED
  BY <1>2, <1>3 DEF PressesEnd, PortalReleases, Ends, Live, GrabReleases, LetsGo

\* and that of the recording.
LEMMA QuietRecording ==
  ASSUME IInv, KeyTypes, ListsAreSettled, RecordingEnds,
         UNCHANGED <<x11, modeOf, portal, controller, acted>>,
         recording' = recording \/ recording' \notin Presses, GrabsLetGo, PortalLetsGo
  PROVE  RecordingEnds'
<1>1. /\ posted \in Seq(Edges) /\ bus \in Seq(Messages) /\ 0 <= Len(posted) /\ 0 <= Len(bus)
      /\ 0 \in Nat
  BY RegistrationTypes DEF KeyTypes, GrabTypes
<1> SUFFICES ASSUME recording' \in Presses, NEW g, g = acted'[recording']
             PROVE  KeyEnds(g)'
  BY DEF RecordingEnds, KeyEnds
<1>2. g = acted[recording] /\ KeyEnds(g) /\ recording \in Presses
  BY DEF RecordingEnds
<1>3. g \in Gens /\ g # None
  BY <1>2 DEF ListsAreSettled, KeyEnds
<1>4. ASSUME modeOf[g] = "push-to-talk", g = x11
      PROVE  \E k \in Keys : Owner(g, k)' /\ GrabReleases(k, 0)'
  <2>1. PICK k \in Keys : Owner(g, k) /\ GrabReleases(k, 0)
    BY <1>2, <1>4 DEF KeyEnds
  <2>2. GrabReleases(k, 0)'
    BY <1>1, <2>1 DEF GrabsLetGo
  <2>3. QED
    BY <2>1, <2>2 DEF Owner
<1>5. ASSUME modeOf[g] = "push-to-talk", Live(g)'
      PROVE  \E k \in Keys : Owner(g, k)' /\ k \in portal[g].bindings /\ PortalReleases(g, k, 0)'
  <2>1. Live(g)
    BY <1>3, <1>5 DEF PortalLetsGo
  <2>2. PICK k \in Keys : Owner(g, k) /\ k \in portal[g].bindings /\ PortalReleases(g, k, 0)
    BY <1>2, <1>5, <2>1 DEF KeyEnds
  <2>3. PortalReleases(g, k, 0)'
    BY <1>1, <1>3, <2>1, <2>2 DEF PortalLetsGo
  <2>4. QED
    BY <2>2, <2>3 DEF Owner
<1>6. QED
  BY <1>3, <1>4, <1>5 DEF KeyEnds

\* Steps that touch neither the grabs nor the edges, or neither the bus nor the keys.
LEMMA GrabsAsBefore ==
  ASSUME UNCHANGED <<x11, grab, posted>>
  PROVE  GrabsLetGo
  BY DEF GrabsLetGo, GrabReleases, LetsGo

\* The same for the portal.
LEMMA PortalAsBefore ==
  ASSUME UNCHANGED <<portal, open, granted, down, bus>>
  PROVE  PortalLetsGo
  BY DEF PortalLetsGo, PortalReleases, Ends, Live

\* A press that the grab posts leaves the grab active.
LEMMA ReadLetsGo ==
  ASSUME IInv, GrabTypes, NEW k \in Keys, ReadKeyEvent(k)
  PROVE  GrabsLetGo
<1>0. PICK s : s = xevents[k][1]
  OBVIOUS
<1>1. PICK edge : edge = [edge |-> "pressed", of |-> x11, key |-> k, press |-> s.press]
  OBVIOUS
<1>2. /\ x11 # None /\ s \in Strokes /\ x11' = x11
      /\ \A j \in Keys : j # k => grab'[j] = grab[j]
      /\ posted' = posted \/ (posted' = Append(posted, edge) /\ grab'[k].active = s.press)
      /\ grab[k].active # None => grab'[k].active # None
  BY <1>0, <1>1, ReadDoes
<1>3. edge \in Edges /\ edge.key = k /\ s.press # None
  <2>1. x11 \in Gens /\ s.press \in Nat /\ s.press # None
    BY <1>2, RegistrationTypes, Constants DEF Gens, None, Strokes
  <2>2. QED
    BY <1>1, <2>1 DEF Edges
<1>4. \A j \in Keys : grab[j].active # None => grab'[j].active # None
  BY <1>2
<1>5. posted' = posted \/ \E e \in Edges : posted' = Append(posted, e)
  BY <1>2, <1>3
<1>6. \A j \in Keys, i \in Nat : i <= Len(posted) /\ GrabReleases(j, i) => GrabReleases(j, i)'
  BY <1>2, <1>4, <1>5, GrabStillReleases
<1>7. \/ posted' = posted
      \/ \E e \in Edges : /\ posted' = Append(posted, e)
                          /\ e.edge = "pressed" => grab'[e.key].active # None
  BY <1>2, <1>3
<1>8. QED
  BY <1>6, <1>7 DEF GrabsLetGo

\* A grab comes to rest by posting the release.
LEMMA FlushLetsGo ==
  ASSUME IInv, GrabTypes, NEW k \in Keys, FlushRelease(k)
  PROVE  GrabsLetGo
<1>1. PICK e \in Edges : /\ e.edge = "released" /\ e.of = x11 /\ e.key = k
                         /\ posted' = Append(posted, e)
  BY FlushPosts
<1>2. x11' = x11 /\ grab' = [grab EXCEPT ![k] = Loose]
  BY DEF FlushRelease, registration
<1>3. \A j \in Keys : j # k => grab'[j] = grab[j]
  BY <1>2 DEF GrabTypes
<1>4. \A i \in Nat : i <= Len(posted) => GrabReleases(k, i)'
  BY <1>1, <1>2, GrabReleasesNow
<1>5. \A j \in Keys, i \in Nat : j # k /\ GrabReleases(j, i) => GrabReleases(j, i)'
  BY <1>1, <1>2, <1>3, GrabStillReleases
<1>6. \E d \in Edges : /\ posted' = Append(posted, d)
                       /\ d.edge = "pressed" => grab'[d.key].active # None
  BY <1>1
<1>7. \A j \in Keys, i \in Nat : i <= Len(posted) /\ GrabReleases(j, i) => GrabReleases(j, i)'
  BY <1>4, <1>5
<1>8. QED
  BY <1>6, <1>7 DEF GrabsLetGo

\* A backend that is ready is asked nothing more, so no answer changes its session.
LEMMA AnswersLetGo ==
  ASSUME IInv, AskOnce, PortalAnswers
  PROVE  PortalLetsGo
<1>1. UNCHANGED <<portal, down>>
  BY DEF PortalAnswers, registration, keyboard
<1>2. PICK m \in Messages :
           /\ m.kind \in Kinds /\ bus' = Append(bus, m)
           /\ \A g \in Gens : g \in open' => g \in open \/ Creates(Now, g)
           /\ \A g \in Gens : granted'[g] = granted[g] \/ Binds(Now, g)
  BY AnswersWorld
<1>3. \A g \in Gens : portal[g].state = "ready" => ~Creates(Now, g) /\ ~Binds(Now, g)
  BY DEF AskOnce, AsksOnce
<1>4. \A g \in Gens : Live(g)' => Live(g)
  BY <1>1, <1>2, <1>3 DEF Live
<1>5. ASSUME NEW g \in Gens, NEW k \in Keys, NEW i \in Nat, Live(g), PortalReleases(g, k, i)
      PROVE  PortalReleases(g, k, i)'
  <2>1. granted'[g] = granted[g]
    BY <1>2, <1>3, <1>5 DEF Live
  <2>2. QED
    BY <1>1, <1>2, <1>5, <2>1, PortalStillReleases
<1>6. m.kind # "Activated"
  BY <1>2 DEF Kinds
<1>7. QED
  BY <1>2, <1>4, <1>5, <1>6 DEF PortalLetsGo

\* A session that the portal closes is no longer served.
LEMMA FaultsLetGo ==
  ASSUME IInv, PortalCloses \/ PortalRestarts
  PROVE  PortalLetsGo
<1>1. /\ UNCHANGED <<granted, portal>> /\ open' \subseteq open
      /\ \/ bus' = bus
         \/ \E m \in Messages : bus' = Append(bus, m) /\ m.kind \in {"Closed", "NoOwner"}
  BY FaultsWorld
<1>2. down' = down
  BY DEF PortalCloses, PortalRestarts, keyboard
<1>3. \A g \in Gens : Live(g)' => Live(g)
  BY <1>1 DEF Live
<1>4. \A g \in Gens, k \in Keys, i \in Nat : PortalReleases(g, k, i) => PortalReleases(g, k, i)'
  BY <1>1, <1>2, PortalStillReleases
<1>5. \/ bus' = bus
      \/ \E m \in Messages : bus' = Append(bus, m) /\ m.kind # "Activated"
  BY <1>1
<1>6. QED
  BY <1>3, <1>4, <1>5 DEF PortalLetsGo

\* A key that goes down is held when its signal joins the bus.
LEMMA DownLetsGo ==
  ASSUME IInv, GrabTypes, NEW k \in Keys, KeyDown(k)
  PROVE  GrabsLetGo /\ PortalLetsGo
<1>0. PICK n : n = presses + 1
  OBVIOUS
<1>1. /\ n \in Presses /\ down' = [down EXCEPT ![k] = n] /\ KeyMoves(k, n, "press", "Activated")
  BY <1>0, KeyDownDoes
<1>2. n \in Nat /\ n # None /\ down \in [Keys -> Nat] /\ bus \in Seq(Messages)
  BY <1>1, RegistrationTypes DEF Presses, None
<1>3. PICK m : m = Signal("Activated", held, k, n)
  OBVIOUS
<1>4. /\ UNCHANGED <<registration, pending, open, granted, grab, posted, gesture>>
      /\ Hears(k) => /\ bus' = Append(bus, Signal("Activated", held, k, n)) /\ held \in Gens
                     /\ held <= gens /\ Signal("Activated", held, k, n) \in Messages /\ x11 = None
      /\ ~Hears(k) => bus' = bus
  BY <1>1, <1>2, KeySignals
<1>5. UNCHANGED <<x11, portal>>
  BY <1>4 DEF registration
<1>6. \A j \in Keys : down[j] # None => down'[j] # None
  BY <1>1, <1>2
<1>7. down'[k] # None
  BY <1>1, <1>2
<1>8. m.key = k /\ m.of = held
  BY <1>3 DEF Signal
<1>9. \/ bus' = bus
      \/ m \in Messages /\ bus' = Append(bus, m) /\ m.key \in granted'[m.of]
  BY <1>3, <1>4, <1>8 DEF Hears
<1>10. \A g \in Gens, j \in Keys, i \in Nat : PortalReleases(g, j, i) => PortalReleases(g, j, i)'
  BY <1>4, <1>6, <1>9, PortalStillReleases
<1>11. \A g \in Gens : Live(g)' => Live(g)
  BY <1>4, <1>5 DEF Live
<1>12. PortalLetsGo
  BY <1>7, <1>8, <1>9, <1>10, <1>11 DEF PortalLetsGo
<1>13. QED
  BY <1>4, <1>5, <1>12, GrabsAsBefore

\* A key that goes up sends the release to the session that bound it.
LEMMA UpLetsGo ==
  ASSUME IInv, GrabTypes, NEW k \in Keys, KeyUp(k)
  PROVE  GrabsLetGo /\ PortalLetsGo
<1>0. PICK n : n = down[k]
  OBVIOUS
<1>1. n \in Nat \ {None} /\ down' = [down EXCEPT ![k] = None] /\ KeyMoves(k, n, "release", "Deactivated")
  BY <1>0, KeyUpDoes
<1>2. n \in Nat /\ down \in [Keys -> Nat] /\ bus \in Seq(Messages)
  BY <1>1, RegistrationTypes
<1>3. PICK m : m = Signal("Deactivated", held, k, n)
  OBVIOUS
<1>4. /\ UNCHANGED <<registration, pending, open, granted, grab, posted, gesture>>
      /\ Hears(k) => /\ bus' = Append(bus, Signal("Deactivated", held, k, n)) /\ held \in Gens
                     /\ held <= gens /\ Signal("Deactivated", held, k, n) \in Messages /\ x11 = None
      /\ ~Hears(k) => bus' = bus
  BY <1>1, <1>2, KeySignals
<1>5. UNCHANGED <<x11, portal>>
  BY <1>4 DEF registration
<1>6. \A j \in Keys : j # k => down'[j] = down[j]
  BY <1>1, <1>2
<1>7. m.key = k /\ m.of = held /\ m.kind = "Deactivated"
  BY <1>3 DEF Signal
<1>8. \/ bus' = bus
      \/ m \in Messages /\ bus' = Append(bus, m)
  BY <1>3, <1>4
<1>9. ASSUME NEW g \in Gens, NEW j \in Keys, NEW i \in Nat, i <= Len(bus), Live(g),
             PortalReleases(g, j, i)
      PROVE  PortalReleases(g, j, i)'
  <2>1. CASE j # k
    BY <1>4, <1>6, <1>8, <1>9, <2>1, PortalStillReleases
  <2>2. CASE j = k
    <3>1. held = g /\ k \in granted[g]
      BY <1>9, <2>2, LiveIsAlone DEF Live, PortalReleases
    <3>2. Hears(k)
      BY <1>9, <3>1 DEF Hears, Live
    <3>3. m \in Messages /\ bus' = Append(bus, m) /\ m.of = g /\ k \in granted'[g]
      BY <1>3, <1>4, <1>7, <3>1, <3>2
    <3>4. PortalReleases(g, k, i)'
      BY <1>7, <1>9, <3>3, PortalReleasesNow
    <3>5. QED
      BY <2>2, <3>4
  <2>3. QED
    BY <2>1, <2>2
<1>10. \A g \in Gens : Live(g)' => Live(g)
  BY <1>4, <1>5 DEF Live
<1>11. PortalLetsGo
  BY <1>7, <1>8, <1>9, <1>10 DEF PortalLetsGo
<1>12. QED
  BY <1>4, <1>5, <1>11, GrabsAsBefore

-----------------------------------------------------------------------------
(***************************************************************************)
(* The invariant of the gestures holds                                     *)
(***************************************************************************)
LEMMA GesturesStart == Init => GestureInv
<1> SUFFICES ASSUME Init PROVE GestureInv
  OBVIOUS
<1>1. /\ controller = [g \in Gens |-> [k \in Keys |-> Released]]
      /\ bus = <<>> /\ posted = <<>> /\ presses = 0 /\ mode \in Modes
      /\ down = [k \in Keys |-> None] /\ seized = [k \in Keys |-> None]
      /\ xevents = [k \in Keys |-> <<>>] /\ grab = [k \in Keys |-> Loose]
      /\ recording = None /\ acted = [n \in Presses |-> None] /\ twice = FALSE
  BY DEF Init
<1>2. IInv
  BY StartsSound
<1>3. 0 <= MaxPresses /\ gens \in Nat /\ \A g \in Gens : g # None
  BY <1>2, Constants, RegistrationTypes
<1>4. GestureTypes
  BY <1>1, Constants DEF GestureTypes, Controllers, Released
<1>5. GrabTypes
  <2>1. <<>> \in Seq(Strokes) /\ <<>> \in Seq(Edges)
    OBVIOUS
  <2>2. Loose \in [active : Nat, deadline : BOOLEAN] /\ None \in Nat /\ None <= gens /\ None <= 0
    BY <1>3 DEF Loose, None
  <2>3. QED
    BY <1>1, <1>3, <2>1, <2>2 DEF GrabTypes
<1>6. GrabsAgree
  BY <1>1 DEF GrabsAgree, GrabAgrees, Grasped, Loose
<1>7. \A i, n : ~InBus(i, n) /\ ~InPosted(i, n) /\ ~InGrab(i, n)
  BY <1>1 DEF InBus, InPosted, InGrab
<1>8. PressesWaitOnce
  BY <1>7 DEF PressesWaitOnce, PressWaitsOnce
<1>9. PressesMade
  BY <1>1 DEF PressesMade
<1>10. ListsAreSettled
  BY <1>1 DEF ListsAreSettled
<1>11. AskOnce
  <2> DEFINE r == [gens |-> 0, modeOf |-> [g \in Gens |-> mode], held |-> None,
                   x11 |-> None, portal |-> [g \in Gens |-> Idle], told |-> FALSE,
                   pending |-> {}, open |-> {}]
  <2>1. r \in Registrations
    BY <1>1, Constants DEF Registrations
  <2>2. r.gens = 0 /\ r.portal = [g \in Gens |-> Idle]
    OBVIOUS
  <2>3. PICK q \in StartShortcut(r, mode) : portal = q.portal
    BY DEF Init
  <2> HIDE DEF r
  <2>4. r.gens + 2 <= MaxGen
    BY <2>2, Constants
  <2>5. Ages(r, q)
    BY <1>1, <2>1, <2>4, StartAges
  <2>6. \A g \in Gens : portal[g].state \in {"idle", "creating"}
    BY <2>2, <2>3, <2>5, Constants DEF Ages
  <2>7. QED
    BY <1>1, <2>6 DEF AskOnce, AsksOnce
<1>12. PressesEnd
  BY <1>1 DEF PressesEnd
<1>13. RecordingEnds
  BY <1>1, <1>3 DEF RecordingEnds, Presses, None
<1>14. QED
  BY <1>4, <1>5, <1>6, <1>8, <1>9, <1>10, <1>11, <1>12, <1>13
     DEF GestureInv, PressInv, KeyTypes, EndInv

\* The places of the presses, and the types, are kept.
LEMMA NextPresses ==
  ASSUME IInv, PressInv, [Next]_vars
  PROVE  PressInv'
<1>1. KeyTypes /\ GestureTypes /\ GrabTypes /\ GrabsAgree /\ PressesWaitOnce /\ PressesMade
  BY DEF PressInv, KeyTypes
<1>2. GestureTypes'
  BY <1>1, NextGestureTypes
<1>3. GrabTypes'
  BY <1>1, NextGrabTypes
<1>4. GrabsAgree'
  BY <1>1, NextGrabsAgree
<1>5. PressesWaitOnce'
  BY <1>1, NextWaits
<1>6. PressesMade'
  BY <1>1, NextPressesMade
<1>7. QED
  BY <1>2, <1>3, <1>4, <1>5, <1>6 DEF PressInv, KeyTypes

\* What is to end a recording is kept.
LEMMA NextEnds ==
  ASSUME IInv, PressInv, EndInv, [Next]_vars
  PROVE  PressesEnd' /\ RecordingEnds'
<1>1. /\ KeyTypes /\ GestureTypes /\ GrabTypes /\ PressesWaitOnce
      /\ ListsAreSettled /\ AskOnce /\ PressesEnd /\ RecordingEnds
  BY DEF PressInv, KeyTypes, EndInv
<1>2. CASE Restart
  BY <1>1, <1>2, PressesEndRestart, RecordingEndsRestart
<1>3. CASE HandleAnswer
  BY <1>1, <1>3, PressesEndAnswer, RecordingEndsAnswer
<1>4. CASE HandleSignal
  BY <1>1, <1>4, PressesEndSignal, RecordingEndsSignal
<1>5. CASE RunPosted
  BY <1>1, <1>5, PressesEndPosted, RecordingEndsPosted
<1>6. ASSUME UNCHANGED <<x11, modeOf, portal, controller, acted>>,
             recording' = recording \/ recording' \notin Presses, GrabsLetGo, PortalLetsGo
      PROVE  PressesEnd' /\ RecordingEnds'
  BY <1>1, <1>6, QuietPresses, QuietRecording
<1>7. CASE TrayToggles \/ UNCHANGED vars \/ \E k \in Keys : AutoRepeat(k)
  <2>1. /\ UNCHANGED <<x11, modeOf, portal, controller, acted>>
        /\ UNCHANGED <<grab, posted, open, granted, down, bus>>
        /\ recording' \in {recording, Tray, None}
    BY <1>7 DEF TrayToggles, AutoRepeat, vars, registration, service, keyboard, gesture
  <2>2. Tray \notin Presses /\ None \notin Presses
    BY Constants DEF Tray, None, Presses
  <2>3. GrabsLetGo /\ PortalLetsGo
    BY <2>1, GrabsAsBefore, PortalAsBefore
  <2>4. QED
    BY <1>6, <2>1, <2>2, <2>3
<1>8. ASSUME NEW k \in Keys, ReadKeyEvent(k) \/ FlushRelease(k) PROVE PressesEnd' /\ RecordingEnds'
  <2>1. /\ UNCHANGED <<x11, modeOf, portal, controller, acted, recording>>
        /\ UNCHANGED <<open, granted, down, bus>>
    BY <1>8 DEF ReadKeyEvent, FlushRelease, registration, service, keyboard, gesture
  <2>2. GrabsLetGo
    BY <1>1, <1>8, ReadLetsGo, FlushLetsGo
  <2>3. PortalLetsGo
    BY <2>1, PortalAsBefore
  <2>4. QED
    BY <1>6, <2>1, <2>2, <2>3
<1>9. CASE PortalAnswers \/ PortalCloses \/ PortalRestarts
  <2>1. UNCHANGED <<x11, modeOf, portal, controller, acted, recording, grab, posted>>
    BY <1>9 DEF PortalAnswers, PortalCloses, PortalRestarts, registration, gesture
  <2>2. GrabsLetGo
    BY <2>1, GrabsAsBefore
  <2>3. PortalLetsGo
    BY <1>1, <1>9, AnswersLetGo, FaultsLetGo
  <2>4. QED
    BY <1>6, <2>1, <2>2, <2>3
<1>10. ASSUME NEW k \in Keys, KeyDown(k) \/ KeyUp(k) PROVE PressesEnd' /\ RecordingEnds'
  <2>1. UNCHANGED <<x11, modeOf, portal, controller, acted, recording>>
    BY <1>10 DEF KeyDown, KeyUp, KeyMoves, registration, gesture
  <2>2. GrabsLetGo /\ PortalLetsGo
    BY <1>1, <1>10, DownLetsGo, UpLetsGo
  <2>3. QED
    BY <1>6, <2>1, <2>2
<1>11. QED
  BY <1>2, <1>3, <1>4, <1>5, <1>7, <1>8, <1>9, <1>10 DEF Next

\* Every press waits in one place, and every recording that a push-to-talk key
\* started has a release due: the invariant of the gestures holds in every state.
THEOREM GesturesAreSound == Spec => []GestureInv
<1>1. Init => GestureInv
  BY GesturesStart
<1>2. IInv /\ GestureInv /\ [Next]_vars => GestureInv'
  <2> SUFFICES ASSUME IInv, GestureInv, [Next]_vars PROVE GestureInv'
    OBVIOUS
  <2>1. PressInv /\ EndInv /\ ListsAreSettled /\ AskOnce
    BY DEF GestureInv, EndInv
  <2>2. PressInv'
    BY <2>1, NextPresses
  <2>3. ListsAreSettled' /\ AskOnce'
    BY <2>1, NextSettled, NextAsksOnce
  <2>4. PressesEnd' /\ RecordingEnds'
    BY <2>1, NextEnds
  <2>5. QED
    BY <2>2, <2>3, <2>4 DEF GestureInv, EndInv
<1>3. QED
  BY <1>1, <1>2, RegistrationIsSound, PTL DEF Spec

\* A physical press starts or stops a recording at most once, whatever the
\* autorepeat, the backend it came through and the replacements in between.
THEOREM OnePressActsOnce == Spec => []OnePressOneGesture
<1>1. GestureInv => OnePressOneGesture
  BY DEF GestureInv, PressInv, KeyTypes, GestureTypes, OnePressOneGesture
<1>2. QED
  BY <1>1, GesturesAreSound, PTL

\* A push-to-talk recording that a registered shortcut started does not outlive
\* its key: with every key up it runs only while the release is on its way.
THEOREM ReleasesEndRecordings == Spec => []ReleaseEndsIt
<1>1. IInv /\ GestureInv => ReleaseEndsIt
  <2> SUFFICES ASSUME IInv, GestureInv, NEW g, g = acted[recording], recording \in Presses,
                      modeOf[g] = "push-to-talk", g = x11 \/ Live(g),
                      \A k \in Keys : down[k] = None,
                      \A k \in Keys : xevents[k] = <<>> /\ ~grab[k].deadline,
                      posted = <<>>, bus = <<>>
               PROVE  FALSE
    BY DEF ReleaseEndsIt, Live
  <2>1. KeyEnds(g) /\ GrabsAgree
    BY DEF GestureInv, EndInv, PressInv, RecordingEnds
  <2>2. \A k \in Keys : grab[k].active = None
    BY <2>1 DEF GrabsAgree, GrabAgrees, Grasped
  <2>3. \A k \in Keys : ~GrabReleases(k, 0) /\ ~PortalReleases(g, k, 0)
    BY <2>2 DEF GrabReleases, LetsGo, PortalReleases, Ends
  <2>4. QED
    BY <2>1, <2>3 DEF KeyEnds
<1>2. QED
  BY <1>1, RegistrationIsSound, GesturesAreSound, PTL

=============================================================================
