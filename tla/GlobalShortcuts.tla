---------------------------- MODULE GlobalShortcuts ----------------------------
(***************************************************************************)
(* The global shortcuts of the Python application: the XDG portal backend  *)
(* (core/desktop.py), the X11 key grabs (GlobalShortcutService in          *)
(* runtime.py), the gesture of a key (core/shortcuts.py) and the           *)
(* controller that registers, replaces and falls back between them.        *)
(*                                                                         *)
(* Everything but the threads that read the X11 grabs runs on the Qt       *)
(* thread.  Those threads post the edges of a gesture to it; the portal's  *)
(* answers and signals reach it in the order they were sent.  The          *)
(* recording is abstracted to whether it runs and who started it.          *)
(***************************************************************************)
EXTENDS Naturals, FiniteSets, Sequences, SequencesExt

CONSTANTS
  Keys,        \* the identifiers of the shortcuts: "dictation" and one per mode
  Desktops,    \* the desktop sessions: "x11", "wayland"
  MaxGen,      \* bound on how often the shortcuts are specified
  MaxPresses,  \* bound on the physical presses
  MaxRepeats,  \* bound on the autorepeats of a held key
  MaxFaults,   \* bound on the sessions the portal closes and on its restarts
  MaxTray      \* bound on the recordings the tray starts

\* Registering with the portal may at once fall back to X11: two lists.
ASSUME ShortcutsAssumption == {MaxGen, MaxPresses} \subseteq Nat /\ MaxGen >= 2

None == 0
Gens == 1..MaxGen
Presses == 1..MaxPresses
Tray == MaxPresses + 1
Modes == {"toggle", "push-to-talk"}

VARIABLES
  desktop,    \* DesktopSession.from_environment
  available,  \* the portal is on the session bus
  gens,       \* how many lists of ShortcutController were built
  mode,       \* AppConfig.shortcut_mode
  modeOf,     \* ShortcutController.mode of each list
  controller, \* the gesture of each key in each list: held down, owns the recording
  held,       \* RuntimeController._portal_shortcut: the list of that backend, or None
  x11,        \* RuntimeController._shortcut_services: the list they serve, or None
  portal,     \* the portal backend of each list: _state, _session_handle, _bindings
  told,       \* a warning followed the last registration
  pending,    \* the requests the portal has not answered
  open,       \* the sessions the portal holds, by the list that asked
  granted,    \* the shortcuts the portal bound in each session
  bus,        \* answers and signals on their way to the Qt thread
  down,       \* the press that holds each key, or None
  seized,     \* the list whose grab that press activated, or None
  xevents,    \* the key events the X server sent to each grab
  grab,       \* GlobalShortcutService of each key: _active, _release_deadline
  posted,     \* the gesture edges the grab threads posted to the Qt thread
  recording,  \* the press that started the recording, Tray, or None
  presses, repeats, faults, trays, \* bounds: how often each happened
  acted,      \* history: the list through which each press started or stopped a recording
  twice       \* history: one press did so twice

registration == <<gens, modeOf, held, x11, portal, told>>
service == <<pending, open, granted>>
keyboard == <<down, seized, presses, repeats>>
gesture == <<controller, recording, acted, twice>>
vars == <<desktop, available, mode, registration, service, bus, keyboard, xevents, grab,
          posted, gesture, faults, trays>>

Idle == [state |-> "idle", session |-> FALSE, bindings |-> {}]
Released == [pressed |-> FALSE, owns |-> FALSE]
Loose == [active |-> None, deadline |-> FALSE]

(***************************************************************************)
(* Registration.  A record holds what one call changes, because the        *)
(* portal's error handler may run inside the call that failed.             *)
(***************************************************************************)
Now == [gens |-> gens, modeOf |-> modeOf, held |-> held, x11 |-> x11, portal |-> portal,
        told |-> told, pending |-> pending, open |-> open]

Become(r) ==
  /\ gens' = r.gens /\ modeOf' = r.modeOf /\ held' = r.held /\ x11' = r.x11
  /\ portal' = r.portal /\ told' = r.told /\ pending' = r.pending /\ open' = r.open

\* A new list of controllers for the configured shortcuts.
ShortcutSpecs(r, m) == [r EXCEPT !.gens = @ + 1, !.modeOf[r.gens + 1] = m]

\* A shortcut that names no key of the layout, or one that another program
\* grabbed, has no grab.
Grabbed == SUBSET Keys

\* Mutant: a shortcut that cannot be grabbed is not reported.
StartX11Quietly(r) ==
  IF desktop # "x11"
  THEN {[r EXCEPT !.told = TRUE]}
  ELSE {IF keys = Keys THEN [r EXCEPT !.x11 = r.gens] ELSE r : keys \in Grabbed}

\* Only an X11 session has grabs.  When one fails, those made are given back.
StartX11(r) ==
  IF desktop # "x11"
  THEN {[r EXCEPT !.told = TRUE]}
  ELSE {IF keys = Keys THEN [r EXCEPT !.x11 = r.gens] ELSE [r EXCEPT !.told = TRUE] :
          keys \in Grabbed}

\* A backend starts its registration.
RegisterMany(r, g) ==
  [r EXCEPT !.portal[g] = [state |-> "creating", session |-> FALSE, bindings |-> Keys]]

\* The session of a backend is closed when the backend has its handle.
CloseSession(r, g) == IF r.portal[g].session THEN r.open \ {g} ELSE r.open

\* The backend hears that its session closed, or that the portal lost its name.
WatchesSession(g) == portal[g].session
WatchesService(g) == g # None /\ portal[g].state # "idle"

\* Mutant: the portal's session is forgotten and never closed.
UnregisterLeavingSession(r, g) == [r EXCEPT !.portal[g] = Idle]

Unregister(r, g) ==
  [r EXCEPT !.portal[g] = Idle, !.open = CloseSession(r, g)]

\* Mutant: the fallback starts beside the backend that failed.
FailInPlace(r, g, m) ==
  StartX11(ShortcutSpecs([r EXCEPT !.held = None, !.told = TRUE], m))

\* A failed backend is unregistered, the user is told and X11 is tried.
Fail(r, g, m) ==
  StartX11(ShortcutSpecs([Unregister(r, g) EXCEPT !.held = None, !.told = TRUE], m))

\* A request is on its way, or the call fails and its callback runs at once.
Request(r, g, kind, m) ==
  {[r EXCEPT !.pending = @ \cup {<<g, kind>>}]} \cup Fail(r, g, m)

\* The portal when it is on the bus, and a failure inside the call still
\* leaves the failed backend in place; X11 otherwise.
StartShortcut(r, m) ==
  LET s == [ShortcutSpecs(r, m) EXCEPT !.told = FALSE]
      g == s.gens
  IN IF available
     THEN {[q EXCEPT !.held = g] : q \in Request(RegisterMany(s, g), g, "CreateSession", m)}
     ELSE StartX11(s)

(***************************************************************************)
(* The gesture of a key.                                                   *)
(***************************************************************************)
Act(g, n) ==
  /\ acted' = [acted EXCEPT ![n] = g]
  /\ twice' = (twice \/ acted[n] # None)

\* A start may come to nothing: the last dictation is processed, no microphone.
Pressed(g, k, n) ==
  IF controller[g][k].pressed
  THEN UNCHANGED gesture
  ELSE /\ recording' \in IF recording = None THEN {n, None}
                         ELSE IF modeOf[g] = "toggle" THEN {None} ELSE {recording}
       /\ controller' = [controller EXCEPT ![g][k] =
            [pressed |-> TRUE, owns |-> modeOf[g] = "push-to-talk" /\ recording = None]]
       /\ IF recording # None /\ modeOf[g] = "push-to-talk"
          THEN UNCHANGED <<acted, twice>> ELSE Act(g, n)

\* The controllers of a list whose keys S are released, and the recording after.
AfterRelease(g, S) ==
  [controller EXCEPT ![g] = [k \in Keys |-> IF k \in S THEN Released ELSE @[k]]]
StopsOnRelease(g, S) ==
  modeOf[g] = "push-to-talk" /\ \E k \in S : controller[g][k].pressed /\ controller[g][k].owns

\* Mutant: a release only forgets that the key was held.
ReleaseForgetting(g, k) ==
  /\ controller' = AfterRelease(g, {k})
  /\ UNCHANGED <<recording, acted, twice>>

Release(g, k) ==
  /\ controller' = AfterRelease(g, {k})
  /\ recording' = IF StopsOnRelease(g, {k}) THEN None ELSE recording
  /\ UNCHANGED <<acted, twice>>

(***************************************************************************)
(* The Qt thread.                                                          *)
(***************************************************************************)
Init ==
  /\ desktop \in Desktops
  /\ available \in BOOLEAN
  /\ mode \in Modes
  /\ controller = [g \in Gens |-> [k \in Keys |-> Released]]
  /\ granted = [g \in Gens |-> {}]
  /\ bus = <<>> /\ posted = <<>>
  /\ down = [k \in Keys |-> None] /\ seized = [k \in Keys |-> None]
  /\ xevents = [k \in Keys |-> <<>>]
  /\ grab = [k \in Keys |-> Loose]
  /\ recording = None
  /\ presses = 0 /\ repeats = 0 /\ faults = 0 /\ trays = 0
  /\ acted = [n \in Presses |-> None] /\ twice = FALSE
  /\ \E r \in StartShortcut([gens |-> 0, modeOf |-> [g \in Gens |-> mode], held |-> None,
                             x11 |-> None, portal |-> [g \in Gens |-> Idle], told |-> FALSE,
                             pending |-> {}, open |-> {}], mode) :
       /\ gens = r.gens /\ modeOf = r.modeOf /\ held = r.held /\ x11 = r.x11
       /\ portal = r.portal /\ told = r.told /\ pending = r.pending /\ open = r.open

\* Saving the settings (refused while a dictation runs) may change the mode of
\* the shortcuts; saving or deleting a mode keeps it.  Nothing registered is
\* nothing to replace.
Restart ==
  /\ held # None \/ x11 # None
  /\ gens + 2 <= MaxGen
  /\ mode' \in IF recording = None THEN Modes ELSE {mode}
  /\ LET active == {k \in Keys : grab[k].active # None}
         stopped == [Now EXCEPT !.x11 = None]
         cleared == [(IF held = None THEN stopped ELSE Unregister(stopped, held))
                     EXCEPT !.held = None]
     IN /\ \E r \in StartShortcut(cleared, mode') : Become(r)
        /\ IF x11 = None
           THEN UNCHANGED <<controller, recording>>
           ELSE /\ controller' = AfterRelease(x11, Keys)
                /\ recording' = IF StopsOnRelease(x11, active) THEN None ELSE recording
  /\ xevents' = [k \in Keys |-> <<>>] /\ grab' = [k \in Keys |-> Loose]
  /\ UNCHANGED <<desktop, available, granted, bus, keyboard, posted, acted, twice, faults, trays>>

\* Of the shortcuts the portal lists, those of the backend count.
Parsed(g, keys) == keys \cap portal[g].bindings

\* What the backend of list g makes of an answer or a signal.
Answered(m) ==
  LET g == m.of
      p == portal[g]
  IN CASE m.kind = "CreateSession" /\ p.state = "creating" ->
            IF m.ok THEN Request([Now EXCEPT !.portal[g].state = "binding",
                                             !.portal[g].session = TRUE],
                                 g, "BindShortcuts", mode)
                    ELSE Fail(Now, g, mode)
       [] m.kind = "BindShortcuts" /\ p.state = "binding" ->
            IF m.ok THEN Request([Now EXCEPT !.portal[g].state = "listing"],
                                 g, "ListShortcuts", mode)
                    ELSE Fail(Now, g, mode)
       [] m.kind = "ListShortcuts" /\ p.state = "listing" ->
            IF m.ok /\ Parsed(g, m.keys) # {}
            THEN {[Now EXCEPT !.portal[g].state = "ready",
                              !.portal[g].bindings = Parsed(g, m.keys)]}
            ELSE Fail(Now, g, mode)
       [] m.kind \in {"Closed", "NoOwner"} /\ p.state # "idle" ->
            Fail([Now EXCEPT !.portal[g].session = FALSE], g, mode)
       [] OTHER -> {Now}

HandleAnswer ==
  /\ bus # <<>>
  /\ Head(bus).kind \notin {"Activated", "Deactivated"}
  /\ gens < MaxGen
  /\ bus' = Tail(bus)
  /\ \E r \in Answered(Head(bus)) : Become(r)
  /\ UNCHANGED <<desktop, available, mode, granted, keyboard, xevents, grab, posted, gesture,
                 faults, trays>>

\* Only a ready backend, its own session and a shortcut the portal listed
\* count; a release is bound for push-to-talk alone.
HandleSignal ==
  /\ bus # <<>>
  /\ Head(bus).kind \in {"Activated", "Deactivated"}
  /\ bus' = Tail(bus)
  /\ LET m == Head(bus)
         mine == /\ portal[m.of].state = "ready" /\ portal[m.of].session
                 /\ m.key \in portal[m.of].bindings
     IN CASE mine /\ m.kind = "Activated" -> Pressed(m.of, m.key, m.press)
          [] mine /\ m.kind = "Deactivated" /\ modeOf[m.of] = "push-to-talk" ->
               Release(m.of, m.key)
          [] OTHER -> UNCHANGED gesture
  /\ UNCHANGED <<desktop, available, mode, registration, service, keyboard, xevents, grab,
                 posted, faults, trays>>

RunPosted ==
  /\ posted # <<>>
  /\ posted' = Tail(posted)
  /\ LET e == Head(posted)
     IN IF e.edge = "pressed" THEN Pressed(e.of, e.key, e.press) ELSE Release(e.of, e.key)
  /\ UNCHANGED <<desktop, available, mode, registration, service, bus, keyboard, xevents, grab,
                 faults, trays>>

\* The tray or the window starts a recording, or ends the one that runs.
TrayToggles ==
  /\ trays < MaxTray
  /\ trays' = trays + 1
  /\ recording' = IF recording = None THEN Tray ELSE None
  /\ UNCHANGED <<desktop, available, mode, registration, service, bus, keyboard, xevents, grab,
                 posted, controller, acted, twice, faults>>

(***************************************************************************)
(* The thread of a grab.                                                   *)
(***************************************************************************)
\* Mutant: a release is an edge at once, autorepeat or not.
ReadKeyEventAtOnce(k) ==
  /\ x11 # None /\ xevents[k] # <<>>
  /\ xevents' = [xevents EXCEPT ![k] = Tail(@)]
  /\ LET e == Head(xevents[k])
     IN /\ grab' = [grab EXCEPT ![k].active = IF e.type = "press" THEN e.press ELSE None]
        /\ posted' = Append(posted, [edge |-> IF e.type = "press" THEN "pressed" ELSE "released",
                                     of |-> x11, key |-> k, press |-> e.press])
  /\ UNCHANGED <<desktop, available, mode, registration, service, bus, keyboard, gesture,
                 faults, trays>>

\* A press is an edge unless it ends an autorepeat pair; a release starts the delay.
ReadKeyEvent(k) ==
  /\ x11 # None /\ xevents[k] # <<>>
  /\ xevents' = [xevents EXCEPT ![k] = Tail(@)]
  /\ LET e == Head(xevents[k])
         s == grab[k]
     IN CASE e.type = "press" /\ s.deadline ->
               grab' = [grab EXCEPT ![k].deadline = FALSE] /\ UNCHANGED posted
          [] e.type = "press" /\ ~s.deadline /\ s.active = None ->
               /\ grab' = [grab EXCEPT ![k].active = e.press]
               /\ posted' = Append(posted, [edge |-> "pressed", of |-> x11, key |-> k,
                                            press |-> e.press])
          [] e.type = "release" /\ s.active # None ->
               grab' = [grab EXCEPT ![k].deadline = TRUE] /\ UNCHANGED posted
          [] OTHER -> UNCHANGED <<grab, posted>>
  /\ UNCHANGED <<desktop, available, mode, registration, service, bus, keyboard, gesture,
                 faults, trays>>

\* The delay of a release passes with no event to read.
FlushRelease(k) ==
  /\ x11 # None /\ grab[k].deadline /\ xevents[k] = <<>>
  /\ grab' = [grab EXCEPT ![k] = Loose]
  /\ posted' = Append(posted, [edge |-> "released", of |-> x11, key |-> k,
                               press |-> grab[k].active])
  /\ UNCHANGED <<desktop, available, mode, registration, service, bus, keyboard, xevents,
                 gesture, faults, trays>>

(***************************************************************************)
(* The portal and the keyboard.                                            *)
(***************************************************************************)
Answer(g, kind, ok, keys) == [kind |-> kind, of |-> g, ok |-> ok, keys |-> keys]
Signal(kind, g, k, n) == [kind |-> kind, of |-> g, key |-> k, press |-> n]

PortalAnswers ==
  /\ \E request \in pending :
       LET g == request[1]
           kind == request[2]
       IN /\ pending' = pending \ {request}
          /\ \/ /\ bus' = Append(bus, Answer(g, kind, FALSE, {})) /\ UNCHANGED <<open, granted>>
             \/ /\ kind = "CreateSession" /\ open' = open \cup {g}
                /\ bus' = Append(bus, Answer(g, kind, TRUE, {})) /\ UNCHANGED granted
             \/ /\ kind = "BindShortcuts" /\ g \in open
                /\ granted' \in {[granted EXCEPT ![g] = keys] : keys \in SUBSET Keys}
                /\ bus' = Append(bus, Answer(g, kind, TRUE, {})) /\ UNCHANGED open
             \/ /\ kind = "ListShortcuts" /\ g \in open
                /\ bus' = Append(bus, Answer(g, kind, TRUE, granted[g]))
                /\ UNCHANGED <<open, granted>>
  /\ UNCHANGED <<desktop, available, mode, registration, keyboard, xevents, grab, posted,
                 gesture, faults, trays>>

PortalCloses ==
  /\ faults < MaxFaults
  /\ faults' = faults + 1
  /\ \E g \in open :
       /\ open' = open \ {g}
       /\ bus' = IF WatchesSession(g)
                 THEN Append(bus, [kind |-> "Closed", of |-> g]) ELSE bus
  /\ UNCHANGED <<desktop, available, mode, registration, pending, granted, keyboard, xevents,
                 grab, posted, gesture, trays>>

\* The portal restarts: its sessions and the requests it was asked are gone.
PortalRestarts ==
  /\ available
  /\ faults < MaxFaults
  /\ faults' = faults + 1
  /\ open' = {} /\ pending' = {}
  /\ bus' = IF WatchesService(held) THEN Append(bus, [kind |-> "NoOwner", of |-> held]) ELSE bus
  /\ UNCHANGED <<desktop, available, mode, registration, granted, keyboard, xevents, grab,
                 posted, gesture, trays>>

\* A key reaches the grab its press activated (a grab made while the key is
\* held is not activated before the next press), and a session that bound it.
KeyMoves(k, n, type, signal) ==
  /\ xevents' = IF x11 = None \/ seized'[k] # x11 THEN xevents
                ELSE [xevents EXCEPT ![k] = Append(@, [type |-> type, press |-> n])]
  /\ LET heard == {g \in open : k \in granted[g] /\ portal[g].state = "ready"}
     IN bus' = bus \o SetToSeq({Signal(signal, g, k, n) : g \in heard})
  /\ UNCHANGED <<desktop, available, mode, registration, service, grab, posted, gesture,
                 faults, trays>>

KeyDown(k) ==
  /\ down[k] = None /\ presses < MaxPresses
  /\ presses' = presses + 1
  /\ down' = [down EXCEPT ![k] = presses + 1]
  /\ seized' = [seized EXCEPT ![k] = x11]
  /\ KeyMoves(k, presses + 1, "press", "Activated")
  /\ UNCHANGED repeats

KeyUp(k) ==
  /\ down[k] # None
  /\ down' = [down EXCEPT ![k] = None]
  /\ UNCHANGED <<seized, presses, repeats>>
  /\ KeyMoves(k, down[k], "release", "Deactivated")

\* The X server repeats a held key as a release and a press at once.
AutoRepeat(k) ==
  /\ down[k] # None /\ x11 # None /\ seized[k] = x11 /\ repeats < MaxRepeats
  /\ repeats' = repeats + 1
  /\ xevents' = [xevents EXCEPT ![k] = @ \o <<[type |-> "release", press |-> down[k]],
                                              [type |-> "press", press |-> down[k]]>>]
  /\ UNCHANGED <<desktop, available, mode, registration, service, bus, down, seized, presses, grab,
                 posted, gesture, faults, trays>>

Next ==
  \/ Restart \/ HandleAnswer \/ HandleSignal \/ RunPosted \/ TrayToggles
  \/ \E k \in Keys : ReadKeyEvent(k) \/ FlushRelease(k)
  \/ PortalAnswers \/ PortalCloses \/ PortalRestarts
  \/ \E k \in Keys : KeyDown(k) \/ KeyUp(k) \/ AutoRepeat(k)

Spec == Init /\ [][Next]_vars

(***************************************************************************)
(* Properties.                                                             *)
(***************************************************************************)
\* The states of a backend agree with the lists it was built for.
TypeOK ==
  /\ gens \in 0..MaxGen /\ held \in 0..gens /\ x11 \in 0..gens
  /\ \A g \in Gens :
       /\ portal[g].state \in {"idle", "creating", "binding", "listing", "ready"}
       /\ portal[g].state \in {"binding", "listing", "ready"} <=> portal[g].session
       /\ g > gens => portal[g] = Idle /\ g \notin open
  /\ recording \in {None, Tray} \cup Presses
  /\ \A k \in Keys : grab[k].deadline => grab[k].active # None

\* A portal backend and the X11 grabs never serve the shortcuts together, and
\* no replaced backend still answers: a backend that failed inside its own
\* registration has left the grabs to its fallback (start_shortcut,
\* _portal_shortcut_error, _restart_shortcut).
OneBackend ==
  /\ Cardinality({g \in Gens : portal[g].state # "idle"}) + (IF x11 = None THEN 0 ELSE 1) <= 1
  /\ \A g \in Gens : portal[g].state # "idle" => held = g

\* A session in which the portal bound shortcuts is the one the application
\* listens to: one it gave up, at whatever step of the registration, was
\* closed and cannot keep the keys from other programs.
BoundSessionIsServed ==
  \A g \in open : granted[g] # {} => g = held /\ portal[g].session

\* When no backend serves the shortcuts the user was told so after the last
\* registration: no refusal, closed session, restarted portal or failed grab,
\* in whatever order they meet a replacement, leaves the keys silently dead.
DeafIsTold ==
  (x11 = None /\ \A g \in Gens : portal[g].state = "idle") => told

\* One physical press starts or stops a recording at most once, whatever the
\* autorepeat, the backend it came through and the replacements in between.
OnePressOneGesture == ~twice

\* A push-to-talk recording that a registered shortcut started does not outlive
\* the key: once the key is up it runs only while the release is on its way.
ReleaseEndsIt ==
  LET g == acted[recording]
  IN (/\ recording \in Presses /\ modeOf[g] = "push-to-talk"
      /\ g = x11 \/ (portal[g].state = "ready" /\ g \in open)
      /\ \A k \in Keys : down[k] = None)
     => \/ \E k \in Keys : xevents[k] # <<>> \/ grab[k].deadline
        \/ posted # <<>> \/ bus # <<>>

\* A press of a toggle shortcut that arrives while a recording runs ends it
\* (tests/runtime/test_runtime.py:61).
TogglePressStops ==
  [][ (/\ bus # <<>> /\ bus' = Tail(bus)
       /\ Head(bus).kind = "Activated" /\ modeOf[Head(bus).of] = "toggle"
       /\ portal[Head(bus).of].state = "ready"
       /\ Head(bus).key \in portal[Head(bus).of].bindings
       /\ recording # None)
      => recording' = None ]_vars

=============================================================================
