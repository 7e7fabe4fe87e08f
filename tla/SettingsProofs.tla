---------------------------- MODULE SettingsProofs ----------------------------
(***************************************************************************)
(* Proofs about Settings, for every set of modes and preferences, every    *)
(* legacy file and every hand-edited one, and every bound on calls,        *)
(* crashes and faults.                                                     *)
(*                                                                         *)
(* A call is a queue of steps, and what holds between two calls is broken  *)
(* and mended inside one.  The invariant therefore says of every fact      *)
(* which of the steps that are left will mend it, and of the queue which   *)
(* step may be behind which.                                               *)
(***************************************************************************)
EXTENDS Settings, SequenceTheorems, TLAPS

-----------------------------------------------------------------------------
(***************************************************************************)
(* The inductive invariant                                                 *)
(***************************************************************************)

\* The settings the runtime may hold, and what config.ini may hold.
Good(cfg) ==
  /\ cfg = With(cfg.prefs, cfg.mode) /\ IsPreferences(cfg.prefs)
  /\ cfg.prefs.days >= 0 /\ cfg.prefs.provider # "faster_whisper"
Filed(file) ==
  file # Absent => /\ file = With(file.prefs, file.mode) /\ IsPreferences(file.prefs)
                   /\ file.prefs.prompt # "commented"
Values ==
  /\ modes \in [Modes -> Styles \cup {"absent"}] /\ modes["raw"] # "absent"
  /\ Good(config) /\ Filed(profile) /\ legacy \in LegacyFiles
  /\ up \in Frontends \cup {"none"}
  /\ failed \in BOOLEAN /\ orphaned \in BOOLEAN /\ restart \in BOOLEAN

\* Which step may be behind which in a queue.
Follows(first, second) ==
  \/ first \in {"migrate", "mark"} /\ second \in {"load", "first", "form", "refresh", "bind"}
  \/ first = "load" /\ second \in {"first", "form", "refresh", "bind"}
  \/ first = "first" /\ second \in {"form", "refresh", "bind"}
  \/ first = "form" /\ second \in {"refresh", "bind"}
  \/ first = "refresh" /\ second \in {"bind", "edited"}
  \/ first \in {"show", "store"} /\ second \in {"show", "bind", "edited"}
  \/ first = "save" /\ second \in {"prune", "apply", "keep"}
  \/ first = "prune" /\ second \in {"apply", "keep"}
  \/ first = "apply" /\ second = "keep"
  \/ first \in {"select", "file"} /\ second \in {"start", "rebind", "refresh"}
  \/ first = "rebind" /\ second \in {"refresh", "edited"}

\* A queue whose steps are in an order that Follows allows, and their kinds.
IsQueue(q) ==
  /\ q \in Seq({q[i] : i \in 1..Len(q)})
  /\ \A i, j \in 1..Len(q) : i < j => Follows(q[i].do, q[j].do)
Kinds(q) == {q[i].do : i \in 1..Len(q)}

\* The steps that are left, which of them come together, and what a save was given.
Left == Kinds(todo)
Queue ==
  /\ IsQueue(todo)
  /\ "migrate" \in Left => "load" \in Left
  /\ "load" \in Left => "bind" \in Left
  /\ "save" \in Left => "apply" \in Left
  /\ up = "none" => todo = <<>>
  /\ up = "engine" => "show" \notin Left /\ "refresh" \notin Left
SaveIsSound ==
  AtStep("save") =>
    LET step == Head(todo) IN
    /\ Good(step.cfg) /\ step.cfg.mode \in Known
    /\ up = "engine" /\ ~step.picked => step.cfg.mode = config.mode

\* A process that runs has not loaded the settings yet; the settings were
\* written and not yet applied; the mode was selected and not yet written.
Starting == up = "none" \/ "load" \in Left
Saving == "apply" \in Left /\ "save" \notin Left
Selecting == "file" \in Left \/ "store" \in Left

Survives ==
  /\ SavedSurvives
  /\ "first" \in Left => saved = Absent

\* What the next load takes from the file.
FromFile ==
  Starting => /\ chosen = Loaded(profile).mode
              /\ ~orphaned => Loaded(profile).mode \in Known

\* What the running process has derived from its settings.
OnDisk == Loaded(profile) = Written(config)
Derived ==
  /\ active = config.mode /\ policy = config.prefs.days
  /\ config.prefs.device # device => restart
Registered ==
  /\ bound.dictation = config.prefs.shortcut
  /\ bound.modes \cap Known = Specs(config.prefs).modes
Running ==
  ~Starting =>
    /\ Saving => OnDisk /\ config.mode \in Known
    /\ ~failed /\ ~Selecting => OnDisk
    /\ ~failed /\ ~Saving => Derived
    /\ "bind" \notin Left => Serving
    /\ ~failed /\ ~Saving /\ "bind" \notin Left /\ ~AtStep("rebind") => Registered
    /\ ~orphaned /\ ~AtStep("select") => active \in Known
    /\ up = "engine" => chosen = config.mode

SettingsInv ==
  Values /\ Queue /\ SaveIsSound /\ Survives /\ FromFile /\ days = config.prefs.days /\ Running

-----------------------------------------------------------------------------
(***************************************************************************)
(* What a profile reads back as                                            *)
(***************************************************************************)

\* The fields of written settings.
LEMMA WrittenIs ==
  ASSUME NEW cfg, Good(cfg)
  PROVE  /\ Written(cfg) =
              With([cfg.prefs EXCEPT !.prompt = IF cfg.prefs.prompt = "commented" THEN "cut" ELSE cfg.prefs.prompt],
                   cfg.mode)
         /\ Good(Written(cfg)) /\ Filed(Written(cfg)) /\ Written(cfg).mode = cfg.mode
         /\ Written(cfg) # Absent
<1> DEFINE p == cfg.prefs
           q == [live |-> p.live, provider |-> p.provider, days |-> p.days, shortcut |-> p.shortcut,
                 prompt |-> IF p.prompt = "commented" THEN "cut" ELSE p.prompt, device |-> p.device]
<1>1. /\ cfg = [prefs |-> p, mode |-> cfg.mode] /\ p.live \in BOOLEAN /\ p.days \in Int /\ p.days >= 0
      /\ p.shortcut # "none" /\ p.provider # "faster_whisper"
      /\ p = [live |-> p.live, provider |-> p.provider, days |-> p.days, shortcut |-> p.shortcut,
              prompt |-> p.prompt, device |-> p.device]
  BY DEF Good, With, IsPreferences
<1>2. [p EXCEPT !.prompt = IF p.prompt = "commented" THEN "cut" ELSE p.prompt] = q
  BY <1>1
<1>3. Written(cfg) = [prefs |-> q, mode |-> cfg.mode]
  BY <1>1 DEF Written
<1>4. IsPreferences(q) /\ q.days >= 0 /\ q.provider # "faster_whisper" /\ q.prompt # "commented"
  BY <1>1 DEF IsPreferences
<1>5. Written(cfg) # Absent
  BY <1>3 DEF Absent
<1>6. QED
  BY <1>2, <1>3, <1>4, <1>5 DEF Good, Filed, With

\* The fields of recovered settings.
LEMMA RecoveredIs ==
  ASSUME NEW live, NEW provider, NEW retention, NEW shortcut, NEW prompt, NEW hardware, NEW m,
         NEW file, file = [prefs |-> [live |-> live, provider |-> provider, days |-> retention, shortcut |-> shortcut,
                                      prompt |-> prompt, device |-> hardware], mode |-> m]
  PROVE  Recovered(file) =
           [prefs |-> [live |-> live,
                       provider |-> IF provider = "faster_whisper" THEN "faster-whisper" ELSE provider,
                       days |-> IF retention < 0 THEN Default.days ELSE retention, shortcut |-> shortcut,
                       prompt |-> prompt, device |-> hardware],
            mode |-> m]
<1> DEFINE recovered == IF retention < 0 THEN Default.days ELSE retention
           renamed == IF provider = "faster_whisper" THEN "faster-whisper" ELSE provider
           one == [prefs |-> [live |-> live, provider |-> provider, days |-> recovered, shortcut |-> shortcut,
                              prompt |-> prompt, device |-> hardware], mode |-> m]
<1>1. [file EXCEPT !.prefs.days = IF @ < 0 THEN Default.days ELSE @] = one
  OBVIOUS
<1>2. [one EXCEPT !.prefs.provider = IF @ = "faster_whisper" THEN "faster-whisper" ELSE @]
        = [prefs |-> [live |-> live, provider |-> renamed, days |-> recovered, shortcut |-> shortcut,
                      prompt |-> prompt, device |-> hardware], mode |-> m]
  OBVIOUS
<1>3. QED
  BY <1>1, <1>2 DEF Recovered

\* Written settings load as they were written.
LEMMA WrittenLoads ==
  ASSUME NEW cfg, Good(cfg)
  PROVE  Loaded(Written(cfg)) = Written(cfg)
<1> DEFINE w == Written(cfg)  p == w.prefs
<1>1. Good(w) /\ w # Absent
  BY WrittenIs
<1> HIDE DEF w
<1>2. /\ w = [prefs |-> p, mode |-> w.mode] /\ p.days \in Int /\ p.days >= 0 /\ p.provider # "faster_whisper"
      /\ p = [live |-> p.live, provider |-> p.provider, days |-> p.days, shortcut |-> p.shortcut,
              prompt |-> p.prompt, device |-> p.device]
  BY <1>1 DEF Good, With, IsPreferences
<1>3. Recovered(w) = w
  BY <1>2, RecoveredIs
<1>4. QED
  BY <1>1, <1>3 DEF Loaded, w

\* What is loaded is sound, and is written as it was loaded.
LEMMA LoadedIs ==
  ASSUME NEW file, Filed(file)
  PROVE  Good(Loaded(file)) /\ Written(Loaded(file)) = Loaded(file)
<1> DEFINE D == [live |-> Default.live, provider |-> Default.provider, days |-> Default.days,
                 shortcut |-> Default.shortcut, prompt |-> Default.prompt, device |-> Default.device]
<1>0. /\ Default = D /\ Default.live \in BOOLEAN /\ Default.days \in Int /\ Default.days >= 0
      /\ Default.shortcut # "none" /\ Default.provider = "faster-whisper" /\ Default.prompt # "commented"
  BY PreferencesAssumption DEF IsPreferences
<1>1. CASE file = Absent
  <2>1. Loaded(file) = [prefs |-> Default, mode |-> "raw"]
    BY <1>1 DEF Loaded, Fresh, With
  <2>2. Good(Loaded(file))
    BY <1>0, <2>1 DEF Good, With, IsPreferences
  <2>3. [Default EXCEPT !.prompt = Default.prompt] = Default
    BY <1>0
  <2>4. QED
    BY <1>0, <2>1, <2>2, <2>3 DEF Written
<1>2. CASE file # Absent
  <2> DEFINE p == file.prefs
             retention == IF p.days < 0 THEN Default.days ELSE p.days
             provider_ == IF p.provider = "faster_whisper" THEN "faster-whisper" ELSE p.provider
             q == [live |-> p.live, provider |-> provider_, days |-> retention, shortcut |-> p.shortcut,
                   prompt |-> p.prompt, device |-> p.device]
  <2>1. /\ file = [prefs |-> p, mode |-> file.mode] /\ p.live \in BOOLEAN /\ p.days \in Int
        /\ p.shortcut # "none" /\ p.prompt # "commented"
        /\ p = [live |-> p.live, provider |-> p.provider, days |-> p.days, shortcut |-> p.shortcut,
                prompt |-> p.prompt, device |-> p.device]
    BY <1>2 DEF Filed, With, IsPreferences
  <2>3. Recovered(file) = [prefs |-> q, mode |-> file.mode]
    BY <2>1, RecoveredIs
  <2>4. Loaded(file) = [prefs |-> q, mode |-> file.mode]
    BY <1>2, <2>3 DEF Loaded
  <2>5. Good(Loaded(file))
    BY <1>0, <2>1, <2>4 DEF Good, With, IsPreferences
  <2>6. [q EXCEPT !.prompt = q.prompt] = q
    OBVIOUS
  <2>7. Written(Loaded(file)) = Loaded(file)
    BY <2>1, <2>4, <2>6 DEF Written
  <2>8. QED
    BY <2>5, <2>7
<1>3. QED
  BY <1>1, <1>2

\* What is submitted, when it is accepted.
LEMMA AcceptedIsGood ==
  ASSUME NEW d, IsPreferences(d), NEW m, Acceptable(With(d, m))
  PROVE  Good(With(d, m)) /\ With(d, m).mode = m /\ m \in Known
<1>1. With(d, m) = [prefs |-> d, mode |-> m]
  BY DEF With
<1>2. QED
  BY <1>1 DEF Acceptable, Good, With, Transcribes

LEMMA WidgetsArePreferences ==
  ASSUME NEW d \in Drafts
  PROVE  IsPreferences(d) /\ IsPreferences(Widgets(d))
<1>1. /\ IsPreferences(d) /\ d.live \in BOOLEAN /\ d.days \in Int /\ d.shortcut # "none"
      /\ d = [live |-> d.live, provider |-> d.provider, days |-> d.days, shortcut |-> d.shortcut,
              prompt |-> d.prompt, device |-> d.device]
  BY PreferencesAssumption DEF IsPreferences
<1>2. (d.live /\ Streams(d.provider)) \in BOOLEAN
  BY DEF Streams
<1>3. Widgets(d) = [live |-> d.live /\ Streams(d.provider), provider |-> d.provider, days |-> d.days,
                    shortcut |-> d.shortcut, prompt |-> d.prompt, device |-> d.device]
  BY <1>1 DEF Widgets
<1>4. QED
  BY <1>1, <1>2, <1>3 DEF IsPreferences

\* Another mode leaves the settings sound; a profile taken over is one.
LEMMA ModeIs ==
  ASSUME NEW cfg, Good(cfg), NEW m
  PROVE  /\ Good([cfg EXCEPT !.mode = m]) /\ [cfg EXCEPT !.mode = m].mode = m
         /\ [cfg EXCEPT !.mode = m].prefs = cfg.prefs
BY DEF Good, With

LEMMA MigratedIs ==
  ASSUME NEW file, file.shortcut # "none"
  PROVE  Filed(Migrated(file)) /\ Migrated(file) # Absent /\ Loaded(Migrated(file)).mode = "raw"
<1>1. PICK live, provider, retention, shortcut, prompt, hardware :
        Default = [live |-> live, provider |-> provider, days |-> retention, shortcut |-> shortcut,
                   prompt |-> prompt, device |-> hardware]
  BY PreferencesAssumption DEF IsPreferences
<1>2. live \in BOOLEAN /\ retention \in Int /\ prompt # "commented"
  BY <1>1, PreferencesAssumption DEF IsPreferences
<1> DEFINE s == file.shortcut  d == file.device
           one == [live |-> live, provider |-> provider, days |-> retention, shortcut |-> s, prompt |-> prompt,
                   device |-> hardware]
           two == [live |-> live, provider |-> provider, days |-> retention, shortcut |-> s, prompt |-> prompt,
                   device |-> d]
<1>3. [Default EXCEPT !.shortcut = s] = one
  BY <1>1
<1>4. [one EXCEPT !.device = d] = two
  OBVIOUS
<1>5. Migrated(file) = [prefs |-> two, mode |-> "raw"]
  BY <1>3, <1>4 DEF Migrated, With
<1>6. Filed(Migrated(file)) /\ Migrated(file) # Absent
  BY <1>2, <1>5 DEF Filed, With, IsPreferences, Absent
<1>7. Loaded(Migrated(file)).mode = "raw"
  BY <1>5, <1>6 DEF Loaded, Recovered
<1>8. QED
  BY <1>6, <1>7

LEMMA FreshIs == Filed(Fresh) /\ Good(Fresh) /\ Fresh # Absent /\ Loaded(Fresh).mode = "raw" /\ Fresh.mode = "raw"
<1>1. Fresh = [prefs |-> Default, mode |-> "raw"]
  BY DEF Fresh, With
<1>2. Filed(Fresh) /\ Good(Fresh) /\ Fresh # Absent
  BY <1>1, PreferencesAssumption DEF Filed, Good, With, Absent
<1>3. Loaded(Fresh).mode = "raw" /\ Fresh.mode = "raw"
  BY <1>1, <1>2 DEF Loaded, Recovered
<1>4. QED
  BY <1>2, <1>3

-----------------------------------------------------------------------------
(***************************************************************************)
(* Queues of steps                                                         *)
(***************************************************************************)

LEMMA OfItsOwn ==
  ASSUME NEW S, NEW q \in Seq(S), NEW T, \A i \in 1..Len(q) : q[i] \in T
  PROVE  q \in Seq(T)
<1>1. Len(q) \in Nat /\ q \in [1..Len(q) -> S]
  BY LenProperties
<1>2. q \in [1..Len(q) -> T]
  BY <1>1
<1>3. QED
  BY <1>1, <1>2, SeqDef

LEMMA FirstIs ==
  ASSUME NEW S, NEW q \in Seq(S), q # <<>>
  PROVE  Head(q) = q[1]
<1>1. Len(q) \in Nat /\ 1 \in 1..Len(q) /\ Len(q) \in 1..Len(q)
  BY EmptySeq
<1>2. Head(SubSeq(q, 1, Len(q))) = q[1]
  BY <1>1, HeadTailOfSubSeq
<1>3. SubSeq(q, 1, Len(q)) = q
  BY SubSeqFull
<1>4. QED
  BY <1>2, <1>3

LEMMA NoStep == IsQueue(<<>>) /\ Kinds(<<>>) = {}
<1>1. Len(<<>>) = 0 /\ \A S : <<>> \in Seq(S)
  BY EmptySeq
<1>2. 1..Len(<<>>) = {}
  BY <1>1
<1>3. QED
  BY <1>1, <1>2 DEF IsQueue, Kinds

LEMMA OneStep ==
  ASSUME NEW a
  PROVE  IsQueue(<<a>>) /\ Kinds(<<a>>) = {a.do} /\ <<a>> # <<>> /\ Head(<<a>>) = a
<1>1. <<a>> \in Seq({a}) /\ Len(<<a>>) = 1 /\ <<a>>[1] = a
  OBVIOUS
<1>2. 1..Len(<<a>>) = {1}
  BY <1>1
<1>3. <<a>> \in Seq({<<a>>[i] : i \in 1..Len(<<a>>)})
  <2> DEFINE T == {<<a>>[i] : i \in 1..Len(<<a>>)}
  <2>1. \A i \in 1..Len(<<a>>) : <<a>>[i] \in T
    OBVIOUS
  <2> HIDE DEF T
  <2>2. <<a>> \in Seq(T)
    BY <1>1, <2>1, OfItsOwn
  <2>3. QED
    BY <2>2 DEF T
<1>4. \A i, j \in 1..Len(<<a>>) : ~(i < j)
  BY <1>2
<1>5. IsQueue(<<a>>)
  BY <1>3, <1>4 DEF IsQueue
<1>6. Kinds(<<a>>) = {a.do}
  BY <1>1, <1>2 DEF Kinds
<1>7. QED
  BY <1>5, <1>6

\* What is left when the next step is done.
LEMMA Popped ==
  ASSUME NEW q, IsQueue(q), q # <<>>, NEW r, r = Tail(q)
  PROVE  /\ IsQueue(r) /\ Kinds(q) = {Head(q).do} \cup Kinds(r)
         /\ \A k \in Kinds(r) : Follows(Head(q).do, k)
<1> DEFINE S == {q[i] : i \in 1..Len(q)}
<1>1. q \in Seq(S)
  BY DEF IsQueue
<1> HIDE DEF S
<1>2. Len(q) \in Nat /\ Len(q) > 0
  BY <1>1, LenProperties, EmptySeq
<1>3. r \in Seq(S) /\ Len(r) = Len(q) - 1 /\ \A i \in 1..Len(r) : r[i] = q[i + 1]
  BY <1>1, HeadTailProperties
<1>4. Head(q) = q[1]
  BY <1>1, FirstIs
<1>5. r \in Seq({r[i] : i \in 1..Len(r)})
  <2> DEFINE T == {r[i] : i \in 1..Len(r)}
  <2>1. r \in Seq(S)
    BY <1>3
  <2>2. \A i \in 1..Len(r) : r[i] \in T
    OBVIOUS
  <2> HIDE DEF T
  <2>3. r \in Seq(T)
    BY <2>1, <2>2, OfItsOwn
  <2>4. QED
    BY <2>3 DEF T
<1>6. \A i, j \in 1..Len(r) : i < j => Follows(r[i].do, r[j].do)
  <2> TAKE i, j \in 1..Len(r)
  <2>1. i + 1 \in 1..Len(q) /\ j + 1 \in 1..Len(q) /\ (i < j => i + 1 < j + 1)
    BY <1>2, <1>3
  <2>2. QED
    BY <1>3, <2>1 DEF IsQueue
<1>7. ASSUME NEW i \in 1..Len(r) PROVE i + 1 \in 1..Len(q) /\ 1 \in 1..Len(q) /\ 1 < i + 1 /\ r[i] = q[i + 1]
  BY <1>2, <1>3
<1>8. \A k \in Kinds(r) : Follows(Head(q).do, k) /\ k \in Kinds(q)
  BY <1>4, <1>7 DEF IsQueue, Kinds
<1>9. Head(q).do \in Kinds(q)
  BY <1>2, <1>4 DEF Kinds
<1>10. ASSUME NEW k \in Kinds(q), k # Head(q).do PROVE k \in Kinds(r)
  <2>1. PICK i \in 1..Len(q) : k = q[i].do
    BY DEF Kinds
  <2>2. i # 1
    BY <1>4, <1>10, <2>1
  <2>3. i - 1 \in 1..Len(r) /\ (i - 1) + 1 = i
    BY <1>2, <1>3, <2>2
  <2>4. r[i - 1] = q[i]
    BY <1>3, <2>3
  <2>5. QED
    BY <2>1, <2>3, <2>4 DEF Kinds
<1>11. QED
  BY <1>5, <1>6, <1>8, <1>9, <1>10 DEF IsQueue

\* Steps in front of others.
LEMMA Joined ==
  ASSUME NEW p, IsQueue(p), NEW q, IsQueue(q), \A k \in Kinds(p), l \in Kinds(q) : Follows(k, l),
         NEW r, r = p \o q
  PROVE  /\ IsQueue(r) /\ Kinds(r) = Kinds(p) \cup Kinds(q)
         /\ p # <<>> => r # <<>> /\ Head(r) = Head(p)
<1> DEFINE P == {p[i] : i \in 1..Len(p)}
           Q == {q[i] : i \in 1..Len(q)}
           S == P \cup Q
<1>1. p \in Seq(S) /\ q \in Seq(S)
  <2>1. p \in Seq(P) /\ q \in Seq(Q) /\ P \subseteq S /\ Q \subseteq S
    BY DEF IsQueue
  <2> HIDE DEF P, Q, S
  <2>2. QED
    BY <2>1, SeqMonotonic
<1> HIDE DEF P, Q, S
<1>2. Len(p) \in Nat /\ Len(q) \in Nat
  BY <1>1, LenProperties
<1>3. /\ r \in Seq(S) /\ Len(r) = Len(p) + Len(q)
      /\ \A i \in 1..(Len(p) + Len(q)) : r[i] = IF i <= Len(p) THEN p[i] ELSE q[i - Len(p)]
  BY <1>1, ConcatProperties
<1>4. ASSUME NEW i \in 1..Len(r)
      PROVE  (i \in 1..Len(p) /\ r[i] = p[i])
             \/ (i > Len(p) /\ i - Len(p) \in 1..Len(q) /\ r[i] = q[i - Len(p)])
  BY <1>2, <1>3
<1>5. r \in Seq({r[i] : i \in 1..Len(r)})
  <2> DEFINE T == {r[i] : i \in 1..Len(r)}
  <2>1. r \in Seq(S)
    BY <1>3
  <2>2. \A i \in 1..Len(r) : r[i] \in T
    OBVIOUS
  <2> HIDE DEF T
  <2>3. r \in Seq(T)
    BY <2>1, <2>2, OfItsOwn
  <2>4. QED
    BY <2>3 DEF T
<1>6. ASSUME NEW i \in 1..Len(r), NEW j \in 1..Len(r), i < j PROVE Follows(r[i].do, r[j].do)
  <2>1. CASE j \in 1..Len(p) /\ r[j] = p[j]
    <3>1. i \in 1..Len(p) /\ r[i] = p[i]
      BY <1>2, <1>4, <1>6, <2>1
    <3>2. QED
      BY <1>6, <2>1, <3>1 DEF IsQueue
  <2>2. CASE j > Len(p) /\ j - Len(p) \in 1..Len(q) /\ r[j] = q[j - Len(p)]
    <3>1. CASE i \in 1..Len(p) /\ r[i] = p[i]
      BY <2>2, <3>1 DEF Kinds
    <3>2. CASE i > Len(p) /\ i - Len(p) \in 1..Len(q) /\ r[i] = q[i - Len(p)]
      <4>1. i - Len(p) < j - Len(p)
        BY <1>2, <1>6
      <4>2. QED
        BY <2>2, <3>2, <4>1 DEF IsQueue
    <3>3. QED
      BY <1>4, <3>1, <3>2
  <2>3. QED
    BY <1>4, <2>1, <2>2
<1>7. Kinds(r) \subseteq Kinds(p) \cup Kinds(q)
  BY <1>4 DEF Kinds
<1>8. Kinds(p) \subseteq Kinds(r)
  <2>1. \A i \in 1..Len(p) : i \in 1..Len(r) /\ r[i] = p[i]
    BY <1>2, <1>3
  <2>2. QED
    BY <2>1 DEF Kinds
<1>9. Kinds(q) \subseteq Kinds(r)
  <2>1. \A i \in 1..Len(q) : i + Len(p) \in 1..Len(r) /\ r[i + Len(p)] = q[i]
    BY <1>2, <1>3
  <2>2. QED
    BY <2>1 DEF Kinds
<1>10. p # <<>> => r # <<>> /\ Head(r) = Head(p)
  <2> SUFFICES ASSUME p # <<>> PROVE r # <<>> /\ Head(r) = Head(p)
    OBVIOUS
  <2>1. Len(p) > 0
    BY <1>1, <1>2, EmptySeq
  <2>2. r # <<>> /\ r[1] = p[1]
    BY <1>2, <1>3, <2>1, EmptySeq
  <2>3. Head(r) = r[1] /\ Head(p) = p[1]
    BY <1>1, <1>3, <2>2, FirstIs
  <2>4. QED
    BY <2>2, <2>3
<1>11. QED
  BY <1>5, <1>6, <1>7, <1>8, <1>9, <1>10 DEF IsQueue

\* One step in front, and queues of two steps and more.
LEMMA Put ==
  ASSUME NEW a, NEW q, IsQueue(q), \A k \in Kinds(q) : Follows(a.do, k), NEW r, r = <<a>> \o q
  PROVE  IsQueue(r) /\ Kinds(r) = {a.do} \cup Kinds(q) /\ r # <<>> /\ Head(r) = a
<1> DEFINE p == <<a>>
<1>1. IsQueue(p) /\ Kinds(p) = {a.do} /\ p # <<>> /\ Head(p) = a
  BY OneStep
<1>2. r = p \o q
  OBVIOUS
<1> HIDE DEF p
<1>3. \A k \in Kinds(p), l \in Kinds(q) : Follows(k, l)
  BY <1>1
<1>4. IsQueue(r) /\ Kinds(r) = Kinds(p) \cup Kinds(q) /\ (p # <<>> => r # <<>> /\ Head(r) = Head(p))
  BY <1>1, <1>2, <1>3, Joined
<1>5. QED
  BY <1>1, <1>4

LEMMA TwoSteps ==
  ASSUME NEW a, NEW b, Follows(a.do, b.do), NEW r, r = <<a, b>>
  PROVE  IsQueue(r) /\ Kinds(r) = {a.do, b.do} /\ r # <<>> /\ Head(r) = a
<1> DEFINE q == <<b>>
<1>1. IsQueue(q) /\ Kinds(q) = {b.do}
  BY OneStep
<1>2. r = <<a>> \o q
  <2> DEFINE S == {a, b}
  <2>1. r \in Seq(S) /\ <<a>> \in Seq(S) /\ q \in Seq(S) /\ Len(<<a>>) = 1 /\ Len(q) = 1 /\ Len(r) = 2
    OBVIOUS
  <2>2. <<a>> \o q \in Seq(S) /\ Len(<<a>> \o q) = 2
    BY <2>1
  <2>3. (<<a>> \o q)[1] = a /\ (<<a>> \o q)[2] = b
    OBVIOUS
  <2>4. \A i \in 1..Len(r) : r[i] = (<<a>> \o q)[i]
    BY <2>1, <2>3
  <2> HIDE DEF S, q
  <2>5. QED
    BY <2>1, <2>2, <2>4, SeqEqual
<1> HIDE DEF q
<1>3. \A k \in Kinds(q) : Follows(a.do, k)
  BY <1>1
<1>4. IsQueue(r) /\ Kinds(r) = {a.do} \cup Kinds(q) /\ r # <<>> /\ Head(r) = a
  BY <1>1, <1>2, <1>3, Put
<1>5. QED
  BY <1>1, <1>4

LEMMA ThreeSteps ==
  ASSUME NEW a, NEW b, NEW c, Follows(a.do, b.do), Follows(a.do, c.do), Follows(b.do, c.do),
         NEW r, r = <<a, b, c>>
  PROVE  IsQueue(r) /\ Kinds(r) = {a.do, b.do, c.do} /\ r # <<>> /\ Head(r) = a
<1> DEFINE q == <<b, c>>
<1>1. IsQueue(q) /\ Kinds(q) = {b.do, c.do}
  BY TwoSteps
<1>2. r = <<a>> \o q
  OBVIOUS
<1> HIDE DEF q
<1>3. IsQueue(r) /\ Kinds(r) = {a.do} \cup Kinds(q) /\ r # <<>> /\ Head(r) = a
  BY <1>1, <1>2, Put
<1>4. QED
  BY <1>1, <1>3

LEMMA FourSteps ==
  ASSUME NEW a, NEW b, NEW c, NEW d, Follows(a.do, b.do), Follows(a.do, c.do), Follows(a.do, d.do),
         Follows(b.do, c.do), Follows(b.do, d.do), Follows(c.do, d.do), NEW r, r = <<a, b, c, d>>
  PROVE  IsQueue(r) /\ Kinds(r) = {a.do, b.do, c.do, d.do} /\ r # <<>> /\ Head(r) = a
<1> DEFINE q == <<b, c, d>>
<1>1. IsQueue(q) /\ Kinds(q) = {b.do, c.do, d.do}
  BY ThreeSteps
<1>2. r = <<a>> \o q
  OBVIOUS
<1> HIDE DEF q
<1>3. IsQueue(r) /\ Kinds(r) = {a.do} \cup Kinds(q) /\ r # <<>> /\ Head(r) = a
  BY <1>1, <1>2, Put
<1>4. QED
  BY <1>1, <1>3

-----------------------------------------------------------------------------
(***************************************************************************)
(* How a step changes what is left                                         *)
(***************************************************************************)
LEMMA NextIsLeft ==
  ASSUME NEW q, IsQueue(q), q # <<>>
  PROVE  Head(q).do \in Kinds(q)
<1>1. Kinds(q) = {Head(q).do} \cup Kinds(Tail(q))
  BY Popped
<1>2. QED
  BY <1>1

LEMMA RestIs ==
  ASSUME IsQueue(todo), todo # <<>>
  PROVE  /\ Left = {Head(todo).do} \cup Kinds(Tail(todo))
         /\ \A k \in Kinds(Tail(todo)) : Follows(Head(todo).do, k)
BY Popped DEF Left

\* The step is done.
LEMMA DoneIs ==
  ASSUME Queue, todo # <<>>, Done
  PROVE  /\ IsQueue(todo') /\ Left = {Head(todo).do} \cup Left'
         /\ \A k \in Left' : Follows(Head(todo).do, k)
         /\ todo' # <<>> => Head(todo').do \in Left'
<1>1. IsQueue(todo)
  BY DEF Queue
<1>2. todo' = Tail(todo)
  BY DEF Done
<1>3. /\ IsQueue(todo') /\ Kinds(todo) = {Head(todo).do} \cup Kinds(todo')
      /\ \A k \in Kinds(todo') : Follows(Head(todo).do, k)
  BY <1>1, <1>2, Popped
<1>4. todo' # <<>> => Head(todo').do \in Kinds(todo')
  BY <1>3, NextIsLeft
<1>5. QED
  BY <1>3, <1>4 DEF Left

\* The step is followed by another one, or by two.
LEMMA ThenIs ==
  ASSUME Queue, todo # <<>>, NEW a, Then(<<a>>), \A k : Follows(Head(todo).do, k) => Follows(a.do, k)
  PROVE  /\ IsQueue(todo') /\ todo' # <<>> /\ Head(todo') = a
         /\ \E rest : /\ Left = {Head(todo).do} \cup rest /\ Left' = {a.do} \cup rest
                      /\ \A k \in rest : Follows(Head(todo).do, k)
<1> DEFINE r == Tail(todo)
<1>1. IsQueue(todo) /\ r = Tail(todo) /\ todo' = <<a>> \o r
  BY DEF Queue, Then
<1> HIDE DEF r
<1>2. /\ IsQueue(r) /\ Kinds(todo) = {Head(todo).do} \cup Kinds(r)
      /\ \A k \in Kinds(r) : Follows(Head(todo).do, k)
  BY <1>1, Popped
<1>3. \A k \in Kinds(r) : Follows(a.do, k)
  BY <1>2
<1>4. IsQueue(todo') /\ Kinds(todo') = {a.do} \cup Kinds(r) /\ todo' # <<>> /\ Head(todo') = a
  BY <1>1, <1>2, <1>3, Put
<1>5. QED
  BY <1>2, <1>4 DEF Left

LEMMA ThenTwiceIs ==
  ASSUME Queue, todo # <<>>, NEW a, Then(<<a, a>>), \A k : Follows(Head(todo).do, k) => Follows(a.do, k),
         Follows(a.do, a.do)
  PROVE  /\ IsQueue(todo') /\ todo' # <<>> /\ Head(todo') = a
         /\ \E rest : /\ Left = {Head(todo).do} \cup rest /\ Left' = {a.do} \cup rest
                      /\ \A k \in rest : Follows(Head(todo).do, k)
<1> DEFINE r == Tail(todo)  p == <<a, a>>
<1>1. IsQueue(todo) /\ r = Tail(todo) /\ p = <<a, a>> /\ todo' = p \o r
  BY DEF Queue, Then
<1> HIDE DEF r, p
<1>2. /\ IsQueue(r) /\ Kinds(todo) = {Head(todo).do} \cup Kinds(r)
      /\ \A k \in Kinds(r) : Follows(Head(todo).do, k)
  BY <1>1, Popped
<1>3. IsQueue(p) /\ Kinds(p) = {a.do} /\ p # <<>> /\ Head(p) = a
  <2>1. IsQueue(p) /\ Kinds(p) = {a.do, a.do} /\ p # <<>> /\ Head(p) = a
    BY <1>1, TwoSteps
  <2>2. QED
    BY <2>1
<1>4. \A k \in Kinds(p), l \in Kinds(r) : Follows(k, l)
  BY <1>2, <1>3
<1>5. IsQueue(todo') /\ Kinds(todo') = Kinds(p) \cup Kinds(r) /\ (p # <<>> => todo' # <<>> /\ Head(todo') = Head(p))
  BY <1>1, <1>2, <1>3, <1>4, Joined
<1>6. QED
  BY <1>2, <1>3, <1>5 DEF Left

\* No step is left; no call runs.
LEMMA DropIs ==
  ASSUME Drop
  PROVE  IsQueue(todo') /\ Left' = {} /\ todo' = <<>>
BY NoStep DEF Drop, Left

LEMMA QuietIs ==
  ASSUME todo = <<>>
  PROVE  Left = {} /\ \A what : ~AtStep(what)
BY NoStep DEF Left, AtStep

\* The settings and what is derived from them stay; the step owed no repair that
\* is not owed still.
Moved ==
  /\ UNCHANGED <<profile, legacy, modes, up, config, active, days, policy, bound, device, restart,
                 saved, chosen, failed, orphaned>>
  /\ "load" \in Left' <=> "load" \in Left
  /\ "first" \in Left' => "first" \in Left
  /\ Saving' <=> Saving
  /\ Selecting => Selecting'
  /\ "bind" \in Left => "bind" \in Left'
  /\ AtStep("rebind") => AtStep("rebind")'
  /\ AtStep("select") => AtStep("select")'

LEMMA MovedKeeps ==
  ASSUME SettingsInv, Moved, Queue', SaveIsSound'
  PROVE  SettingsInv'
<1>1. /\ UNCHANGED <<profile, legacy, modes, up, config, active, days, policy, bound, device, restart,
                     saved, chosen, failed, orphaned>>
      /\ "load" \in Left' <=> "load" \in Left
      /\ "first" \in Left' => "first" \in Left
      /\ Saving' <=> Saving
      /\ Selecting => Selecting'
      /\ "bind" \in Left => "bind" \in Left'
      /\ AtStep("rebind") => AtStep("rebind")'
      /\ AtStep("select") => AtStep("select")'
  BY DEF Moved
<1>2. Values' /\ (days = config.prefs.days)'
  BY <1>1 DEF SettingsInv, Values
<1>3. Survives'
  BY <1>1 DEF SettingsInv, Survives, SavedSurvives
<1>4. Known' = Known /\ (Starting' <=> Starting)
  BY <1>1 DEF Known, Starting
<1>5. FromFile'
  BY <1>1, <1>4 DEF SettingsInv, FromFile
<1>6. (OnDisk' <=> OnDisk) /\ (Derived' <=> Derived) /\ (Registered' <=> Registered) /\ (Serving' <=> Serving)
  BY <1>1, <1>4 DEF OnDisk, Derived, Registered, Serving, Specs
<1>7. Running'
  <2>1. Running
    BY DEF SettingsInv
  <2>2. QED
    BY <1>1, <1>4, <1>6, <2>1 DEF Running
<1>8. QED
  BY <1>2, <1>3, <1>5, <1>7 DEF SettingsInv

-----------------------------------------------------------------------------
(***************************************************************************)
(* The start of the process                                                *)
(***************************************************************************)
LEMMA LaunchKeeps ==
  ASSUME SettingsInv, NEW f \in Frontends, Launch(f)
  PROVE  SettingsInv'
<1> DEFINE q1 == <<Do("migrate"), Do("load")>>
           q2 == IF profile = Absent /\ NoLegacy THEN <<Do("first")>> ELSE <<>>
           q3 == IF f = "window" THEN <<Do("form"), Do("refresh")>> ELSE <<>>
           q4 == <<Do("bind")>>
           q12 == q1 \o q2
           q123 == q12 \o q3
<1>1. /\ up = "none" /\ up' = f /\ f # "none" /\ todo' = q123 \o q4
      /\ UNCHANGED <<profile, legacy, modes, config, active, days, policy, device>>
      /\ UNCHANGED <<saved, chosen, failed, orphaned>> /\ restart' = FALSE
  BY DEF Launch, history, Frontends
<1>2. IsQueue(q1) /\ Kinds(q1) = {"migrate", "load"} /\ q1 # <<>> /\ Head(q1) = Do("migrate")
  <2>1. Do("migrate").do = "migrate" /\ Do("load").do = "load" /\ Follows("migrate", "load")
    BY DEF Do, Follows
  <2> DEFINE a == Do("migrate")  b == Do("load")
  <2>2. Follows(a.do, b.do)
    BY <2>1
  <2>3. IsQueue(q1) /\ Kinds(q1) = {a.do, b.do} /\ q1 # <<>> /\ Head(q1) = a
    BY <2>2, TwoSteps
  <2>4. QED
    BY <2>1, <2>3
<1>3. IsQueue(q2) /\ Kinds(q2) \subseteq {"first"} /\ (Kinds(q2) # {} => profile = Absent)
  BY NoStep, OneStep DEF Do
<1>4. IsQueue(q3) /\ Kinds(q3) \subseteq {"form", "refresh"} /\ (Kinds(q3) # {} => f = "window")
  <2>1. CASE f = "window"
    <3> DEFINE a == Do("form")  b == Do("refresh")
    <3>1. Do("form").do = "form" /\ Do("refresh").do = "refresh" /\ Follows("form", "refresh")
      BY DEF Do, Follows
    <3>2. Follows(a.do, b.do) /\ q3 = <<a, b>>
      BY <2>1, <3>1
    <3>3. IsQueue(q3) /\ Kinds(q3) = {a.do, b.do}
      BY <3>2, TwoSteps
    <3>4. QED
      BY <2>1, <3>1, <3>3
  <2>2. CASE f # "window"
    BY <2>2, NoStep
  <2>3. QED
    BY <2>1, <2>2
<1>5. IsQueue(q4) /\ Kinds(q4) = {"bind"}
  BY OneStep DEF Do
<1> HIDE DEF q1, q2, q3, q4
<1>6. /\ IsQueue(q12) /\ Kinds(q12) = Kinds(q1) \cup Kinds(q2) /\ q12 # <<>> /\ Head(q12) = Do("migrate")
  <2>1. \A k \in Kinds(q1), l \in Kinds(q2) : Follows(k, l)
    BY <1>2, <1>3 DEF Follows
  <2>2. /\ IsQueue(q12) /\ Kinds(q12) = Kinds(q1) \cup Kinds(q2)
        /\ q1 # <<>> => q12 # <<>> /\ Head(q12) = Head(q1)
    BY <1>2, <1>3, <2>1, Joined
  <2>3. QED
    BY <1>2, <2>2
<1> HIDE DEF q12
<1>7. IsQueue(q123) /\ Kinds(q123) = Kinds(q12) \cup Kinds(q3) /\ q123 # <<>> /\ Head(q123) = Do("migrate")
  <2>1. \A k \in Kinds(q12), l \in Kinds(q3) : Follows(k, l)
    BY <1>2, <1>3, <1>4, <1>6 DEF Follows
  <2>2. /\ IsQueue(q123) /\ Kinds(q123) = Kinds(q12) \cup Kinds(q3)
        /\ q12 # <<>> => q123 # <<>> /\ Head(q123) = Head(q12)
    BY <1>4, <1>6, <2>1, Joined
  <2>3. QED
    BY <1>6, <2>2
<1> HIDE DEF q123
<1>8. IsQueue(todo') /\ Kinds(todo') = Kinds(q123) \cup Kinds(q4) /\ todo' # <<>> /\ Head(todo') = Do("migrate")
  <2>1. \A k \in Kinds(q123), l \in Kinds(q4) : Follows(k, l)
    BY <1>2, <1>3, <1>4, <1>5, <1>6, <1>7 DEF Follows
  <2>2. /\ IsQueue(todo') /\ Kinds(todo') = Kinds(q123) \cup Kinds(q4)
        /\ q123 # <<>> => todo' # <<>> /\ Head(todo') = Head(q123)
    BY <1>1, <1>5, <1>7, <2>1, Joined
  <2>3. QED
    BY <1>7, <2>2
<1>9. /\ Left' \subseteq {"migrate", "load", "first", "form", "refresh", "bind"}
      /\ "migrate" \in Left' /\ "load" \in Left' /\ "bind" \in Left'
      /\ "first" \in Left' => profile = Absent
      /\ "refresh" \in Left' => f = "window"
  BY <1>2, <1>3, <1>4, <1>5, <1>6, <1>7, <1>8 DEF Left
<1>10. Queue'
  BY <1>1, <1>8, <1>9 DEF Queue
<1>11. SaveIsSound'
  BY <1>8 DEF SaveIsSound, AtStep, Do
<1>12. Values' /\ (days = config.prefs.days)'
  BY <1>1 DEF SettingsInv, Values
<1>13. Survives'
  BY <1>1, <1>9 DEF SettingsInv, Survives, SavedSurvives
<1>14. FromFile'
  BY <1>1 DEF SettingsInv, FromFile, Starting, Known
<1>15. Running'
  BY <1>9 DEF Running, Starting
<1>16. QED
  BY <1>10, <1>11, <1>12, <1>13, <1>14, <1>15 DEF SettingsInv

LEMMA MigrateKeeps ==
  ASSUME SettingsInv, Migrate
  PROVE  SettingsInv'
<1>1. /\ todo # <<>> /\ Head(todo).do = "migrate"
      /\ UNCHANGED <<legacy, modes, up, config, active, days, policy, bound, device, restart>>
      /\ UNCHANGED <<saved, chosen, failed, orphaned>>
  BY DEF Migrate, AtStep, memory, history
<1>2. IsQueue(todo) /\ Queue /\ Head(todo).do \in Left /\ "load" \in Left /\ "bind" \in Left /\ up # "none"
  BY <1>1, NextIsLeft DEF SettingsInv, Queue, Left
<1>3. CASE Done /\ UNCHANGED profile
  <2>1. /\ IsQueue(todo') /\ Left = {"migrate"} \cup Left'
        /\ \A k \in Left' : Follows("migrate", k)
        /\ todo' # <<>> => Head(todo').do \in Left'
    BY <1>1, <1>2, <1>3, DoneIs
  <2>2. Left' \subseteq {"load", "first", "form", "refresh", "bind"}
    BY <2>1 DEF Follows
  <2>3. Queue'
    BY <1>1, <1>2, <2>1, <2>2 DEF Queue
  <2>4. SaveIsSound'
    BY <2>1, <2>2 DEF SaveIsSound, AtStep
  <2>5. Moved
    BY <1>1, <1>3, <2>1, <2>2 DEF Moved, Saving, Selecting, AtStep
  <2>6. QED
    BY <2>3, <2>4, <2>5, MovedKeeps
<1>4. CASE profile = Absent /\ TakeOver
  <2> DEFINE a == Do("mark")
  <2>1. Then(<<a>>) /\ a.do = "mark"
    BY <1>4 DEF TakeOver, Do
  <2>2. \A k : Follows(Head(todo).do, k) => Follows(a.do, k)
    BY <1>1, <2>1 DEF Follows
  <2> HIDE DEF a
  <2>3. /\ IsQueue(todo') /\ todo' # <<>> /\ Head(todo') = a
        /\ \E rest : /\ Left = {Head(todo).do} \cup rest /\ Left' = {a.do} \cup rest
                     /\ \A k \in rest : Follows(Head(todo).do, k)
    BY <1>1, <1>2, <2>1, <2>2, ThenIs
  <2>4. PICK rest : /\ Left = {"migrate"} \cup rest /\ Left' = {"mark"} \cup rest
                    /\ \A k \in rest : Follows("migrate", k)
    BY <1>1, <2>1, <2>3
  <2>5. rest \subseteq {"load", "first", "form", "refresh", "bind"}
    BY <2>4 DEF Follows
  <2>6. Queue'
    BY <1>1, <1>2, <2>3, <2>4, <2>5 DEF Queue
  <2>7. SaveIsSound'
    BY <2>1, <2>3 DEF SaveIsSound, AtStep
  <2>8. PICK i \in DOMAIN legacy : legacy[i] # Absent /\ profile' = Migrated(legacy[i])
    BY <1>4 DEF TakeOver
  <2>9. legacy[i].shortcut # "none"
    BY <2>8, FilesAssumption DEF SettingsInv, Values
  <2>10. Filed(profile') /\ profile' # Absent /\ Loaded(profile').mode = "raw" /\ Loaded(profile).mode = "raw"
    BY <1>4, <2>8, <2>9, MigratedIs, FreshIs DEF Loaded
  <2>11. Values' /\ (days = config.prefs.days)'
    BY <1>1, <2>10 DEF SettingsInv, Values
  <2>12. Survives'
    <3>1. saved = Absent
      BY <1>4 DEF SettingsInv, Survives, SavedSurvives
    <3>2. QED
      BY <1>1, <3>1 DEF Survives, SavedSurvives
  <2>13. FromFile'
    <3>1. chosen = "raw"
      BY <1>2, <2>10 DEF SettingsInv, FromFile, Starting
    <3>2. "raw" \in Known'
      BY <1>1 DEF SettingsInv, Values, Known, Modes, Builtin
    <3>3. QED
      BY <1>1, <2>10, <3>1, <3>2 DEF FromFile
  <2>14. Running'
    BY <1>2, <2>4, <2>5 DEF Running, Starting
  <2>15. QED
    BY <2>6, <2>7, <2>11, <2>12, <2>13, <2>14 DEF SettingsInv
<1>5. QED
  BY <1>3, <1>4 DEF Migrate

LEMMA MarkMigratedKeeps ==
  ASSUME SettingsInv, MarkMigrated
  PROVE  SettingsInv'
<1>1. /\ todo # <<>> /\ Head(todo).do = "mark" /\ Done
      /\ UNCHANGED <<profile, legacy, modes, up, config, active, days, policy, bound, device, restart>>
      /\ UNCHANGED <<saved, chosen, failed, orphaned>>
  BY DEF MarkMigrated, AtStep, memory, history
<1>2. Queue
  BY DEF SettingsInv
<1>3. /\ IsQueue(todo') /\ Left = {"mark"} \cup Left'
      /\ \A k \in Left' : Follows("mark", k)
      /\ todo' # <<>> => Head(todo').do \in Left'
  BY <1>1, <1>2, DoneIs
<1>4. Left' \subseteq {"load", "first", "form", "refresh", "bind"}
  BY <1>3 DEF Follows
<1>5. Queue'
  BY <1>1, <1>2, <1>3, <1>4 DEF Queue
<1>6. SaveIsSound'
  BY <1>3, <1>4 DEF SaveIsSound, AtStep
<1>7. Moved
  BY <1>1, <1>3, <1>4 DEF Moved, Saving, Selecting, AtStep
<1>8. QED
  BY <1>5, <1>6, <1>7, MovedKeeps

LEMMA LoadKeeps ==
  ASSUME SettingsInv, Load
  PROVE  SettingsInv'
<1>1. /\ todo # <<>> /\ Head(todo).do = "load"
      /\ UNCHANGED <<profile, legacy, modes, bound, restart, saved, chosen, orphaned>>
  BY DEF Load, AtStep
<1>2. IsQueue(todo) /\ Queue /\ Head(todo).do \in Left /\ "load" \in Left /\ "bind" \in Left /\ up # "none"
  BY <1>1, NextIsLeft DEF SettingsInv, Queue, Left
<1>3. Good(Loaded(profile)) /\ Written(Loaded(profile)) = Loaded(profile)
  BY LoadedIs DEF SettingsInv, Values
<1> DEFINE cfg == Loaded(profile)
<1>4. CASE /\ config' = cfg /\ active' = cfg.mode /\ device' = cfg.prefs.device
           /\ days' = cfg.prefs.days /\ policy' = cfg.prefs.days
           /\ failed' = FALSE /\ Done /\ UNCHANGED up
  <2> HIDE DEF cfg
  <2>1. /\ IsQueue(todo') /\ Left = {"load"} \cup Left'
        /\ \A k \in Left' : Follows("load", k)
        /\ todo' # <<>> => Head(todo').do \in Left'
    BY <1>1, <1>2, <1>4, DoneIs
  <2>2. Left' \subseteq {"first", "form", "refresh", "bind"}
    BY <2>1 DEF Follows
  <2>3. Queue'
    BY <1>1, <1>2, <1>4, <2>1, <2>2 DEF Queue
  <2>4. SaveIsSound'
    BY <2>1, <2>2 DEF SaveIsSound, AtStep
  <2>5. Values' /\ (days = config.prefs.days)'
    BY <1>1, <1>3, <1>4 DEF SettingsInv, Values, cfg
  <2>6. Survives'
    BY <1>1, <2>1 DEF SettingsInv, Survives, SavedSurvives
  <2>7. ~Starting' /\ ~Saving' /\ "bind" \in Left'
    BY <1>2, <1>4, <2>1, <2>2 DEF Starting, Saving
  <2>8. FromFile'
    BY <2>7 DEF FromFile
  <2>9. OnDisk'
    BY <1>1, <1>3, <1>4 DEF OnDisk, cfg
  <2>10. Derived'
    BY <1>4 DEF Derived
  <2>11. chosen = cfg.mode /\ (~orphaned => cfg.mode \in Known)
    BY <1>2 DEF SettingsInv, FromFile, Starting, cfg
  <2>12. Running'
    BY <1>1, <1>4, <2>7, <2>9, <2>10, <2>11 DEF Running, Known
  <2>13. QED
    BY <2>3, <2>4, <2>5, <2>6, <2>8, <2>12 DEF SettingsInv
<1>5. CASE /\ up' = "none" /\ Drop
           /\ UNCHANGED <<config, active, device, days, policy, failed>>
  <2>1. IsQueue(todo') /\ Left' = {} /\ todo' = <<>>
    BY <1>5, DropIs
  <2>2. Queue' /\ SaveIsSound'
    BY <1>5, <2>1 DEF Queue, SaveIsSound, AtStep
  <2>3. Values' /\ (days = config.prefs.days)' /\ Survives'
    BY <1>1, <1>5, <2>1 DEF SettingsInv, Values, Survives, SavedSurvives
  <2>4. FromFile'
    BY <1>1, <1>2 DEF SettingsInv, FromFile, Starting, Known
  <2>5. Running'
    BY <1>5 DEF Running, Starting
  <2>6. QED
    BY <2>2, <2>3, <2>4, <2>5 DEF SettingsInv
<1>6. QED
  BY <1>4, <1>5 DEF Load

\* The first profile is stored only where none was found, so that nothing a call
\* wrote or the user edited is lost.
LEMMA FirstProfileKeeps ==
  ASSUME SettingsInv, FirstProfile
  PROVE  SettingsInv'
<1>1. /\ todo # <<>> /\ Head(todo).do = "first" /\ Done /\ profile' = Written(config)
      /\ UNCHANGED <<legacy, modes, up, config, active, days, policy, bound, device, restart>>
      /\ UNCHANGED <<saved, chosen, failed, orphaned>>
  BY DEF FirstProfile, AtStep, memory, history
<1>2. Queue /\ Running /\ Good(config) /\ up # "none"
  BY <1>1 DEF SettingsInv, Queue, Values
<1>3. /\ IsQueue(todo') /\ Left = {"first"} \cup Left'
      /\ \A k \in Left' : Follows("first", k)
      /\ todo' # <<>> => Head(todo').do \in Left'
  BY <1>1, <1>2, DoneIs
<1>4. Left' \subseteq {"form", "refresh", "bind"}
  BY <1>3 DEF Follows
<1>5. Queue'
  BY <1>1, <1>2, <1>3, <1>4 DEF Queue
<1>6. SaveIsSound'
  BY <1>3, <1>4 DEF SaveIsSound, AtStep
<1>7. Filed(profile') /\ Loaded(profile') = Written(config)
  BY <1>1, <1>2, WrittenIs, WrittenLoads
<1>8. Values' /\ (days = config.prefs.days)'
  BY <1>1, <1>7 DEF SettingsInv, Values
<1>9. Survives'
  BY <1>1, <1>3 DEF SettingsInv, Survives, SavedSurvives
<1>10. ~Starting /\ ~Starting' /\ ~Saving /\ ~Saving' /\ ~Selecting /\ ~Selecting'
  BY <1>1, <1>2, <1>3, <1>4 DEF Starting, Saving, Selecting
<1>11. FromFile'
  BY <1>10 DEF FromFile
<1>12. OnDisk'
  BY <1>1, <1>7 DEF OnDisk
<1>13. Known' = Known /\ (Derived' <=> Derived) /\ (Registered' <=> Registered) /\ (Serving' <=> Serving)
  BY <1>1 DEF Known, Derived, Registered, Serving, Specs
<1>14. ~AtStep("rebind") /\ ~AtStep("select")
  BY <1>1 DEF AtStep
<1>15. Running'
  BY <1>1, <1>2, <1>3, <1>10, <1>12, <1>13, <1>14 DEF Running
<1>16. QED
  BY <1>5, <1>6, <1>8, <1>9, <1>11, <1>15 DEF SettingsInv

\* A step behind which nothing is mended.
LEMMA LastKeeps ==
  ASSUME SettingsInv, todo # <<>>, Head(todo).do \in {"form", "keep", "start"}, Done,
         UNCHANGED <<profile, legacy, modes, up, config, active, days, policy, bound, device, restart,
                     saved, chosen, failed, orphaned>>
  PROVE  SettingsInv'
<1>1. Queue /\ up # "none"
  BY DEF SettingsInv, Queue
<1>2. /\ IsQueue(todo') /\ Left = {Head(todo).do} \cup Left'
      /\ \A k \in Left' : Follows(Head(todo).do, k)
      /\ todo' # <<>> => Head(todo').do \in Left'
  BY <1>1, DoneIs
<1>3. Left' \subseteq {"refresh", "bind"}
  BY <1>2 DEF Follows
<1>4. Queue'
  BY <1>1, <1>2, <1>3 DEF Queue
<1>5. SaveIsSound'
  BY <1>2, <1>3 DEF SaveIsSound, AtStep
<1>6. Moved
  BY <1>2, <1>3 DEF Moved, Saving, Selecting, AtStep
<1>7. QED
  BY <1>4, <1>5, <1>6, MovedKeeps

LEMMA OpenFormKeeps ==
  ASSUME SettingsInv, OpenForm
  PROVE  SettingsInv'
<1>1. /\ todo # <<>> /\ Head(todo).do = "form" /\ Done
      /\ UNCHANGED <<profile, legacy, modes, up, config, active, days, policy, bound, device, restart,
                     saved, chosen, failed, orphaned>>
  BY DEF OpenForm, AtStep, memory, history
<1>2. QED
  BY <1>1, LastKeeps

LEMMA KeepFormKeeps ==
  ASSUME SettingsInv, KeepForm
  PROVE  SettingsInv'
<1>1. /\ todo # <<>> /\ Head(todo).do = "keep" /\ Done
      /\ UNCHANGED <<profile, legacy, modes, up, config, active, days, policy, bound, device, restart,
                     saved, chosen, failed, orphaned>>
  BY DEF KeepForm, AtStep, memory, history
<1>2. QED
  BY <1>1, LastKeeps

LEMMA StartByShortcutKeeps ==
  ASSUME SettingsInv, StartByShortcut
  PROVE  SettingsInv'
<1>1. /\ todo # <<>> /\ Head(todo).do = "start" /\ Done
      /\ UNCHANGED <<profile, legacy, modes, up, config, active, days, policy, bound, device, restart,
                     saved, chosen, failed, orphaned>>
  BY DEF StartByShortcut, AtStep, memory, history
<1>2. QED
  BY <1>1, LastKeeps

\* What is registered for the settings of the runtime.
LEMMA SpecsAre ==
  ASSUME Good(config)
  PROVE  /\ Specs(config.prefs) # Unbound /\ Specs(config.prefs).dictation = config.prefs.shortcut
         /\ Specs(config.prefs).modes \cap Known = Specs(config.prefs).modes
<1>1. config.prefs.shortcut # "none"
  BY DEF Good, IsPreferences
<1>2. Specs(config.prefs).dictation = config.prefs.shortcut /\ Specs(config.prefs).modes \subseteq Known
  BY DEF Specs
<1>3. Unbound.dictation = "none"
  BY DEF Unbound
<1>4. QED
  BY <1>1, <1>2, <1>3

\* The shortcuts are registered, at the start and when a mode changes.
LEMMA RegisterKeeps ==
  ASSUME SettingsInv, todo # <<>>, Head(todo).do \in {"bind", "rebind"}, Done, bound' = Specs(config.prefs),
         UNCHANGED <<profile, legacy, modes, up, config, active, days, policy, device, restart,
                     saved, chosen, failed, orphaned>>
  PROVE  SettingsInv'
<1>1. Queue /\ Running /\ Good(config) /\ up # "none"
  BY DEF SettingsInv, Queue, Values
<1>2. /\ IsQueue(todo') /\ Left = {Head(todo).do} \cup Left'
      /\ \A k \in Left' : Follows(Head(todo).do, k)
      /\ todo' # <<>> => Head(todo').do \in Left'
  BY <1>1, DoneIs
<1>3. Left' \subseteq {"refresh", "edited"}
  BY <1>2 DEF Follows
<1>4. Queue'
  BY <1>1, <1>2, <1>3 DEF Queue
<1>5. SaveIsSound'
  BY <1>2, <1>3 DEF SaveIsSound, AtStep
<1>6. Values' /\ (days = config.prefs.days)'
  BY DEF SettingsInv, Values
<1>7. Survives'
  BY <1>3 DEF SettingsInv, Survives, SavedSurvives
<1>8. ~Starting /\ ~Starting' /\ ~Saving /\ ~Saving' /\ ~Selecting /\ ~Selecting'
  BY <1>1, <1>2, <1>3 DEF Starting, Saving, Selecting
<1>9. FromFile'
  BY <1>8 DEF FromFile
<1>10. Known' = Known /\ (Derived' <=> Derived) /\ (OnDisk' <=> OnDisk)
  BY DEF Known, Derived, OnDisk
<1>11. Serving' /\ Registered'
  BY <1>1, <1>10, SpecsAre DEF Serving, Registered, Specs
<1>12. ~AtStep("select")
  BY DEF AtStep
<1>13. Running'
  BY <1>1, <1>8, <1>10, <1>11, <1>12 DEF Running
<1>14. QED
  BY <1>4, <1>5, <1>6, <1>7, <1>9, <1>13 DEF SettingsInv

LEMMA StartShortcutKeeps ==
  ASSUME SettingsInv, StartShortcut
  PROVE  SettingsInv'
<1>1. /\ todo # <<>> /\ Head(todo).do = "bind" /\ Done /\ bound' = Specs(config.prefs)
      /\ UNCHANGED <<profile, legacy, modes, up, config, active, days, policy, device, restart,
                     saved, chosen, failed, orphaned>>
  BY DEF StartShortcut, AtStep, history
<1>2. QED
  BY <1>1, RegisterKeeps

LEMMA RebindKeeps ==
  ASSUME SettingsInv, Rebind
  PROVE  SettingsInv'
<1>1. /\ todo # <<>> /\ Head(todo).do = "rebind" /\ Done /\ bound' = Rebound
      /\ UNCHANGED <<profile, legacy, modes, up, config, active, days, policy, device, restart,
                     saved, chosen, failed, orphaned>>
  BY DEF Rebind, AtStep, history
<1>2. Queue /\ Running /\ up # "none"
  BY <1>1 DEF SettingsInv, Queue
<1>3. Left = {"rebind"} \cup Left' /\ \A k \in Left' : Follows("rebind", k)
  BY <1>1, <1>2, DoneIs
<1>4. "bind" \notin Left /\ ~Starting
  BY <1>2, <1>3 DEF Follows, Starting
<1>5. bound' = Specs(config.prefs)
  BY <1>1, <1>2, <1>4 DEF Running, Rebound
<1>6. QED
  BY <1>1, <1>5, RegisterKeeps

-----------------------------------------------------------------------------
(***************************************************************************)
(* save_settings                                                           *)
(***************************************************************************)

\* The write: the file first, then memory.
LEMMA WriteKeeps ==
  ASSUME SettingsInv, Write
  PROVE  SettingsInv'
<1> DEFINE cfg == Head(todo).cfg
<1>1. /\ todo # <<>> /\ Head(todo).do = "save" /\ AtStep("save")
      /\ UNCHANGED <<legacy, modes, up, device, active, policy, bound, restart, failed, orphaned>>
  BY DEF Write, AtStep
<1>2. IsQueue(todo) /\ Queue /\ Running /\ "save" \in Left /\ "apply" \in Left /\ up # "none"
  BY <1>1, NextIsLeft DEF SettingsInv, Queue, Left
<1>3. CASE /\ profile' = Written(cfg) /\ saved' = profile'
           /\ config' = cfg /\ days' = cfg.prefs.days
           /\ chosen' = IF Head(todo).picked THEN cfg.mode ELSE chosen
           /\ Done
  <2>1. /\ IsQueue(todo') /\ Left = {"save"} \cup Left'
        /\ \A k \in Left' : Follows("save", k)
        /\ todo' # <<>> => Head(todo').do \in Left'
    BY <1>1, <1>2, <1>3, DoneIs
  <2>2. Left' \subseteq {"prune", "apply", "keep"} /\ "apply" \in Left'
    BY <1>2, <2>1 DEF Follows
  <2>3. Queue'
    BY <1>1, <1>2, <2>1, <2>2 DEF Queue
  <2>4. SaveIsSound'
    BY <2>1, <2>2 DEF SaveIsSound, AtStep
  <2>5. /\ Good(cfg) /\ cfg.mode \in Known
        /\ up = "engine" /\ ~Head(todo).picked => cfg.mode = config.mode
    BY <1>1 DEF SettingsInv, SaveIsSound
  <2> HIDE DEF cfg
  <2>6. Filed(profile') /\ Loaded(profile') = Written(config')
    BY <1>3, <2>5, WrittenIs, WrittenLoads
  <2>7. Values' /\ (days = config.prefs.days)'
    BY <1>1, <1>3, <2>5, <2>6 DEF SettingsInv, Values
  <2>8. Survives'
    BY <1>3, <2>2 DEF Survives, SavedSurvives
  <2>9. ~Starting /\ ~Starting' /\ Saving' /\ "bind" \notin Left
    BY <1>1, <1>2, <2>1, <2>2 DEF Starting, Saving
  <2>10. FromFile'
    BY <2>9 DEF FromFile
  <2>11. OnDisk'
    BY <2>6 DEF OnDisk
  <2>12. Known' = Known /\ (Serving' <=> Serving)
    BY <1>1 DEF Known, Serving
  <2>13. ~AtStep("select")
    BY <1>1 DEF AtStep
  <2>14. up = "engine" => chosen' = config'.mode
    BY <1>2, <1>3, <2>5, <2>9 DEF Running
  <2>15. Running'
    BY <1>1, <1>2, <1>3, <2>5, <2>9, <2>11, <2>12, <2>13, <2>14 DEF Running
  <2>16. QED
    BY <2>3, <2>4, <2>7, <2>8, <2>10, <2>15 DEF SettingsInv
<1>4. CASE Drop /\ UNCHANGED <<profile, saved, config, days, chosen>>
  <2>1. IsQueue(todo') /\ Left' = {} /\ todo' = <<>>
    BY <1>4, DropIs
  <2>2. Left = {"save"} \cup Kinds(Tail(todo)) /\ \A k \in Kinds(Tail(todo)) : Follows("save", k)
    BY <1>1, <1>2, RestIs
  <2>3. Left \subseteq {"save", "prune", "apply", "keep"}
    BY <2>2 DEF Follows
  <2>4. Queue' /\ SaveIsSound'
    BY <1>1, <2>1 DEF Queue, SaveIsSound, AtStep
  <2>5. Moved
    BY <1>1, <1>2, <1>4, <2>1, <2>3 DEF Moved, Saving, Selecting, AtStep
  <2>6. QED
    BY <2>4, <2>5, MovedKeeps
<1>5. QED
  BY <1>3, <1>4 DEF Write

\* history.prune: an error leaves what follows from the settings as it was.
LEMMA PruneKeeps ==
  ASSUME SettingsInv, Prune
  PROVE  SettingsInv'
<1>1. /\ todo # <<>> /\ Head(todo).do = "prune"
      /\ UNCHANGED <<profile, legacy, modes, up, config, active, days, policy, bound, device, restart,
                     saved, chosen, orphaned>>
  BY DEF Prune, AtStep, memory
<1>2. IsQueue(todo) /\ Queue /\ Running /\ up # "none"
  BY <1>1 DEF SettingsInv, Queue
<1>3. CASE Done /\ UNCHANGED failed
  <2>1. /\ IsQueue(todo') /\ Left = {"prune"} \cup Left'
        /\ \A k \in Left' : Follows("prune", k)
        /\ todo' # <<>> => Head(todo').do \in Left'
    BY <1>1, <1>2, <1>3, DoneIs
  <2>2. Left' \subseteq {"apply", "keep"}
    BY <2>1 DEF Follows
  <2>3. Queue'
    BY <1>1, <1>2, <2>1, <2>2 DEF Queue
  <2>4. SaveIsSound'
    BY <2>1, <2>2 DEF SaveIsSound, AtStep
  <2>5. Moved
    BY <1>1, <1>3, <2>1, <2>2 DEF Moved, Saving, Selecting, AtStep
  <2>6. QED
    BY <2>3, <2>4, <2>5, MovedKeeps
<1>4. CASE Drop /\ failed' = TRUE
  <2>1. IsQueue(todo') /\ Left' = {} /\ todo' = <<>>
    BY <1>4, DropIs
  <2>2. Left = {"prune"} \cup Kinds(Tail(todo)) /\ \A k \in Kinds(Tail(todo)) : Follows("prune", k)
    BY <1>1, <1>2, RestIs
  <2>3. Left \subseteq {"prune", "apply", "keep"}
    BY <2>2 DEF Follows
  <2>4. Queue' /\ SaveIsSound'
    BY <1>1, <2>1 DEF Queue, SaveIsSound, AtStep
  <2>5. Values' /\ (days = config.prefs.days)' /\ Survives'
    BY <1>1, <1>4, <2>1 DEF SettingsInv, Values, Survives, SavedSurvives
  <2>6. ~Starting /\ ~Starting' /\ ~Saving' /\ ~AtStep("select")
    BY <1>1, <1>2, <2>1, <2>3 DEF Starting, Saving, AtStep
  <2>7. FromFile'
    BY <2>6 DEF FromFile
  <2>8. Known' = Known /\ (Serving' <=> Serving) /\ Serving
    BY <1>1, <1>2, <2>3, <2>6 DEF Known, Serving, Running
  <2>9. Running'
    BY <1>1, <1>2, <1>4, <2>6, <2>8 DEF Running
  <2>10. QED
    BY <2>4, <2>5, <2>7, <2>9 DEF SettingsInv
<1>5. QED
  BY <1>3, <1>4 DEF Prune

\* Everything that follows from the settings is set, so that nothing that failed
\* before still shows.
LEMMA ApplyKeeps ==
  ASSUME SettingsInv, Apply
  PROVE  SettingsInv'
<1>1. /\ todo # <<>> /\ Head(todo).do = "apply" /\ Done
      /\ policy' = config.prefs.days /\ active' = config.mode /\ bound' = Rebound
      /\ restart' = (restart \/ config.prefs.device # device)
      /\ failed' = FALSE
      /\ orphaned' = (orphaned /\ config.mode \notin Known)
      /\ UNCHANGED <<profile, legacy, modes, up, device, config, days, saved, chosen>>
  BY DEF Apply, AtStep
<1>2. Queue /\ Running /\ Good(config) /\ up # "none"
  BY <1>1 DEF SettingsInv, Queue, Values
<1>3. /\ IsQueue(todo') /\ Left = {"apply"} \cup Left'
      /\ \A k \in Left' : Follows("apply", k)
      /\ todo' # <<>> => Head(todo').do \in Left'
  BY <1>1, <1>2, DoneIs
<1>4. Left' \subseteq {"keep"}
  BY <1>3 DEF Follows
<1>5. Queue'
  BY <1>1, <1>2, <1>3, <1>4 DEF Queue
<1>6. SaveIsSound'
  BY <1>3, <1>4 DEF SaveIsSound, AtStep
<1>7. Values' /\ (days = config.prefs.days)'
  BY <1>1 DEF SettingsInv, Values
<1>8. Survives'
  BY <1>1, <1>4 DEF SettingsInv, Survives, SavedSurvives
<1>9. ~Starting /\ ~Starting' /\ Saving /\ ~Saving' /\ ~Selecting' /\ "bind" \notin Left
  BY <1>1, <1>2, <1>3, <1>4 DEF Starting, Saving, Selecting
<1>10. FromFile'
  BY <1>9 DEF FromFile
<1>11. OnDisk /\ config.mode \in Known /\ Serving
  BY <1>2, <1>9 DEF Running
<1>12. OnDisk' /\ Known' = Known /\ Specs(config.prefs)' = Specs(config.prefs)
  BY <1>1, <1>11 DEF OnDisk, Known, Specs
<1>13. Serving' /\ Registered'
  BY <1>1, <1>2, <1>11, <1>12, SpecsAre DEF Serving, Registered, Rebound
<1>14. Derived'
  <2>1. restart' = TRUE \/ ~(config.prefs.device # device)
    BY <1>1
  <2>2. QED
    BY <1>1, <2>1 DEF Derived
<1>15. up' = "engine" => chosen' = config'.mode
  BY <1>1, <1>2, <1>9 DEF Running
<1>16. active' \in Known'
  BY <1>1, <1>11, <1>12
<1>17. Running'
  BY <1>1, <1>9, <1>12, <1>13, <1>14, <1>15, <1>16 DEF Running
<1>18. QED
  BY <1>5, <1>6, <1>7, <1>8, <1>10, <1>17 DEF SettingsInv

-----------------------------------------------------------------------------
(***************************************************************************)
(* select_mode                                                             *)
(***************************************************************************)
LEMMA SelectKeeps ==
  ASSUME SettingsInv, Select
  PROVE  SettingsInv'
<1> DEFINE h == Head(todo).do
           m == Head(todo).mode
<1>1. /\ todo # <<>> /\ h \in {"select", "pick", "show"} /\ (AtStep("show") <=> h = "show")
      /\ UNCHANGED <<profile, legacy, modes, up, device, days, policy, bound, restart, saved, failed>>
  BY DEF Select, AtStep
<1>2. IsQueue(todo) /\ Queue /\ Running /\ up # "none" /\ h \in Left
  BY <1>1, NextIsLeft DEF SettingsInv, Queue, Left
<1>3. CASE /\ Selectable(m) /\ active' = m /\ config' = [config EXCEPT !.mode = m]
           /\ Then(<<Do(IF Ignored THEN "store" ELSE "file")>>)
           /\ chosen' = IF AtStep("show") THEN chosen ELSE m
           /\ orphaned' = FALSE
  <2> DEFINE a == Do(IF Ignored THEN "store" ELSE "file")
  <2>1. Then(<<a>>) /\ a.do = IF h = "select" THEN "file" ELSE "store"
    BY <1>3 DEF Do, Ignored
  <2>2. \A k : Follows(h, k) => Follows(a.do, k)
    BY <1>1, <2>1 DEF Follows
  <2> HIDE DEF a
  <2>3. /\ IsQueue(todo') /\ todo' # <<>> /\ Head(todo') = a
        /\ \E rest : /\ Left = {h} \cup rest /\ Left' = {a.do} \cup rest
                     /\ \A k \in rest : Follows(h, k)
    BY <1>1, <1>2, <2>1, <2>2, ThenIs
  <2>4. PICK rest : /\ Left = {h} \cup rest /\ Left' = {a.do} \cup rest
                    /\ \A k \in rest : Follows(h, k)
    BY <2>3
  <2>5. /\ h = "select" => rest \subseteq {"start", "rebind", "refresh"}
        /\ h = "pick" => rest = {}
        /\ h = "show" => rest \subseteq {"show", "bind", "edited"}
    BY <1>1, <2>4 DEF Follows
  <2>6. Queue'
    BY <1>1, <1>2, <2>1, <2>3, <2>4, <2>5 DEF Queue
  <2>7. SaveIsSound'
    BY <2>1, <2>3 DEF SaveIsSound, AtStep
  <2>8. Good(config') /\ config'.mode = m /\ config'.prefs = config.prefs
    BY <1>3, ModeIs DEF SettingsInv, Values
  <2>9. Values' /\ (days = config.prefs.days)'
    BY <1>1, <1>3, <2>8 DEF SettingsInv, Values
  <2>10. Survives'
    BY <1>1, <2>1, <2>4, <2>5 DEF SettingsInv, Survives, SavedSurvives
  <2>11. /\ ~Starting /\ ~Starting' /\ ~Saving /\ ~Saving' /\ Selecting'
         /\ ("bind" \in Left' <=> "bind" \in Left)
    BY <1>1, <1>2, <2>1, <2>4, <2>5 DEF Starting, Saving, Selecting
  <2>12. FromFile'
    BY <2>11 DEF FromFile
  <2>13. Known' = Known /\ (Serving' <=> Serving) /\ (Registered' <=> Registered)
    BY <1>1, <2>8 DEF Known, Serving, Registered, Specs
  <2>14. ~failed /\ ~Saving => Derived'
    BY <1>1, <1>2, <1>3, <2>8, <2>11 DEF Derived, Running
  <2>15. ~AtStep("rebind") /\ m \in Known
    BY <1>1, <1>3 DEF AtStep, Selectable
  <2>16. up = "engine" => chosen' = config'.mode
    BY <1>1, <1>2, <1>3, <2>8 DEF Queue
  <2>17. active' \in Known'
    BY <1>3, <2>13, <2>15
  <2>18. Running'
    BY <1>1, <1>2, <2>11, <2>13, <2>14, <2>15, <2>16, <2>17 DEF Running
  <2>19. QED
    BY <2>6, <2>7, <2>9, <2>10, <2>12, <2>18 DEF SettingsInv
<1>4. CASE /\ IF Ignored THEN Done ELSE Drop
           /\ orphaned' = (orphaned \/ active \notin Known)
           /\ UNCHANGED <<active, config, chosen>>
  <2>1. Left = {h} \cup Kinds(Tail(todo)) /\ \A k \in Kinds(Tail(todo)) : Follows(h, k)
    BY <1>1, <1>2, RestIs
  <2>2. /\ h = "select" => Left \subseteq {"select", "start", "rebind", "refresh"}
        /\ h = "pick" => Left = {"pick"}
        /\ h = "show" => Left \subseteq {"show", "bind", "edited"}
    BY <1>1, <2>1 DEF Follows
  <2>3. /\ IsQueue(todo') /\ Left' \subseteq Left /\ (h # "select" => Left = {h} \cup Left')
        /\ todo' # <<>> => h # "select" /\ Head(todo').do \in Left'
    <3>1. CASE h = "select"
      <4>1. Drop
        BY <1>4, <3>1 DEF Ignored
      <4>2. IsQueue(todo') /\ Left' = {} /\ todo' = <<>>
        BY <4>1, DropIs
      <4>3. QED
        BY <3>1, <4>2
    <3>2. CASE h # "select"
      <4>1. Done
        BY <1>4, <3>2 DEF Ignored
      <4>2. /\ IsQueue(todo') /\ Left = {h} \cup Left'
            /\ todo' # <<>> => Head(todo').do \in Left'
        BY <1>1, <1>2, <4>1, DoneIs
      <4>3. QED
        BY <3>2, <4>2
    <3>3. QED
      BY <3>1, <3>2
  <2>4. Queue'
    BY <1>1, <1>2, <2>2, <2>3 DEF Queue
  <2>5. ~AtStep("rebind") /\ ~AtStep("rebind")' /\ ~AtStep("save")' /\ ~AtStep("select")'
    BY <1>1, <2>2, <2>3 DEF AtStep
  <2>6. SaveIsSound'
    BY <2>5 DEF SaveIsSound
  <2>7. Values' /\ (days = config.prefs.days)'
    BY <1>1, <1>4 DEF SettingsInv, Values
  <2>8. Survives'
    BY <1>1, <2>2, <2>3 DEF SettingsInv, Survives, SavedSurvives
  <2>9. /\ ~Starting /\ ~Starting' /\ ~Saving /\ ~Saving' /\ ~Selecting /\ ~Selecting'
        /\ ("bind" \in Left' <=> "bind" \in Left)
    BY <1>1, <1>2, <2>2, <2>3 DEF Starting, Saving, Selecting
  <2>10. FromFile'
    BY <2>9 DEF FromFile
  <2>11. /\ Known' = Known /\ (Serving' <=> Serving) /\ (Registered' <=> Registered)
         /\ (OnDisk' <=> OnDisk) /\ (Derived' <=> Derived)
    BY <1>1, <1>4 DEF Known, Serving, Registered, Specs, OnDisk, Derived
  <2>12. ~orphaned' => active' \in Known'
    BY <1>4, <2>11
  <2>13. Running'
    BY <1>1, <1>2, <1>4, <2>5, <2>9, <2>11, <2>12 DEF Running
  <2>14. QED
    BY <2>4, <2>6, <2>7, <2>8, <2>10, <2>13 DEF SettingsInv
<1>5. QED
  BY <1>3, <1>4 DEF Select

\* The mode goes to the file after memory has it.
LEMMA StoreModeKeeps ==
  ASSUME SettingsInv, StoreMode
  PROVE  SettingsInv'
<1> DEFINE h == Head(todo).do
<1>1. /\ todo # <<>> /\ h \in {"file", "store"}
      /\ UNCHANGED <<legacy, modes, up, config, active, days, policy, bound, device, restart, chosen, orphaned>>
  BY DEF StoreMode, AtStep, memory
<1>2. IsQueue(todo) /\ Queue /\ Running /\ up # "none" /\ h \in Left /\ Good(config)
  BY <1>1, NextIsLeft DEF SettingsInv, Queue, Left, Values
<1>3. /\ IsQueue(todo') /\ Left' \subseteq Left /\ (h # "file" => Left = {h} \cup Left')
      /\ todo' # <<>> => Head(todo').do \in Kinds(Tail(todo))
  <2>1. CASE Done
    <3>1. /\ IsQueue(todo') /\ Left = {h} \cup Left'
          /\ todo' # <<>> => Head(todo').do \in Left'
      BY <1>1, <1>2, <2>1, DoneIs
    <3>2. Left' = Kinds(Tail(todo))
      BY <2>1 DEF Done, Left
    <3>3. QED
      BY <3>1, <3>2
  <2>2. CASE Drop /\ h = "file"
    <3>1. IsQueue(todo') /\ Left' = {} /\ todo' = <<>>
      BY <2>2, DropIs
    <3>2. QED
      BY <2>2, <3>1
  <2>3. QED
    BY <1>1, <2>1, <2>2 DEF StoreMode, AtStep
<1>4. Left = {h} \cup Kinds(Tail(todo)) /\ \A k \in Kinds(Tail(todo)) : Follows(h, k)
  BY <1>1, <1>2, RestIs
<1>5. /\ h = "file" => Kinds(Tail(todo)) \subseteq {"start", "rebind", "refresh"}
      /\ h = "store" => Kinds(Tail(todo)) \subseteq {"show", "bind", "edited"}
  BY <1>1, <1>4 DEF Follows
<1>6. Queue'
  BY <1>1, <1>2, <1>3, <1>4, <1>5 DEF Queue
<1>7. ~AtStep("rebind") /\ ~AtStep("select") /\ ~AtStep("save")' /\ ~AtStep("select")'
  BY <1>1, <1>3, <1>5 DEF AtStep
<1>8. SaveIsSound'
  BY <1>7 DEF SaveIsSound
<1>9. /\ ~Starting /\ ~Starting' /\ ~Saving /\ ~Saving'
      /\ ("bind" \in Left' <=> "bind" \in Left) /\ "first" \notin Left'
  BY <1>1, <1>2, <1>3, <1>4, <1>5 DEF Starting, Saving
<1>10. FromFile'
  BY <1>9 DEF FromFile
<1>11. /\ Known' = Known /\ (Serving' <=> Serving) /\ (Registered' <=> Registered) /\ (Derived' <=> Derived)
  BY <1>1 DEF Known, Serving, Registered, Specs, Derived
<1>12. CASE profile' = Written(config) /\ saved' = profile' /\ UNCHANGED failed
  <2>1. Filed(profile') /\ Loaded(profile') = Written(config)
    BY <1>2, <1>12, WrittenIs, WrittenLoads
  <2>2. Values' /\ (days = config.prefs.days)' /\ Survives'
    BY <1>1, <1>9, <1>12, <2>1 DEF SettingsInv, Values, Survives, SavedSurvives
  <2>3. OnDisk'
    BY <1>1, <2>1 DEF OnDisk
  <2>4. Running'
    BY <1>1, <1>2, <1>7, <1>9, <1>11, <1>12, <2>3 DEF Running
  <2>5. QED
    BY <1>6, <1>8, <1>10, <2>2, <2>4 DEF SettingsInv
<1>13. CASE failed' = TRUE /\ UNCHANGED <<profile, saved>>
  <2>1. Values' /\ (days = config.prefs.days)' /\ Survives'
    BY <1>1, <1>9, <1>13 DEF SettingsInv, Values, Survives, SavedSurvives
  <2>2. Running'
    BY <1>1, <1>2, <1>7, <1>9, <1>11, <1>13 DEF Running
  <2>3. QED
    BY <1>6, <1>8, <1>10, <2>1, <2>2 DEF SettingsInv
<1>14. QED
  BY <1>12, <1>13 DEF StoreMode

-----------------------------------------------------------------------------
(***************************************************************************)
(* Calls, and what shows them                                              *)
(***************************************************************************)

\* A call of which the first step is no save begins from a process at rest.
LEMMA CallKeeps ==
  ASSUME SettingsInv, up # "none", todo = <<>>, IsQueue(todo'),
         Left' \subseteq {"select", "pick", "start"},
         todo' # <<>> => Head(todo').do \in {"select", "pick"},
         UNCHANGED <<profile, legacy, modes, up, config, active, days, policy, bound, device, restart,
                     saved, chosen, failed, orphaned>>
  PROVE  SettingsInv'
<1>1. Queue /\ Left = {} /\ \A what : ~AtStep(what)
  BY QuietIs DEF SettingsInv
<1>2. Queue'
  BY <1>1 DEF Queue
<1>3. SaveIsSound'
  BY DEF SaveIsSound, AtStep
<1>4. Moved
  BY <1>1 DEF Moved, Saving, Selecting, AtStep
<1>5. QED
  BY <1>2, <1>3, <1>4, MovedKeeps

LEMMA PickModeKeeps ==
  ASSUME SettingsInv, NEW m \in Modes, PickMode(m)
  PROVE  SettingsInv'
<1>1. /\ up # "none" /\ todo = <<>> /\ todo' = <<DoWith("pick", m)>>
      /\ UNCHANGED <<profile, legacy, modes, up, config, active, days, policy, bound, device, restart,
                     saved, chosen, failed, orphaned>>
  BY DEF PickMode, Call, Quiet, memory, history
<1>2. IsQueue(todo') /\ Left' = {"pick"} /\ Head(todo').do = "pick"
  BY <1>1, OneStep DEF Left, DoWith
<1>3. QED
  BY <1>1, <1>2, CallKeeps

LEMMA SelectModeKeeps ==
  ASSUME SettingsInv, NEW m \in Modes, SelectMode(m) \/ RunCommand(m)
  PROVE  SettingsInv'
<1>1. /\ up # "none" /\ todo = <<>> /\ todo' = <<DoWith("select", m)>>
      /\ UNCHANGED <<profile, legacy, modes, up, config, active, days, policy, bound, device, restart,
                     saved, chosen, failed, orphaned>>
  BY DEF SelectMode, RunCommand, Call, Quiet, memory, history
<1>2. IsQueue(todo') /\ Left' = {"select"} /\ Head(todo').do = "select"
  BY <1>1, OneStep DEF Left, DoWith
<1>3. QED
  BY <1>1, <1>2, CallKeeps

LEMMA ModeShortcutKeeps ==
  ASSUME SettingsInv, NEW m \in Modes, ModeShortcut(m)
  PROVE  SettingsInv'
<1> DEFINE a == DoWith("select", m)  b == Do("start")
<1>1. /\ up # "none" /\ todo = <<>> /\ todo' = <<a, b>>
      /\ UNCHANGED <<profile, legacy, modes, up, config, active, days, policy, bound, device, restart,
                     saved, chosen, failed, orphaned>>
  BY DEF ModeShortcut, Call, Quiet, memory, history
<1>2. a.do = "select" /\ b.do = "start" /\ Follows(a.do, b.do)
  BY DEF Do, DoWith, Follows
<1> HIDE DEF a, b
<1>3. IsQueue(todo') /\ Kinds(todo') = {a.do, b.do} /\ todo' # <<>> /\ Head(todo') = a
  BY <1>1, <1>2, TwoSteps
<1>4. IsQueue(todo') /\ Left' = {"select", "start"} /\ Head(todo').do = "select"
  BY <1>2, <1>3 DEF Left
<1>5. QED
  BY <1>1, <1>4, CallKeeps

\* The settings submitted are acceptable; those of the protocol keep the mode.
LEMMA SubmitKeeps ==
  ASSUME SettingsInv, up # "none", todo = <<>>, IsQueue(todo'),
         Left' \subseteq {"save", "prune", "apply", "keep"}, "save" \in Left', "apply" \in Left', SaveIsSound',
         todo' # <<>> => Head(todo').do = "save",
         UNCHANGED <<profile, legacy, modes, up, config, active, days, policy, bound, device, restart,
                     saved, chosen, failed, orphaned>>
  PROVE  SettingsInv'
<1>1. Queue /\ Left = {} /\ \A what : ~AtStep(what)
  BY QuietIs DEF SettingsInv
<1>2. Queue'
  BY <1>1 DEF Queue
<1>3. Moved
  BY <1>1 DEF Moved, Saving, Selecting, AtStep
<1>4. QED
  BY <1>2, <1>3, MovedKeeps

LEMMA WindowSaveKeeps ==
  ASSUME SettingsInv, NEW w \in Drafts, WindowSave(w)
  PROVE  SettingsInv'
<1> DEFINE cfg == With(Widgets(w), form.mode)
           a == Save(cfg, FALSE)  b == Do("prune")  c == Do("apply")  d == [do |-> "keep", cfg |-> cfg]
<1>1. /\ up = "window" /\ todo = <<>> /\ todo' = <<a, b, c, d>>
      /\ UNCHANGED <<profile, legacy, modes, up, config, active, days, policy, bound, device, restart,
                     saved, chosen, failed, orphaned>>
  BY DEF WindowSave, Call, Quiet, memory, history
<1>2. Good(cfg) /\ cfg.mode \in Known
  <2>1. IsPreferences(Widgets(w)) /\ Acceptable(With(Widgets(w), form.mode))
    BY WidgetsArePreferences DEF WindowSave
  <2>2. QED
    BY <2>1, AcceptedIsGood
<1>3. a.do = "save" /\ b.do = "prune" /\ c.do = "apply" /\ d.do = "keep" /\ a.cfg = cfg
  BY DEF Save, Do
<1>4. /\ Follows(a.do, b.do) /\ Follows(a.do, c.do) /\ Follows(a.do, d.do)
      /\ Follows(b.do, c.do) /\ Follows(b.do, d.do) /\ Follows(c.do, d.do)
  BY <1>3 DEF Follows
<1> HIDE DEF a, b, c, d, cfg
<1>5. IsQueue(todo') /\ Kinds(todo') = {a.do, b.do, c.do, d.do} /\ todo' # <<>> /\ Head(todo') = a
  BY <1>1, <1>4, FourSteps
<1>6. Left' = {"save", "prune", "apply", "keep"}
  BY <1>3, <1>5 DEF Left
<1>7. SaveIsSound'
  BY <1>1, <1>2, <1>3, <1>5 DEF SaveIsSound, Known
<1>8. QED
  BY <1>1, <1>3, <1>5, <1>6, <1>7, SubmitKeeps

LEMMA EngineUpdateKeeps ==
  ASSUME SettingsInv, NEW w \in Drafts, NEW m \in Modes \cup {"same"}, EngineUpdate(w, m)
  PROVE  SettingsInv'
<1> DEFINE n == IF m = "same" THEN config.mode ELSE m
           cfg == With(w, n)
           a == Save(cfg, m # "same")  b == Do("prune")  c == Do("apply")
<1>1. /\ up = "engine" /\ todo = <<>> /\ todo' = <<a, b, c>>
      /\ UNCHANGED <<profile, legacy, modes, up, config, active, days, policy, bound, device, restart,
                     saved, chosen, failed, orphaned>>
  BY DEF EngineUpdate, Call, Quiet, memory, history
<1>2. Good(cfg) /\ cfg.mode \in Known /\ cfg.mode = n
  <2>1. IsPreferences(w) /\ Acceptable(With(w, n))
    BY WidgetsArePreferences DEF EngineUpdate
  <2> HIDE DEF n
  <2>2. QED
    BY <2>1, AcceptedIsGood
<1>3. a.do = "save" /\ b.do = "prune" /\ c.do = "apply" /\ a.cfg = cfg /\ (a.picked <=> m # "same")
  BY DEF Save, Do
<1>4. Follows(a.do, b.do) /\ Follows(a.do, c.do) /\ Follows(b.do, c.do)
  BY <1>3 DEF Follows
<1>5. ~a.picked => cfg.mode = config.mode
  BY <1>2, <1>3
<1> HIDE DEF a, b, c, cfg, n
<1>6. IsQueue(todo') /\ Kinds(todo') = {a.do, b.do, c.do} /\ todo' # <<>> /\ Head(todo') = a
  BY <1>1, <1>4, ThreeSteps
<1>7. Left' = {"save", "prune", "apply"}
  BY <1>3, <1>6 DEF Left
<1>8. SaveIsSound'
  BY <1>1, <1>2, <1>3, <1>5, <1>6 DEF SaveIsSound, Known
<1>9. QED
  BY <1>1, <1>3, <1>6, <1>7, <1>8, SubmitKeeps

\* The list of modes is filled again.
LEMMA RefreshKeeps ==
  ASSUME SettingsInv, Refresh
  PROVE  SettingsInv'
<1>1. /\ todo # <<>> /\ Head(todo).do = "refresh"
      /\ UNCHANGED <<profile, legacy, modes, up, config, active, days, policy, bound, device, restart,
                     saved, chosen, failed, orphaned>>
  BY DEF Refresh, AtStep, memory, history
<1>2. PICK m : Then(<<DoWith("show", m)>>) \/ Then(<<DoWith("show", m), DoWith("show", m)>>)
  BY DEF Refresh
<1>3. IsQueue(todo) /\ Queue /\ up # "none" /\ up # "engine"
  BY <1>1, NextIsLeft DEF SettingsInv, Queue, Left
<1> DEFINE a == DoWith("show", m)
<1>4. a.do = "show" /\ Follows(a.do, a.do) /\ \A k : Follows(Head(todo).do, k) => Follows(a.do, k)
  BY <1>1 DEF DoWith, Follows
<1>5. Then(<<a>>) \/ Then(<<a, a>>)
  BY <1>2
<1> HIDE DEF a
<1>6. /\ IsQueue(todo') /\ todo' # <<>> /\ Head(todo') = a
      /\ \E rest : /\ Left = {Head(todo).do} \cup rest /\ Left' = {a.do} \cup rest
                   /\ \A k \in rest : Follows(Head(todo).do, k)
  <2>1. CASE Then(<<a>>)
    BY <1>1, <1>3, <1>4, <2>1, ThenIs
  <2>2. CASE Then(<<a, a>>)
    BY <1>1, <1>3, <1>4, <2>2, ThenTwiceIs
  <2>3. QED
    BY <1>5, <2>1, <2>2
<1>7. PICK rest : /\ Left = {"refresh"} \cup rest /\ Left' = {"show"} \cup rest
                  /\ \A k \in rest : Follows("refresh", k)
  BY <1>1, <1>4, <1>6
<1>8. rest \subseteq {"bind", "edited"}
  BY <1>7 DEF Follows
<1>9. Queue'
  BY <1>1, <1>3, <1>6, <1>7, <1>8 DEF Queue
<1>10. SaveIsSound'
  BY <1>4, <1>6 DEF SaveIsSound, AtStep
<1>11. Moved
  BY <1>1, <1>7, <1>8 DEF Moved, Saving, Selecting, AtStep
<1>12. QED
  BY <1>9, <1>10, <1>11, MovedKeeps

\* An edited mode is shown.
LEMMA ShowKeeps ==
  ASSUME SettingsInv, Show
  PROVE  SettingsInv'
<1>1. /\ todo # <<>> /\ Head(todo).do = "edited"
      /\ UNCHANGED <<profile, legacy, modes, up, config, active, days, policy, bound, device, restart,
                     saved, chosen, failed, orphaned>>
  BY DEF Show, AtStep, memory, history
<1> DEFINE a == DoWith("pick", Head(todo).mode)
<1>2. Then(<<>>) \/ Then(<<a>>)
  BY DEF Show
<1>3. IsQueue(todo) /\ Queue /\ up # "none"
  BY <1>1 DEF SettingsInv, Queue
<1>4. a.do = "pick"
  BY DEF DoWith
<1> HIDE DEF a
<1>5. Left = {"edited"} \cup Kinds(Tail(todo)) /\ \A k \in Kinds(Tail(todo)) : Follows("edited", k)
  BY <1>1, <1>3, RestIs
<1>6. Left = {"edited"}
  BY <1>5 DEF Follows
<1>7. IsQueue(todo') /\ Left' \subseteq {"pick"} /\ (todo' # <<>> => Head(todo').do \in Left')
  <2>1. CASE Then(<<>>)
    <3> DEFINE r == Tail(todo)
    <3>1. IsQueue(r) /\ todo' = <<>> \o r
      BY <1>1, <1>3, <2>1, Popped DEF Then
    <3> HIDE DEF r
    <3>2. todo' = r
      BY <3>1, ConcatEmptySeq DEF IsQueue
    <3>3. Done
      BY <2>1, <3>2 DEF Done, r
    <3>4. IsQueue(todo') /\ Left = {"edited"} \cup Left' /\ (\A k \in Left' : Follows("edited", k))
          /\ (todo' # <<>> => Head(todo').do \in Left')
      BY <1>1, <1>3, <3>3, DoneIs
    <3>5. Left' = {}
      BY <3>4 DEF Follows
    <3>6. QED
      BY <3>4, <3>5
  <2>2. CASE Then(<<a>>)
    <3>1. \A k : Follows(Head(todo).do, k) => Follows(a.do, k)
      BY <1>1 DEF Follows
    <3>2. /\ IsQueue(todo') /\ todo' # <<>> /\ Head(todo') = a
          /\ \E rest : /\ Left = {Head(todo).do} \cup rest /\ Left' = {a.do} \cup rest
                       /\ \A k \in rest : Follows(Head(todo).do, k)
      BY <1>1, <1>3, <2>2, <3>1, ThenIs
    <3>3. PICK rest : Left' = {"pick"} \cup rest /\ \A k \in rest : Follows("edited", k)
      BY <1>1, <1>4, <3>2
    <3>4. rest = {}
      BY <3>3 DEF Follows
    <3>5. QED
      BY <1>4, <3>2, <3>3, <3>4
  <2>3. QED
    BY <1>2, <2>1, <2>2
<1>8. Queue'
  BY <1>1, <1>3, <1>7 DEF Queue
<1>9. SaveIsSound'
  BY <1>7 DEF SaveIsSound, AtStep
<1>10. Moved
  BY <1>1, <1>6, <1>7 DEF Moved, Saving, Selecting, AtStep
<1>11. QED
  BY <1>8, <1>9, <1>10, MovedKeeps

-----------------------------------------------------------------------------
(***************************************************************************)
(* The modes                                                               *)
(***************************************************************************)

\* The modes change while no call runs, and the shortcuts follow; the one that is
\* deleted while it is active is left first.
LEMMA ModesKeep ==
  ASSUME SettingsInv, up = "window", todo = <<>>,
         modes' \in [Modes -> Styles \cup {"absent"}], modes'["raw"] # "absent",
         IsQueue(todo'), Left' \subseteq {"select", "rebind", "refresh", "edited"},
         (AtStep("rebind")' /\ (active \in Known => active \in Known')) \/ (AtStep("select")' /\ Known' \subseteq Known),
         UNCHANGED <<profile, legacy, up, config, active, days, policy, bound, device, restart,
                     saved, chosen, failed, orphaned>>
  PROVE  SettingsInv'
<1>1. Queue /\ Running /\ Left = {} /\ \A what : ~AtStep(what)
  BY QuietIs DEF SettingsInv
<1>2. Queue'
  BY DEF Queue
<1>3. SaveIsSound'
  BY DEF SaveIsSound, AtStep
<1>4. Values' /\ (days = config.prefs.days)'
  BY DEF SettingsInv, Values
<1>5. Survives'
  BY DEF SettingsInv, Survives, SavedSurvives
<1>6. ~Starting /\ ~Starting' /\ ~Saving /\ ~Saving' /\ ~Selecting /\ ~Selecting'
  BY <1>1 DEF Starting, Saving, Selecting
<1>7. FromFile'
  BY <1>6 DEF FromFile
<1>8. (OnDisk' <=> OnDisk) /\ (Derived' <=> Derived) /\ (Serving' <=> Serving) /\ Serving
  BY <1>1, <1>6 DEF OnDisk, Derived, Serving, Running
<1>9. ~failed /\ ~AtStep("rebind")' => Registered'
  <2> SUFFICES ASSUME ~failed, ~AtStep("rebind")' PROVE Registered'
    OBVIOUS
  <2>1. Registered /\ Known' \subseteq Known
    BY <1>1, <1>6 DEF Running
  <2>2. /\ bound.modes \cap Known = {m \in Known : Shortcut[m] \notin {"none", config.prefs.shortcut}}
        /\ bound.dictation = config.prefs.shortcut
    BY <2>1 DEF Registered, Specs
  <2>3. bound'.modes \cap Known' = {m \in Known' : Shortcut[m] \notin {"none", config'.prefs.shortcut}}
    BY <2>1, <2>2
  <2>4. Specs(config.prefs)'.modes = {m \in Known' : Shortcut[m] \notin {"none", config'.prefs.shortcut}}
    BY DEF Specs
  <2>5. QED
    BY <2>2, <2>3, <2>4 DEF Registered
<1>10. ~orphaned' /\ ~AtStep("select")' => active' \in Known'
  BY <1>1, <1>6 DEF Running
<1>11. Running'
  BY <1>1, <1>6, <1>8, <1>9, <1>10 DEF Running
<1>12. QED
  BY <1>2, <1>3, <1>4, <1>5, <1>7, <1>11 DEF SettingsInv

\* The built-in modes are no modes of the user.
LEMMA RawIs == "raw" \in Modes /\ \A m \in UserModes : m \in Modes /\ m # "raw"
BY ModesDiffer DEF Modes, Builtin

LEMMA SaveModeKeeps ==
  ASSUME SettingsInv, NEW m \in UserModes \cup {"raw"}, NEW style \in Styles, SaveMode(m, style)
  PROVE  SettingsInv'
<1> DEFINE a == Do("rebind")  b == Do("refresh")  c == DoWith("edited", m)
<1>1. /\ up = "window" /\ todo = <<>> /\ todo' = <<a, b, c>> /\ m \in Known
      /\ modes' = [modes EXCEPT ![m] = style]
      /\ UNCHANGED <<profile, legacy, up, config, active, days, policy, bound, device, restart,
                     saved, chosen, failed, orphaned>>
  BY DEF SaveMode, Keep, Call, Quiet, memory, history
<1>2. a.do = "rebind" /\ b.do = "refresh" /\ c.do = "edited"
  BY DEF Do, DoWith
<1>3. Follows(a.do, b.do) /\ Follows(a.do, c.do) /\ Follows(b.do, c.do)
  BY <1>2 DEF Follows
<1> HIDE DEF a, b, c
<1>4. IsQueue(todo') /\ Kinds(todo') = {a.do, b.do, c.do} /\ todo' # <<>> /\ Head(todo') = a
  BY <1>1, <1>3, ThreeSteps
<1>5. IsQueue(todo') /\ Left' = {"rebind", "refresh", "edited"} /\ AtStep("rebind")'
  BY <1>2, <1>4 DEF Left, AtStep
<1>6. /\ modes \in [Modes -> Styles \cup {"absent"}] /\ modes["raw"] # "absent" /\ m \in Modes /\ style # "absent"
      /\ "raw" \in Modes
  BY RawIs DEF SettingsInv, Values, Styles
<1>7. /\ modes' \in [Modes -> Styles \cup {"absent"}] /\ modes'["raw"] # "absent"
      /\ \A n \in Modes : modes[n] # "absent" => modes'[n] # "absent"
  BY <1>1, <1>6
<1>8. active \in Known => active \in Known'
  BY <1>7 DEF Known
<1>9. QED
  BY <1>1, <1>5, <1>7, <1>8, ModesKeep

LEMMA NewModeKeeps ==
  ASSUME SettingsInv, NEW m \in UserModes, NewMode(m)
  PROVE  SettingsInv'
<1> DEFINE a == Do("rebind")  b == Do("refresh")
<1>1. /\ up = "window" /\ todo = <<>> /\ todo' = <<a, b>>
      /\ modes' = [modes EXCEPT ![m] = "edited"]
      /\ UNCHANGED <<profile, legacy, up, config, active, days, policy, bound, device, restart,
                     saved, chosen, failed, orphaned>>
  BY DEF NewMode, Keep, Call, Quiet, memory, history
<1>2. a.do = "rebind" /\ b.do = "refresh" /\ Follows(a.do, b.do)
  BY DEF Do, Follows
<1> HIDE DEF a, b
<1>3. IsQueue(todo') /\ Kinds(todo') = {a.do, b.do} /\ todo' # <<>> /\ Head(todo') = a
  BY <1>1, <1>2, TwoSteps
<1>4. IsQueue(todo') /\ Left' = {"rebind", "refresh"} /\ AtStep("rebind")'
  BY <1>2, <1>3 DEF Left, AtStep
<1>5. /\ modes \in [Modes -> Styles \cup {"absent"}] /\ modes["raw"] # "absent" /\ m \in Modes
      /\ "edited" \in Styles /\ "raw" \in Modes
  BY RawIs DEF SettingsInv, Values, Styles
<1>6. /\ modes' \in [Modes -> Styles \cup {"absent"}] /\ modes'["raw"] # "absent"
      /\ \A n \in Modes : modes[n] # "absent" => modes'[n] # "absent"
  BY <1>1, <1>5
<1>7. active \in Known => active \in Known'
  BY <1>6 DEF Known
<1>8. QED
  BY <1>1, <1>4, <1>6, <1>7, ModesKeep

LEMMA DeleteModeKeeps ==
  ASSUME SettingsInv, NEW m \in UserModes, DeleteMode(m)
  PROVE  SettingsInv'
<1> DEFINE a == DoWith("select", "raw")  b == Do("rebind")  c == Do("refresh")
           p == <<b>>  q == <<c>>  r == <<a>>
<1>1. /\ up = "window" /\ todo = <<>> /\ todo' = AfterDeletion(m) \o q
      /\ modes' = [modes EXCEPT ![m] = "absent"]
      /\ UNCHANGED <<profile, legacy, up, config, active, days, policy, bound, device, restart,
                     saved, chosen, failed, orphaned>>
  BY DEF DeleteMode, Forget, Call, Quiet, memory, history
<1>2. /\ AfterDeletion(m) = (IF active = m THEN r ELSE <<>>) \o p
      /\ a.do = "select" /\ b.do = "rebind" /\ c.do = "refresh"
  BY DEF AfterDeletion, Do, DoWith
<1>3. /\ IsQueue(p) /\ Kinds(p) = {b.do} /\ p # <<>> /\ Head(p) = b
      /\ IsQueue(q) /\ Kinds(q) = {c.do}
      /\ IsQueue(r) /\ Kinds(r) = {a.do} /\ r # <<>> /\ Head(r) = a
  BY OneStep
<1>4. p \in Seq({b})
  OBVIOUS
<1> HIDE DEF a, b, c, p, q, r
<1>5. /\ modes \in [Modes -> Styles \cup {"absent"}] /\ modes["raw"] # "absent" /\ m \in Modes /\ m # "raw"
      /\ "raw" \in Modes
  BY RawIs DEF SettingsInv, Values
<1>6. /\ modes' \in [Modes -> Styles \cup {"absent"}] /\ modes'["raw"] # "absent"
      /\ \A n \in Modes : (modes'[n] # "absent" => modes[n] # "absent") /\ (n # m => modes'[n] = modes[n])
  BY <1>1, <1>5
<1>7. CASE active = m
  <2> DEFINE s == r \o p
  <2>1. todo' = s \o q
    BY <1>1, <1>2, <1>7
  <2>2. \A k \in Kinds(r), l \in Kinds(p) : Follows(k, l)
    BY <1>2, <1>3 DEF Follows
  <2>3. IsQueue(s) /\ Kinds(s) = Kinds(r) \cup Kinds(p) /\ (r # <<>> => s # <<>> /\ Head(s) = Head(r))
    BY <1>3, <2>2, Joined
  <2> HIDE DEF s
  <2>4. \A k \in Kinds(s), l \in Kinds(q) : Follows(k, l)
    BY <1>2, <1>3, <2>3 DEF Follows
  <2>5. IsQueue(todo') /\ Kinds(todo') = Kinds(s) \cup Kinds(q) /\ (s # <<>> => todo' # <<>> /\ Head(todo') = Head(s))
    <3>1. IsQueue(s) /\ IsQueue(q)
      BY <1>3, <2>3
    <3>2. \A t : t = s \o q => /\ IsQueue(t) /\ Kinds(t) = Kinds(s) \cup Kinds(q)
                               /\ s # <<>> => t # <<>> /\ Head(t) = Head(s)
      BY <2>4, <3>1, Joined
    <3>3. QED
      BY <2>1, <3>2
  <2>6. Left' = {"select", "rebind", "refresh"} /\ AtStep("select")'
    BY <1>2, <1>3, <2>3, <2>5 DEF Left, AtStep
  <2>7. Known' \subseteq Known
    BY <1>6 DEF Known
  <2>8. QED
    BY <1>1, <1>6, <2>5, <2>6, <2>7, ModesKeep
<1>8. CASE active # m
  <2>1. AfterDeletion(m) = p
    BY <1>2, <1>4, <1>8, ConcatEmptySeq
  <2>2. todo' = p \o q
    BY <1>1, <2>1
  <2>3. \A k \in Kinds(p), l \in Kinds(q) : Follows(k, l)
    BY <1>2, <1>3 DEF Follows
  <2>4. IsQueue(todo') /\ Kinds(todo') = Kinds(p) \cup Kinds(q) /\ (p # <<>> => todo' # <<>> /\ Head(todo') = Head(p))
    BY <1>3, <2>2, <2>3, Joined
  <2>5. Left' = {"rebind", "refresh"} /\ AtStep("rebind")'
    BY <1>2, <1>3, <2>4 DEF Left, AtStep
  <2>6. active \in Known => active \in Known'
    BY <1>6, <1>8 DEF Known
  <2>7. QED
    BY <1>1, <1>6, <2>4, <2>5, <2>6, ModesKeep
<1>9. QED
  BY <1>7, <1>8

-----------------------------------------------------------------------------
(***************************************************************************)
(* Dictations, the user's own edits and the end of the process             *)
(***************************************************************************)
LEMMA StillKeeps ==
  ASSUME SettingsInv,
         UNCHANGED <<profile, legacy, modes, up, todo, config, active, days, policy, bound, device, restart,
                     saved, chosen, failed, orphaned>>
  PROVE  SettingsInv'
<1>1. Left' = Left /\ \A what : AtStep(what)' <=> AtStep(what)
  BY DEF Left, AtStep
<1>2. Queue'
  BY <1>1 DEF SettingsInv, Queue
<1>3. SaveIsSound'
  BY DEF SettingsInv, SaveIsSound, AtStep, Known
<1>4. Moved
  BY <1>1 DEF Moved, Saving, Selecting
<1>5. QED
  BY <1>2, <1>3, <1>4, MovedKeeps

LEMMA EditFileKeeps ==
  ASSUME SettingsInv, NEW file \in Edits, EditFile(file)
  PROVE  SettingsInv'
<1>1. /\ up = "none" /\ profile' = file /\ saved' = file /\ chosen' = Loaded(file).mode
      /\ orphaned' = (Loaded(file).mode \notin Known)
      /\ UNCHANGED <<legacy, modes, up, todo, config, active, days, policy, bound, device, restart, failed>>
  BY DEF EditFile, memory
<1>2. Filed(profile')
  <2>1. CASE file = Absent
    BY <1>1, <2>1 DEF Filed
  <2>2. CASE file # Absent
    <3>1. file \in Edits \ {Absent}
      BY <2>2
    <3>2. /\ file = [prefs |-> file.prefs, mode |-> file.mode]
          /\ IsPreferences(file.prefs) /\ file.prefs.prompt # "commented"
      BY <3>1, FilesAssumption
    <3>3. QED
      BY <1>1, <3>2 DEF Filed, With
  <2>3. QED
    BY <2>1, <2>2
<1>3. todo = <<>>
  BY <1>1 DEF SettingsInv, Queue
<1>4. Queue' /\ Left' = {}
  BY <1>1, <1>3, NoStep DEF Queue, Left
<1>5. SaveIsSound'
  BY <1>1, <1>3 DEF SaveIsSound, AtStep
<1>6. Values' /\ (days = config.prefs.days)'
  BY <1>1, <1>2 DEF SettingsInv, Values
<1>7. Survives'
  BY <1>1, <1>4 DEF Survives, SavedSurvives
<1>8. FromFile'
  BY <1>1 DEF FromFile, Known
<1>9. Running'
  BY <1>1 DEF Running, Starting
<1>10. QED
  BY <1>4, <1>5, <1>6, <1>7, <1>8, <1>9 DEF SettingsInv

LEMMA CrashKeeps ==
  ASSUME SettingsInv, Crash
  PROVE  SettingsInv'
<1>1. /\ up' = "none" /\ todo' = <<>> /\ chosen' = Loaded(profile).mode
      /\ orphaned' = (Loaded(profile).mode \notin Known)
      /\ UNCHANGED <<profile, legacy, modes, config, active, days, policy, bound, device, restart, saved, failed>>
  BY DEF Crash, memory
<1>2. Queue' /\ Left' = {}
  BY <1>1, NoStep DEF Queue, Left
<1>3. SaveIsSound'
  BY <1>1 DEF SaveIsSound, AtStep
<1>4. Values' /\ (days = config.prefs.days)'
  BY <1>1 DEF SettingsInv, Values
<1>5. Survives'
  BY <1>1, <1>2 DEF SettingsInv, Survives, SavedSurvives
<1>6. FromFile'
  BY <1>1 DEF FromFile, Known
<1>7. Running'
  BY <1>1 DEF Running, Starting
<1>8. QED
  BY <1>2, <1>3, <1>4, <1>5, <1>6, <1>7 DEF SettingsInv

-----------------------------------------------------------------------------
(***************************************************************************)
(* The theorems                                                            *)
(***************************************************************************)
LEMMA InitHolds ==
  ASSUME Init
  PROVE  SettingsInv
<1>1. /\ profile = Absent \/ profile = Fresh
      /\ legacy \in LegacyFiles /\ up = "none" /\ todo = <<>>
      /\ modes = [m \in Modes |-> CASE m = "raw" -> "raw" [] m = "message" -> "edited" [] OTHER -> "absent"]
      /\ config = Fresh /\ days = Default.days /\ saved = profile /\ chosen = "raw"
      /\ failed = FALSE /\ orphaned = FALSE /\ restart = FALSE
  BY DEF Init
<1>2. Filed(profile) /\ Good(config) /\ Loaded(profile).mode = "raw"
  BY <1>1, FreshIs DEF Filed, Loaded
<1>3. modes \in [Modes -> Styles \cup {"absent"}] /\ modes["raw"] = "raw"
  BY <1>1, RawIs DEF Styles
<1>4. Values
  BY <1>1, <1>2, <1>3 DEF Values
<1>5. Queue /\ Left = {} /\ SaveIsSound
  BY <1>1, NoStep DEF Queue, Left, SaveIsSound, AtStep
<1>6. Survives
  BY <1>1, <1>5 DEF Survives, SavedSurvives
<1>7. FromFile
  BY <1>1, <1>2, <1>3, RawIs DEF FromFile, Known
<1>8. days = config.prefs.days
  BY <1>1 DEF Fresh, With
<1>9. Running
  BY <1>1 DEF Running, Starting
<1>10. QED
  BY <1>4, <1>5, <1>6, <1>7, <1>8, <1>9 DEF SettingsInv

LEMMA StepKeeps ==
  ASSUME SettingsInv, [Next]_vars
  PROVE  SettingsInv'
<1>1. CASE \E f \in Frontends : Launch(f)
  BY <1>1, LaunchKeeps
<1>2. CASE Step
  BY <1>2, MigrateKeeps, MarkMigratedKeeps, LoadKeeps, FirstProfileKeeps, OpenFormKeeps, StartShortcutKeeps,
     WriteKeeps, PruneKeeps, ApplyKeeps, KeepFormKeeps, SelectKeeps, StoreModeKeeps, RefreshKeeps, ShowKeeps,
     RebindKeeps, StartByShortcutKeeps
     DEF Step
<1>3. CASE \E d \in Drafts : WindowSave(d) \/ \E m \in Modes \cup {"same"} : EngineUpdate(d, m)
  BY <1>3, WindowSaveKeeps, EngineUpdateKeeps
<1>4. CASE \E m \in Modes : PickMode(m) \/ SelectMode(m) \/ RunCommand(m) \/ ModeShortcut(m)
  BY <1>4, PickModeKeeps, SelectModeKeeps, ModeShortcutKeeps
<1>5. CASE \E m \in UserModes \cup {"raw"}, style \in Styles : SaveMode(m, style)
  BY <1>5, SaveModeKeeps
<1>6. CASE \E m \in UserModes : NewMode(m) \/ DeleteMode(m)
  BY <1>6, NewModeKeeps, DeleteModeKeeps
<1>7. CASE \E file \in Edits : EditFile(file)
  BY <1>7, EditFileKeeps
<1>8. CASE StartRecording \/ EndRecording
  BY <1>8, StillKeeps DEF StartRecording, EndRecording, memory, history
<1>9. CASE Crash
  BY <1>9, CrashKeeps
<1>10. CASE UNCHANGED vars
  BY <1>10, StillKeeps DEF vars, memory, history
<1>11. QED
  BY <1>1, <1>2, <1>3, <1>4, <1>5, <1>6, <1>7, <1>8, <1>9, <1>10 DEF Next

\* The inductive invariant: what every queue of steps still has to mend.
THEOREM SettingsInvariant == Spec => []SettingsInv
<1>1. Init => SettingsInv
  BY InitHolds
<1>2. SettingsInv /\ [Next]_vars => SettingsInv'
  BY StepKeeps
<1>3. QED
  BY <1>1, <1>2, PTL DEF Spec

\* What a call wrote last, or the user edited last, is in config.ini after any
\* failure and any restart (_atomic_write_parser, migrate_legacy_config).
THEOREM SavedPreferencesSurvive == Spec => []SavedSurvives
<1>1. SettingsInv => SavedSurvives
  BY DEF SettingsInv, Survives
<1>2. QED
  BY <1>1, SettingsInvariant, PTL

\* Between two calls nothing is left to mend, so the file, the runtime and all it
\* derived from its settings agree (save_settings, select_mode, delete_mode).
THEOREM SettingsAgreeWithFile == Spec => []SettingsAgree
<1>1. ASSUME SettingsInv PROVE SettingsAgree
  <2> SUFFICES ASSUME Quiet, ~failed PROVE SettingsAgree
    BY DEF SettingsAgree
  <2>1. Left = {} /\ (\A what : ~AtStep(what)) /\ up # "none" /\ Running /\ days = config.prefs.days
    BY <1>1, QuietIs DEF Quiet, SettingsInv
  <2>2. ~Starting /\ ~Saving /\ ~Selecting /\ "bind" \notin Left
    BY <2>1 DEF Starting, Saving, Selecting
  <2>3. OnDisk /\ Derived /\ Registered
    BY <2>1, <2>2 DEF Running
  <2>4. QED
    BY <2>1, <2>3 DEF SettingsAgree, OnDisk, Derived, Registered
<1>2. QED
  BY <1>1, SettingsInvariant, PTL

\* Between two calls the active mode exists, unless a deletion was cut short
\* (delete_mode, ModeRouter.route).
THEOREM ActiveModeRoutes == Spec => []ModeRoutes
<1>1. ASSUME SettingsInv PROVE ModeRoutes
  <2> SUFFICES ASSUME Quiet, ~orphaned PROVE active \in Known
    BY DEF ModeRoutes
  <2>1. Left = {} /\ ~AtStep("select") /\ up # "none" /\ Running
    BY <1>1, QuietIs DEF Quiet, SettingsInv
  <2>2. QED
    BY <2>1 DEF Running, Starting
<1>2. QED
  BY <1>1, SettingsInvariant, PTL

\* With the protocol's front end the mode the user chose stays the active one
\* (_handle_settings_update).
THEOREM EngineKeepsTheMode == Spec => []EngineKeepsMode
<1>1. ASSUME SettingsInv PROVE EngineKeepsMode
  <2> SUFFICES ASSUME Quiet, up = "engine", ~failed PROVE active = chosen
    BY DEF EngineKeepsMode
  <2>1. Left = {} /\ Running
    BY <1>1, QuietIs DEF Quiet, SettingsInv
  <2>2. active = config.mode /\ chosen = config.mode
    BY <2>1 DEF Running, Derived, Starting, Saving
  <2>3. QED
    BY <2>2
<1>2. QED
  BY <1>1, SettingsInvariant, PTL
===============================================================================
