------------------------------- MODULE Settings -------------------------------
(***************************************************************************)
(* The preferences of OpenWhisper and the dictation mode they name:        *)
(* config.ini with its one migration of a legacy file (core/config.py),    *)
(* the modes in the personalization database (core/personalization.py),    *)
(* RuntimeController's copies of both, and the two front ends that change  *)
(* them, the settings pages of the window and the engine's protocol.       *)
(*                                                                         *)
(* Calls run on the application thread.  A call is a queue of steps, for   *)
(* the process may end between two of them and a write or a prune may fail.*)
(***************************************************************************)
EXTENDS Integers, Sequences, FiniteSets

CONSTANTS
  UserModes,   \* the modes the user makes; the rest are built in
  Drafts,      \* the preferences a front end submits, but for the mode
  Default,     \* AppConfig() without its mode
  LegacyFiles, \* what may be at the legacy locations: sequences of preferences or Absent
  Edits,       \* what the user may make of config.ini by hand, or Absent
  Shortcut,    \* the shortcut of every mode, or "none"
  MaxCalls,    \* bound on the calls of the user
  MaxCrashes,  \* bound on how often the process ends
  MaxFaults    \* bound on the writes and prunes that fail

Absent == [live |-> FALSE]
Frontends == {"window", "engine"}
Builtin == {"raw", "message"}
Modes == Builtin \cup UserModes
Styles == {"raw", "live", "edited"}  \* cleanup_style Raw, the same with live insertion, another

ASSUME ModesDiffer == UserModes \cap Builtin = {}
ASSUME DefaultIsBatch == ~Default.live

\* A record of preferences; AppConfig refuses an empty shortcut, and a file that
\* names none loads with the default one.
IsPreferences(p) ==
  /\ p = [live |-> p.live, provider |-> p.provider, days |-> p.days, shortcut |-> p.shortcut,
          prompt |-> p.prompt, device |-> p.device]
  /\ p.live \in BOOLEAN /\ p.days \in Int /\ p.shortcut # "none"
ASSUME PreferencesAssumption ==
  /\ \A p \in Drafts \cup {Default} : IsPreferences(p)
  /\ Default.days >= 0 /\ Default.provider = "faster-whisper" /\ Default.prompt # "commented"

\* In a file the lines of the instructions that INI loses are lost already.
ASSUME FilesAssumption ==
  /\ \A files \in LegacyFiles : \A i \in DOMAIN files :
       files[i] # Absent => files[i].shortcut # "none"
  /\ \A file \in Edits \ {Absent} :
       /\ file = [prefs |-> file.prefs, mode |-> file.mode]
       /\ IsPreferences(file.prefs) /\ file.prefs.prompt # "commented"
ASSUME ShortcutsDiffer ==
  \A m, n \in Modes : Shortcut[m] = Shortcut[n] => m = n \/ Shortcut[m] = "none"

VARIABLES
  profile,   \* config.ini, or Absent
  marker,    \* .legacy-whisper-migrated is there
  legacy,    \* what is at each legacy location; nothing writes it
  modes,     \* the style of every mode there is
  up,        \* the front end of the running process, or "none"
  todo,      \* the steps that are left of the running call
  config,    \* RuntimeController._config
  active,    \* RuntimeController._active_mode_id
  days,      \* history.retention_days
  policy,    \* the days of audio_retention.policy
  bound,     \* the registered shortcuts: the dictation's and the modes' with one
  device,    \* the device this process started with
  restart,   \* _engine_restart_requested
  form,      \* MainWindow._settings
  combo,     \* the mode the window shows
  recording, \* a dictation runs
  calls, crashes, faults, \* bounds: how often each happened
  saved,     \* history: the profile found at first, or the last one a call wrote
  chosen,    \* history: the mode the user selected last
  failed,    \* history: a step failed since the last complete save
  orphaned   \* history: a mode was deleted and its successor not selected

memory == <<config, active, days, policy, bound, restart>>
screen == <<form, combo>>
history == <<saved, chosen, failed, orphaned>>
bounds == <<calls, crashes, faults>>
vars == <<profile, marker, legacy, modes, up, todo, device, memory, screen, recording, bounds, history>>

With(prefs, m) == [prefs |-> prefs, mode |-> m]
Fresh == With(Default, "raw")
Known == {m \in Modes : modes[m] # "absent"}
Quiet == up # "none" /\ todo = <<>>
Do(what) == [do |-> what]
DoWith(what, m) == [do |-> what, mode |-> m]
Save(cfg, picked) == [do |-> "save", cfg |-> cfg, picked |-> picked]

\* The shortcuts of the preferences and of the modes; of two that are the same
\* the second is left out.
Unbound == [dictation |-> "none", modes |-> {}]
Specs(prefs) ==
  [dictation |-> prefs.shortcut,
   modes |-> {m \in Known : Shortcut[m] \notin {"none", prefs.shortcut}}]
Serving == bound # Unbound

\* What the providers can do: all but the editing pack transcribe, one streams.
Streams(provider) == provider = "faster-whisper"
Transcribes(provider) ==
  provider \in {"faster-whisper", "cohere", "openai", "groq", "deepgram"}

(***************************************************************************)
(* config.ini: what a written profile reads back as, what a load makes of  *)
(* a file the user edited, and which files no process starts with.         *)
(***************************************************************************)
\* A line of the instructions that begins like a comment is lost on the way.
Written(cfg) ==
  [cfg EXCEPT !.prefs.prompt = IF @ = "commented" THEN "cut" ELSE @]

\* A value out of its range falls back to the default.
Recovered(cfg) ==
  [cfg EXCEPT !.prefs.days = IF @ < 0 THEN Default.days ELSE @,
              !.prefs.provider = IF @ = "faster_whisper" THEN "faster-whisper" ELSE @]
Loaded(file) == IF file = Absent THEN Fresh ELSE Recovered(file)

\* A device that is unknown is not recovered from.
Starts(cfg) == cfg.prefs.device \in {"auto", "cpu", "nvidia", "amd"}

(***************************************************************************)
(* Start: migrate at most once, load, and store a first profile.           *)
(***************************************************************************)
NoLegacy == \A i \in DOMAIN legacy : legacy[i] = Absent

\* The sections of the legacy file that are known, over the defaults.
Migrated(file) ==
  With([Default EXCEPT !.shortcut = file.shortcut, !.device = file.device], "raw")

Init ==
  /\ profile \in {Absent, Fresh} /\ marker \in {TRUE, FALSE}
  /\ legacy \in LegacyFiles
  /\ profile = Absent => ~marker
  /\ modes = [m \in Modes |-> CASE m = "raw" -> "raw"
                                [] m = "message" -> "edited"
                                [] OTHER -> "absent"]
  /\ up = "none" /\ todo = <<>>
  /\ config = Fresh /\ active = "raw" /\ days = Default.days /\ policy = Default.days
  /\ bound = Unbound /\ device = Default.device /\ restart = FALSE
  /\ form = Fresh /\ combo = "none" /\ recording = FALSE
  /\ calls = 0 /\ crashes = 0 /\ faults = 0
  /\ saved = profile /\ chosen = "raw" /\ failed = FALSE /\ orphaned = FALSE

Launch(f) ==
  /\ up = "none"
  /\ up' = f
  /\ todo' = <<Do("migrate"), Do("load")>>
             \o (IF profile = Absent /\ NoLegacy THEN <<Do("first")>> ELSE <<>>)
             \o (IF f = "window" THEN <<Do("form"), Do("refresh")>> ELSE <<>>)
             \o <<Do("bind")>>
  /\ bound' = Unbound /\ restart' = FALSE /\ combo' = "none"
  /\ UNCHANGED <<profile, marker, legacy, modes, config, active, days, policy, device, form,
                 recording, bounds, history>>

\* The next step of the call, and the steps that follow it.
AtStep(what) == todo # <<>> /\ Head(todo).do = what
Done == todo' = Tail(todo)
Then(steps) == todo' = steps \o Tail(todo)
Drop == todo' = <<>>

\* The first legacy file there is becomes the profile, and is left as it is.
TakeOver ==
  /\ \E i \in DOMAIN legacy :
       /\ legacy[i] # Absent /\ \A j \in 1..(i - 1) : legacy[j] = Absent
       /\ profile' = Migrated(legacy[i])
  /\ Then(<<Do("mark")>>)

\* Mutant: only the marker says that the legacy file was taken over.
MigrateUnlessMarked ==
  /\ AtStep("migrate")
  /\ IF marker \/ NoLegacy THEN Done /\ UNCHANGED profile ELSE TakeOver
  /\ UNCHANGED <<marker, legacy, modes, up, device, memory, screen, recording, bounds, history>>

\* A profile or the marker ends the migration.
Migrate ==
  /\ AtStep("migrate")
  /\ IF profile # Absent \/ marker \/ NoLegacy THEN Done /\ UNCHANGED profile ELSE TakeOver
  /\ UNCHANGED <<marker, legacy, modes, up, device, memory, screen, recording, bounds, history>>

MarkMigrated ==
  /\ AtStep("mark")
  /\ marker' = TRUE /\ Done
  /\ UNCHANGED <<profile, legacy, modes, up, device, memory, screen, recording, bounds, history>>

\* The constructor loads the profile, or ends the process with its error.
Load ==
  /\ AtStep("load")
  /\ LET cfg == Loaded(profile) IN
     IF Starts(cfg)
     THEN /\ config' = cfg /\ active' = cfg.mode /\ device' = cfg.prefs.device
          /\ days' = cfg.prefs.days /\ policy' = cfg.prefs.days
          /\ failed' = FALSE /\ Done /\ UNCHANGED up
     ELSE /\ up' = "none" /\ Drop
          /\ UNCHANGED <<config, active, device, days, policy, failed>>
  /\ UNCHANGED <<profile, marker, legacy, modes, bound, restart, screen, recording, bounds,
                 saved, chosen, orphaned>>

FirstProfile ==
  /\ AtStep("first")
  /\ profile' = Written(config) /\ Done
  /\ UNCHANGED <<marker, legacy, modes, up, device, memory, screen, recording, bounds, history>>

OpenForm ==
  /\ AtStep("form")
  /\ form' = config /\ Done
  /\ UNCHANGED <<profile, marker, legacy, modes, up, device, memory, combo, recording, bounds, history>>

StartShortcut ==
  /\ AtStep("bind")
  /\ bound' = Specs(config.prefs) /\ Done
  /\ UNCHANGED <<profile, marker, legacy, modes, up, device, config, active, days, policy, restart,
                 screen, recording, bounds, history>>

(***************************************************************************)
(* save_settings, in the order of its assignments.                         *)
(***************************************************************************)
Call == Quiet /\ calls < MaxCalls /\ calls' = calls + 1
Fail == faults < MaxFaults /\ faults' = faults + 1

\* What save_settings refuses is refused before anything is written.
Acceptable(cfg) ==
  /\ ~recording
  /\ cfg.mode \in Known
  /\ Starts(cfg) /\ cfg.prefs.days >= 0
  /\ Transcribes(cfg.prefs.provider)
  /\ cfg.prefs.live => Streams(cfg.prefs.provider) /\ modes[cfg.mode] # "edited"

\* The window submits its widgets over the settings it last loaded or saved,
\* live insertion only with a provider that streams.
Widgets(d) == [d EXCEPT !.live = @ /\ Streams(d.provider)]
WindowSave(d) ==
  LET cfg == With(Widgets(d), form.mode) IN
  /\ Call /\ up = "window"
  /\ Acceptable(cfg)
  /\ todo' = <<Save(cfg, FALSE), Do("prune"), Do("apply"), [do |-> "keep", cfg |-> cfg]>>
  /\ UNCHANGED <<profile, marker, legacy, modes, up, device, memory, screen, recording,
                 crashes, faults, history>>

\* Mutant: the changes are merged into the settings of the start.
EngineUpdateStale(d, m) ==
  LET cfg == With(d, IF m = "same" THEN form.mode ELSE m) IN
  /\ Call /\ up = "engine"
  /\ Acceptable(cfg)
  /\ todo' = <<Save(cfg, m # "same"), Do("prune"), Do("apply")>>
  /\ UNCHANGED <<profile, marker, legacy, modes, up, device, memory, screen, recording,
                 crashes, faults, history>>

\* settings.update merges the changes into the current settings.
EngineUpdate(d, m) ==
  LET cfg == With(d, IF m = "same" THEN config.mode ELSE m) IN
  /\ Call /\ up = "engine"
  /\ Acceptable(cfg)
  /\ todo' = <<Save(cfg, m # "same"), Do("prune"), Do("apply")>>
  /\ UNCHANGED <<profile, marker, legacy, modes, up, device, memory, screen, recording,
                 crashes, faults, history>>

\* Mutant: memory takes the settings before the disk does.
WriteAfterMemory ==
  /\ AtStep("save")
  /\ LET cfg == Head(todo).cfg IN
     /\ config' = cfg /\ days' = cfg.prefs.days
     /\ \/ /\ profile' = Written(cfg) /\ saved' = profile' /\ Done /\ UNCHANGED faults
           /\ chosen' = IF Head(todo).picked THEN cfg.mode ELSE chosen
        \/ Fail /\ Drop /\ UNCHANGED <<profile, saved, chosen>>
  /\ UNCHANGED <<marker, legacy, modes, up, device, active, policy, bound, restart, screen,
                 recording, calls, crashes, failed, orphaned>>

\* A temporary file replaces config.ini at once, or the call fails with nothing
\* changed; then memory and the history's retention follow.
Write ==
  /\ AtStep("save")
  /\ LET cfg == Head(todo).cfg IN
     \/ /\ profile' = Written(cfg) /\ saved' = profile'
        /\ config' = cfg /\ days' = cfg.prefs.days
        /\ chosen' = IF Head(todo).picked THEN cfg.mode ELSE chosen
        /\ Done /\ UNCHANGED faults
     \/ Fail /\ Drop /\ UNCHANGED <<profile, saved, config, days, chosen>>
  /\ UNCHANGED <<marker, legacy, modes, up, device, active, policy, bound, restart, screen,
                 recording, calls, crashes, failed, orphaned>>

\* history.prune() may raise, and then the rest of the call is skipped.
Prune ==
  /\ AtStep("prune")
  /\ \/ Done /\ UNCHANGED <<faults, failed>>
     \/ Fail /\ Drop /\ failed' = TRUE
  /\ UNCHANGED <<profile, marker, legacy, modes, up, device, memory, screen, recording,
                 calls, crashes, saved, chosen, orphaned>>

\* Then the audio policy, the active mode and the shortcut follow, and another
\* device asks the host for a new process.
Rebound == IF Serving THEN Specs(config.prefs) ELSE bound
Apply ==
  /\ AtStep("apply")
  /\ policy' = config.prefs.days /\ active' = config.mode
  /\ bound' = Rebound
  /\ restart' = (restart \/ config.prefs.device # device)
  /\ failed' = FALSE /\ Done
  /\ orphaned' = (orphaned /\ config.mode \notin Known)
  /\ UNCHANGED <<profile, marker, legacy, modes, up, device, config, days, screen, recording,
                 bounds, saved, chosen>>

\* The window keeps what it submitted as its settings.
KeepForm ==
  /\ AtStep("keep")
  /\ form' = Head(todo).cfg /\ Done
  /\ UNCHANGED <<profile, marker, legacy, modes, up, device, memory, combo, recording, bounds, history>>

(***************************************************************************)
(* select_mode, from the window (which ignores an error), the protocol, a  *)
(* spoken or typed command and a mode's shortcut.                          *)
(***************************************************************************)
Selectable(m) ==
  /\ m \in Known
  /\ (config.prefs.live \/ modes[m] = "live")
     => modes[m] # "edited" /\ Streams(config.prefs.provider)
Ignored == Head(todo).do # "select"

Select ==
  /\ AtStep("select") \/ AtStep("pick") \/ AtStep("show")
  /\ LET m == Head(todo).mode IN
     IF Selectable(m)
     THEN /\ active' = m /\ config' = [config EXCEPT !.mode = m]
          /\ Then(<<Do(IF Ignored THEN "store" ELSE "file")>>)
          /\ chosen' = IF AtStep("show") THEN chosen ELSE m
          /\ orphaned' = FALSE
     ELSE /\ IF Ignored THEN Done ELSE Drop
          /\ orphaned' = (orphaned \/ active \notin Known)
          /\ UNCHANGED <<active, config, chosen>>
  /\ UNCHANGED <<profile, marker, legacy, modes, up, device, days, policy, bound, restart, screen,
                 recording, bounds, saved, failed>>

\* The write comes after memory has changed: when it fails they differ.
StoreMode ==
  /\ AtStep("file") \/ AtStep("store")
  /\ \/ profile' = Written(config) /\ saved' = profile' /\ Done /\ UNCHANGED <<faults, failed>>
     \/ /\ Fail /\ failed' = TRUE /\ UNCHANGED <<profile, saved>>
        /\ IF AtStep("store") THEN Done ELSE Drop
  /\ UNCHANGED <<marker, legacy, modes, up, device, memory, screen, recording, calls, crashes,
                 chosen, orphaned>>

\* The user picks a mode in the window.
PickMode(m) ==
  /\ Call /\ up = "window" /\ m \in Known \ {combo}
  /\ combo' = m
  /\ todo' = <<DoWith("pick", m)>>
  /\ UNCHANGED <<profile, marker, legacy, modes, up, device, memory, form, recording,
                 crashes, faults, history>>

\* The client of the protocol selects a mode.
SelectMode(m) ==
  /\ Call /\ up = "engine"
  /\ todo' = <<DoWith("select", m)>>
  /\ UNCHANGED <<profile, marker, legacy, modes, up, device, memory, screen, recording,
                 crashes, faults, history>>

\* A typed command proposes a mode there is, and the user confirms it; what the
\* window shows stays.
RunCommand(m) ==
  /\ Call /\ up = "window" /\ m \in Known
  /\ todo' = <<DoWith("select", m)>>
  /\ UNCHANGED <<profile, marker, legacy, modes, up, device, memory, screen, recording,
                 crashes, faults, history>>

\* The shortcut of a mode selects it and starts a dictation.
ModeShortcut(m) ==
  /\ Call /\ m \in bound.modes /\ ~recording
  /\ todo' = <<DoWith("select", m), Do("start")>>
  /\ UNCHANGED <<profile, marker, legacy, modes, up, device, memory, screen, recording,
                 crashes, faults, history>>

(***************************************************************************)
(* Modes: saving one, making one and deleting one.                         *)
(***************************************************************************)
\* refresh_modes fills the list again and selects what it showed, or the mode
\* of the form, or else the first mode.
Refresh ==
  /\ AtStep("refresh")
  /\ LET desired == IF combo = "none" THEN form.mode ELSE combo
         shown == IF desired \in Known THEN desired ELSE "raw"
         again == DoWith("show", shown)
     IN /\ combo' = shown
        /\ Then(IF shown = "raw" THEN <<again>> ELSE <<again, again>>)
  /\ UNCHANGED <<profile, marker, legacy, modes, up, device, memory, form, recording, bounds, history>>

\* An edited mode is shown, and so selected.
Show ==
  /\ AtStep("edited")
  /\ combo' = Head(todo).mode
  /\ Then(IF combo = Head(todo).mode THEN <<>> ELSE <<DoWith("pick", Head(todo).mode)>>)
  /\ UNCHANGED <<profile, marker, legacy, modes, up, device, memory, form, recording, bounds, history>>

Rebind ==
  /\ AtStep("rebind")
  /\ bound' = Rebound /\ Done
  /\ UNCHANGED <<profile, marker, legacy, modes, up, device, config, active, days, policy, restart,
                 screen, recording, bounds, history>>

\* One row of the database, replaced with its rules.
Keep(m, style) == modes' = [modes EXCEPT ![m] = style]
Forget(m) == modes' = [modes EXCEPT ![m] = "absent"]

\* The runtime refuses a mode that inserts live without a provider that streams.
Accepted(style) == style = "live" => Streams(config.prefs.provider)

\* A mode is edited, and stays where it is in the list.
SaveMode(m, style) ==
  /\ Call /\ up = "window" /\ m \in Known /\ style # modes[m]
  /\ Accepted(style)
  /\ Keep(m, style)
  /\ todo' = <<Do("rebind"), Do("refresh"), DoWith("edited", m)>>
  /\ UNCHANGED <<profile, marker, legacy, up, device, memory, screen, recording, crashes, faults, history>>

\* A new mode has instructions of its own and is not selected.
NewMode(m) ==
  /\ Call /\ up = "window" /\ m \notin Known
  /\ Keep(m, "edited")
  /\ todo' = <<Do("rebind"), Do("refresh")>>
  /\ UNCHANGED <<profile, marker, legacy, up, device, memory, screen, recording, crashes, faults, history>>

\* Mutant: the active mode is deleted like any other.
DeleteModeOnly(m) ==
  /\ Call /\ up = "window" /\ m \in Known
  /\ Forget(m)
  /\ todo' = <<Do("rebind")>>
  /\ UNCHANGED <<profile, marker, legacy, up, device, memory, screen, recording, crashes, faults,
                 history>>

\* The raw mode follows a deleted active mode, then the shortcuts change.
AfterDeletion(m) ==
  (IF active = m THEN <<DoWith("select", "raw")>> ELSE <<>>) \o <<Do("rebind")>>

\* The row goes first, and the window's list last.
DeleteMode(m) ==
  /\ Call /\ up = "window" /\ m \in Known
  /\ Forget(m)
  /\ todo' = AfterDeletion(m) \o <<Do("refresh")>>
  /\ UNCHANGED <<profile, marker, legacy, up, device, memory, screen, recording, crashes, faults,
                 history>>

(***************************************************************************)
(* Dictations, and the end of the process.                                 *)
(***************************************************************************)
StartByShortcut ==
  /\ AtStep("start")
  /\ recording' = (recording \/ active \in Known) /\ Done
  /\ UNCHANGED <<profile, marker, legacy, modes, up, device, memory, screen, bounds, history>>

StartRecording ==
  /\ Quiet /\ ~recording /\ active \in Known
  /\ recording' = TRUE
  /\ UNCHANGED <<profile, marker, legacy, modes, up, todo, device, memory, screen, bounds, history>>

EndRecording ==
  /\ Quiet /\ recording
  /\ recording' = FALSE
  /\ UNCHANGED <<profile, marker, legacy, modes, up, todo, device, memory, screen, bounds, history>>

\* The user edits config.ini, or removes it, while nothing runs.
EditFile(file) ==
  /\ up = "none" /\ calls < MaxCalls
  /\ calls' = calls + 1
  /\ profile' = file /\ saved' = file
  /\ chosen' = Loaded(file).mode
  /\ orphaned' = (Loaded(file).mode \notin Known)
  /\ UNCHANGED <<marker, legacy, modes, up, todo, device, memory, screen, recording, crashes,
                 faults, failed>>

Crash ==
  /\ up # "none" /\ crashes < MaxCrashes
  /\ crashes' = crashes + 1
  /\ up' = "none" /\ todo' = <<>> /\ recording' = FALSE
  /\ chosen' = Loaded(profile).mode
  /\ orphaned' = (Loaded(profile).mode \notin Known)
  /\ UNCHANGED <<profile, marker, legacy, modes, device, memory, screen, calls, faults, saved, failed>>

Step ==
  \/ Migrate \/ MarkMigrated \/ Load \/ FirstProfile \/ OpenForm \/ StartShortcut
  \/ Write \/ Prune \/ Apply \/ KeepForm
  \/ Select \/ StoreMode \/ Refresh \/ Show \/ Rebind \/ StartByShortcut

Next ==
  \/ \E f \in Frontends : Launch(f)
  \/ Step
  \/ \E d \in Drafts : WindowSave(d) \/ \E m \in Modes \cup {"same"} : EngineUpdate(d, m)
  \/ \E m \in Modes : PickMode(m) \/ SelectMode(m) \/ RunCommand(m) \/ ModeShortcut(m)
  \/ \E m \in UserModes \cup {"raw"}, style \in Styles : SaveMode(m, style)
  \/ \E m \in UserModes : NewMode(m) \/ DeleteMode(m)
  \/ \E file \in Edits : EditFile(file)
  \/ StartRecording \/ EndRecording
  \/ Crash

Spec == Init /\ [][Next]_vars

(***************************************************************************)
(* Properties.                                                             *)
(***************************************************************************)
\* The last preferences or mode that a call wrote, or the user edited, are what
\* config.ini holds, whatever failed or ended since, and no migration of a legacy
\* file replaces them (_atomic_write_parser, migrate_legacy_config).
SavedSurvives == saved # Absent => profile = saved

\* Between two calls the file reads back as the runtime's copy, but for the lines
\* of the instructions that INI loses, and everything derived from them agrees,
\* unless a prune failed inside save_settings or a write inside select_mode; a
\* write that fails inside save_settings changes none of them.  Every shortcut is
\* registered that there should be; what else is registered belongs to a mode
\* whose deletion was cut short (delete_mode).
SettingsAgree ==
  Quiet /\ ~failed =>
    /\ Loaded(profile) = Written(config)
    /\ active = config.mode
    /\ days = config.prefs.days /\ policy = config.prefs.days
    /\ bound.dictation = config.prefs.shortcut
    /\ bound.modes \cap Known = Specs(config.prefs).modes
    /\ config.prefs.device # device => restart

\* The active mode exists, so that a dictation can start, unless a deletion was
\* cut short before its successor was selected (delete_mode, ModeRouter.route).
ModeRoutes == Quiet /\ ~orphaned => active \in Known

\* A client of the protocol that changes other preferences never changes the
\* mode the user chose (_handle_settings_update).
EngineKeepsMode == Quiet /\ up = "engine" /\ ~failed => active = chosen

\* The mode the user chose stays active until another one is chosen or it is
\* deleted (test_runtime_persists_modes_vocabulary_and_snippets).
ChosenModeStays == Quiet /\ ~failed => active = chosen
=============================================================================
