------------------------------ MODULE MCSettings ------------------------------
(***************************************************************************)
(* A small instance of Settings: one mode of the user, preferences that    *)
(* differ from the defaults in one or two fields, at most one legacy file. *)
(***************************************************************************)
EXTENDS Settings

MCDefault ==
  [live |-> FALSE, provider |-> "faster-whisper", days |-> 30, shortcut |-> "alt-o", prompt |-> "none",
   device |-> "auto"]
MCLegacy == [MCDefault EXCEPT !.shortcut = "pause", !.device = "nvidia"]
MCLegacyFiles == {<<Absent, Absent>>, <<Absent, MCLegacy>>}
MCDrafts ==
  {MCDefault,
   [MCDefault EXCEPT !.live = TRUE, !.prompt = "commented"],
   [MCDefault EXCEPT !.days = 7, !.shortcut = "alt-p"],
   [MCDefault EXCEPT !.device = "cpu", !.provider = "openai", !.live = TRUE],
   [MCDefault EXCEPT !.device = "warp"],
   [MCDefault EXCEPT !.provider = "local-qwen3"]}

\* By hand: values out of range in a mode of the user's, and an unknown device.
MCEdits ==
  {[prefs |-> [MCDefault EXCEPT !.days = -1, !.provider = "faster_whisper"], mode |-> "mine"],
   [prefs |-> [MCDefault EXCEPT !.device = "warp"], mode |-> "raw"],
   Absent}
MCShortcut == [m \in Modes |-> IF m = "mine" THEN "alt-p" ELSE "none"]
=============================================================================
