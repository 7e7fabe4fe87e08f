SPECIFICATION Spec
CONSTANTS
  UserModes = {"mine"}
  Drafts <- MCDrafts
  Default <- MCDefault
  LegacyFiles <- MCLegacyFiles
  Edits <- MCEdits
  Shortcut <- MCShortcut
  MaxCalls = 4
  MaxCrashes = 1
  MaxFaults = 1
INVARIANT SavedSurvives
INVARIANT SettingsAgree
INVARIANT ModeRoutes
INVARIANT EngineKeepsMode
CHECK_DEADLOCK FALSE
