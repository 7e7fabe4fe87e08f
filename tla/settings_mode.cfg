SPECIFICATION Spec
CONSTANTS
  UserModes = {"mine"}
  Drafts <- MCDrafts
  Default <- MCDefault
  LegacyFiles <- MCLegacyFiles
  Edits = {}
  Shortcut <- MCShortcut
  MaxCalls = 3
  MaxCrashes = 0
  MaxFaults = 0
CHECK_DEADLOCK FALSE
INVARIANT ChosenModeStays
