SPECIFICATION Spec
CONSTANTS
  Speeches <- SomeSpeeches
  Live = TRUE
  OutputModes = {"insert", "clipboard", "both"}
  Overlap = 2
  Repeats = 2
  Noises = {0, 9}
  MaxCopies = 1
  Faults = {"key", "clipboard", "protected", "image"}
CHECK_DEADLOCK FALSE
 
 
INVARIANT NothingTwice
 
INVARIANT ClipboardGivenBack
