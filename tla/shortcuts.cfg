SPECIFICATION Spec
CONSTANTS
  Keys = {"dictation"}
  Desktops = {"x11", "wayland"}
  MaxGen = 3
  MaxPresses = 2
  MaxRepeats = 1
  MaxFaults = 2
  MaxTray = 1
INVARIANT OneBackend
INVARIANT BoundSessionIsServed
 
INVARIANT OnePressOneGesture
INVARIANT ReleaseEndsIt
CHECK_DEADLOCK FALSE
