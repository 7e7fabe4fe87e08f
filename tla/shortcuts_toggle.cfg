SPECIFICATION Spec
CONSTANTS
  Keys = {"dictation"}
  Desktops = {"x11", "wayland"}
  MaxGen = 3
  MaxPresses = 2
  MaxRepeats = 1
  MaxFaults = 1
  MaxTray = 1
PROPERTY TogglePressStops
CHECK_DEADLOCK FALSE
