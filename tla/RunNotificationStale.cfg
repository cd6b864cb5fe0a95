SPECIFICATION Spec
CONSTANTS
  Runs = {r1}
  NoRun = NoRun
  Hubs = {h1}
  NoHub = NoHub
  MaxFaults = 0
INVARIANTS
  NoStaleReaction
