SPECIFICATION DeliverySpec
CONSTANTS
  Runs = {r1}
  NoRun = NoRun
  Hubs = {h1, h2}
  NoHub = NoHub
  MaxFaults = 1
INVARIANTS
  DeliveredIsShown
  ToldOncePerLease
PROPERTIES
  EveryEndIsTold
