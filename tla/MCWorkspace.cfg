CONSTANTS
  types = types
  lib = lib
  pkgs = pkgs
  here = here
  mine = mine
  other = other
  Process = {p1, p2}
  Entry <- MCEntry
  Own <- MCOwn
  Types = types
  Managed <- MCManaged
  Resolutions <- MCResolutions
  Layouts <- MCLayouts
  NoFile = NoFile
  Torn = Torn
  Odd = Odd
  Custom = Custom
  Stock = Stock
  MaxCommands = 3
  MaxEvents = 2
SPECIFICATION Spec
INVARIANTS
  UsersWorkStays
  OneResolution
CHECK_DEADLOCK FALSE
