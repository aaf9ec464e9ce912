SPECIFICATION FairSpec
CONSTANTS
  p = p
  d = d
  a = a
  b = b
  home = home
  former = former
  ext = ext
  odd = odd
  dead = dead
  Nothing = Nothing
  Process = {p}
  Routine = {p}
  Name = {d, a, b}
  Url = {home, former, ext, odd, dead}
  Manifest <- MCManifest
  Reserved = {d}
  Shipped <- MCShipped
  Moved <- MCMoved
  Deprecated = {dead}
  Start <- MCStart
  MaxCommands = 2
  MaxFaults = 1
  MaxVersion = 2
  Active = {ext}
CHECK_DEADLOCK FALSE
INVARIANTS
  TypeOK
  UpdateServes
  ChoicesStick
PROPERTIES
  SiblingsStay
  CatchesUp
