SPECIFICATION FairSpec
CONSTANTS
  libm = libm
  perl = perl
  limine = limine
  sdl2 = sdl2
  cjson = cjson
  lua = lua
  u1 = u1
  u2 = u2
  Early = {libm}
  Late = {perl, limine, sdl2}
  Libs = {cjson}
  Commands = {lua}
  Fanout = {libm, perl}
  Foreground = {libm}
  Clears = {perl}
  NeedsEarly = {perl, sdl2}
  Synced = {limine}
  Clones = {limine}
  Keeps = {sdl2}
  Asks = {sdl2}
  Units = {u1, u2}
  Needs <- Referred
  MaxRuns = 2
CHECK_DEADLOCK FALSE
INVARIANTS TypeOK ErrorsReported EarlyReady Quiescent TocpBacked NothingStale Rerunnable CommandsReported CompleteUnlessLost
PROPERTIES Terminates ImplementsContract
