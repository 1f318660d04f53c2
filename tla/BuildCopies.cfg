SPECIFICATION Spec
CONSTANTS
  libm = libm
  perl = perl
  limine = limine
  sdl2 = sdl2
  cjson = cjson
  lua = lua
  u1 = u1
  u2 = u2
  Early = {libm}
  Late = {perl, limine}
  Libs = {cjson}
  Commands = {lua}
  Fanout = {libm, perl}
  Foreground = {libm}
  Clears = {perl}
  NeedsEarly = {perl}
  Synced = {limine}
  Clones = {limine}
  Keeps = {}
  Asks = {}
  Units = {u1, u2}
  Needs <- Referred
  MaxRuns = 1
CHECK_DEADLOCK FALSE
INVARIANT ReleaseComplete
