SPECIFICATION Spec
CONSTANTS
  h1 = h1
  c1 = c1
  home = home
  cafe = cafe
  hkey = hkey
  ckey = ckey
  BSSIDs = {h1}
  SSIDs = {home}
  PSKs = {hkey, ckey}
  Freq <- MCFreq
  Signal <- MCSignal
  Slot <- MCSlot
  NoBssid = NoBssid
  NoSsid = NoSsid
  NoPsk = NoPsk
  BadPsk = BadPsk
  RescanCycle = 2
  RescanLimit = 4
  Beacons <- MCBeacons
  RightPsk <- MCRight
  InitCfg <- MCCfg
  InitState <- MCState
  AlwaysOn = {h1}
  MaxEvents = 1
  Kinds = {"rfkill"}
  Externals = 0
  Prompt = TRUE
INVARIANT RestoredIsRetried
CHECK_DEADLOCK FALSE
