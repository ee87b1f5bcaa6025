SPECIFICATION FairSpec
CONSTANTS
  h1 = h1
  c1 = c1
  home = home
  cafe = cafe
  hkey = hkey
  ckey = ckey
  BSSIDs = {h1}
  SSIDs = {home}
  PSKs = {hkey, ckey}
  Freq <- MCFreq
  Signal <- MCSignal
  Slot <- MCSlot
  NoBssid = NoBssid
  NoSsid = NoSsid
  NoPsk = NoPsk
  BadPsk = BadPsk
  RescanCycle = 2
  RescanLimit = 2
  Beacons <- MCBeacons
  RightPsk <- MCRight
  InitCfg <- MCCfg
  InitState <- MCState
  AlwaysOn = {}
  MaxEvents = 2
  Kinds = {"neutral", "lost", "fault", "stuck", "resend"}
  Externals = 0
  Prompt = FALSE
PROPERTIES ScanEnds AuthSettles
CHECK_DEADLOCK FALSE
