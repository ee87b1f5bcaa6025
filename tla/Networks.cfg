SPECIFICATION Spec
CONSTANTS
  h1 = h1
  c1 = c1
  home = home
  cafe = cafe
  hkey = hkey
  ckey = ckey
  BSSIDs = {h1, c1}
  SSIDs = {home, cafe}
  PSKs = {hkey, ckey}
  Freq <- MCFreq
  Signal <- MCSignal
  Slot <- MCSlot
  NoBssid = NoBssid
  NoSsid = NoSsid
  NoPsk = NoPsk
  BadPsk = BadPsk
  RescanCycle = 2
  RescanLimit = 2
  Beacons <- MCRenamed
  RightPsk <- MCRight
  InitCfg <- MCCfg
  InitState <- MCState
  AlwaysOn = {}
  MaxEvents = 2
  Kinds = {"scan", "neutral", "connect", "forget", "ifdown", "lost", "fault", "resend", "rekey"}
  Externals = 0
  Prompt = FALSE
INVARIANTS SavedKeysWork CurrentKeyWorks
PROPERTY OffersHaveKeys
CHECK_DEADLOCK FALSE
