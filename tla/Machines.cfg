SPECIFICATION Spec
CONSTANTS
  h1 = h1
  c1 = c1
  home = home
  cafe = cafe
  hkey = hkey
  ckey = ckey
  BSSIDs = {h1}
  SSIDs = {home}
  PSKs = {hkey, ckey}
  Freq <- MCFreq
  Signal <- MCSignal
  Slot <- MCSlot
  NoBssid = NoBssid
  NoSsid = NoSsid
  NoPsk = NoPsk
  BadPsk = BadPsk
  RescanCycle = 2
  RescanLimit = 4
  Beacons <- MCCiphers
  RightPsk <- MCRight
  InitCfg <- MCCfg
  InitState <- MCState
  AlwaysOn = {}
  MaxEvents = 2
  Kinds = {"scan", "neutral", "connect", "forget", "sigterm", "rfkill", "ifdown", "lost", "fault", "stuck", "resend", "rekey"}
  Externals = 1
  Prompt = FALSE
INVARIANTS TypeOK ScanAnswered AuthAnswered ConnectedIsReal ScanClientHeard
CHECK_DEADLOCK FALSE
