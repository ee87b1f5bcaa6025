SPECIFICATION Spec
CONSTANTS
  home = home
  home5 = home5
  long = long
  clip = clip
  k1 = k1
  k2 = k2
  SSIDs = {home, home5}
  PSKs = {k1, k2}
  NoPsk = NoPsk
  BadPsk = BadPsk
  NoName = NoName
  Junk = Junk
  Width <- MCWidth
  Begins <- MCBegins
  Clip <- MCClip
  Page = 128
  Slack = 32
  InitFiles <- MCFiles
  HurtFiles <- MCEdited
  MaxOps = 5
INVARIANTS TypeOK InBlock OneLine KeysGenuine Synced
PROPERTY Implements
CHECK_DEADLOCK FALSE
