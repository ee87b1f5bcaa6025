SPECIFICATION Spec
CONSTANTS
  home = home
  home5 = home5
  long = long
  clip = clip
  k1 = k1
  k2 = k2
  SSIDs = {home, home5, long}
  PSKs = {k1, k2}
  NoPsk = NoPsk
  BadPsk = BadPsk
  NoName = NoName
  Junk = Junk
  Width <- MCWidth
  Begins <- MCBegins
  Clip <- MCClip
  Page = 4096
  Slack = 1024
  InitFiles <- MCFiles
  HurtFiles <- MCEdited
  MaxOps = 2
PROPERTY SavedIsFound
CHECK_DEADLOCK FALSE
