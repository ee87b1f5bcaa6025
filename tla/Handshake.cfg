SPECIFICATION Spec
CONSTANTS
  Right = Right
  Wrong = Wrong
  Pmks <- MCPmks
  ApPmk = Right
  NoKey = NoKey
  MaxNonce = 2
  MaxCount = 4
  MaxGtk = 2
INVARIANTS
  TypeOK
  KeysAgree
  FreshPtk
PROPERTIES
  GtkForward
  HeldBack
  Implements
