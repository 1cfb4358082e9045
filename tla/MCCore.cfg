SPECIFICATION CoreSpec
CONSTANTS
  Visits = {1, 2}
  Val <- MCVal
  NsecContents <- MCNsecContents
  SecContents <- MCSecContents
  Zero <- MCZero
  Junk <- MCJunk
  NsecEntry <- MCNsecEntry
  HandleFiq <- MCHandleFiq
  StackSize = 3
  MaxDeep = 6
  CPU = {c0}
  FiqCpu = c0
  FiqContext = fiqctx
  TxDepth = 2
  RxDepth = 3
  RxTrigger = 2
  MaxLen = 2
INVARIANTS
  FiqTransparent
  CallPreserves
  SecureUndisturbed
  BootSound
  NoCharLost
  AckedAndEnded
PROPERTIES
  FiqServed
  BootEnds
  ReceivedIsRead
