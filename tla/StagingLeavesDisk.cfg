SPECIFICATION Spec
CONSTANTS
  f1 = f1  f2 = f2  a = a  b = b  c = c  aCR = aCR
  Files = {f1}
  Content = {a, b}
  Missing = Missing
  Normalize <- Same
  GitClean <- Same
  Checked = {f1}
  Broken = {b}
  Foreign = {}
  Faults = FALSE
  p1 = p1  p2 = p2  p3 = p3  t1 = t1  t2 = t2
  PatchIds = {p1}
  Paths <- AbsPaths
  NoPatch = NoPatch
  PatchTTL = 0
  AnyFile = AnyFile
  MaxUndo = 2
  TxIds = {t1}
  NoTx = NoTx
  TxTTL = 1
PROPERTIES StagingLeavesDisk
