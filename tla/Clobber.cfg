SPECIFICATION StepSpec
CONSTANTS
  f1 = f1  f2 = f2  a = a  b = b  c = c  aCR = aCR
  Files = {f1}
  Content = {a, b, c}
  Missing = Missing
  Normalize <- Same
  GitClean <- Same
  Checked = {f1}
  Broken = {b}
  Foreign = {c}
  Faults = FALSE
  p1 = p1  p2 = p2  p3 = p3  t1 = t1  t2 = t2
  PatchIds = {p1}
  Paths <- RelPaths
  NoPatch = NoPatch
  PatchTTL = 0
  AnyFile = AnyFile
  MaxUndo = 2
  TxIds = {t1}
  NoTx = NoTx
  TxTTL = 1
  Empty = a
  Shared = TRUE
PROPERTIES WriteReplacesBase
