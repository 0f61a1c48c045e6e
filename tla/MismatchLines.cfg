SPECIFICATION Spec
CONSTANTS
  x = x  y = y  LF = LF  CR = CR  FF = FF
  Chars = {x, y, LF, CR, FF}
  Texts <- AllTexts
  Pieces <- SomePieces
  LineNumbers = {0, 1, 2, 3, 4}
  Counts = {1}
  Contexts <- SomeContexts
  MaxContext = 2
  MaxLen = 3
INVARIANTS MismatchNamesLines
