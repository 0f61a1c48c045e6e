SPECIFICATION Spec
CONSTANTS
  Writers = {w1, w2}
  Content = {a, b}
  Missing = Missing
  Torn = Torn
INVARIANTS NeverTorn
PROPERTIES IsAtomicFile CallsEnd
