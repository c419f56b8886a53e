SPECIFICATION Spec
CONSTANTS
  Mice = {m1, m2}
  Buttons = {left, right}
INVARIANTS
  OneMouseSafe
  KeysFollow
PROPERTIES
  ReportsGoOn
