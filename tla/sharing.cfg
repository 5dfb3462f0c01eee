CONSTANTS
  User = {u1, u2}
  Slot = {s1, s2}
  Session = {x1, x2}
  Grant = {g1, g2}
  Extra = {}
  Duration = {1}
  Grace = 1
  MaxMove = 1
  NoUser = NoUser
  NoGrant = NoGrant
  NoSlot = NoSlot
SPECIFICATION Spec
INVARIANTS OneShareEach PreviousHolderKeepsView
SYMMETRY Symmetry
CHECK_DEADLOCK FALSE
