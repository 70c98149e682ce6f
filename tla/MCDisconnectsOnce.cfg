CONSTANTS
  MaxUp = 2
  MaxDown = 2
SPECIFICATION Spec
INVARIANT DisconnectsOnce
