\* Two lists of up to three pieces, empty pieces among them.
SPECIFICATION ListSpec
CONSTANTS
  l1 = l1
  l2 = l2
  List = {l1, l2}
  Strings <- MCStrings
  Ns = {0, 1, 3}
  MaxBuffers = 3
INVARIANT NothingHeldInVain
PROPERTY ImplementsText
