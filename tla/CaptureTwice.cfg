SPECIFICATION CaptureSpec
CONSTANTS
  MaxDepth = 1
  MaxUnits = 2
INVARIANT ContentIsAll
