SPECIFICATION Spec
CONSTANTS
  Objs = {a, b}
  MaxFd = 5
  Standard = {0, 1}
INVARIANTS
  OneOwner
  NoFalseAlarm
  NoMissedLeak
  CountIsRight
