CONSTANTS
  Messages = {m1, m2, m3}
  Chats = {c1, c2}
  Users = {u1}
  ThresholdCount = 2
  ThresholdTime = 1
  Cooldown = 1
  WindowSize = 3
  MaxTime = 3
  Faults = {"settings", "notify", "reply"}
SPECIFICATION Spec
CHECK_DEADLOCK FALSE
PROPERTY OnlyTheBusyAreBothered
SYMMETRY Symmetric
INVARIANTS QuietDuringCooldown HistoryIsComplete
