CONSTANTS
  m1 = m1
  m2 = m2
  Chats = {c1}
  Messages <- MCMessages
  Reactions = {r1}
  MaxSize = 3
  Stored <- MCStored
  Faults = {"save", "crash"}
SPECIFICATION HistorySpec
PROPERTY ImplementsWindow
