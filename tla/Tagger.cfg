CONSTANTS
  Chats = {c1}
  Users = {u1, b1}
  Bots = {b1}
  NoUser = NoUser
  Slots = {s1}
  Sender = Sender
  Faults = {"store", "crash"}
SPECIFICATION FairSpec
INVARIANTS TypeOK OneJobPerChat
PROPERTIES EmptiedChatStartsAfresh EveryKnownChatAttempted
