CONSTANTS
  Chats = {c1}
  Users = {u1, u2}
  Bots = {}
  NoUser = NoUser
  Slots = {s1}
  Sender = Sender
  Faults = {}
SPECIFICATION Spec
PROPERTY NothingSentAfterEmptying
