CONSTANTS
  Chats = {c1}
  Users = {u1, b1}
  Bots = {b1}
  NoUser = NoUser
  Slots = {s1}
  Sender = Sender
  Faults = {"crash"}
  MaxMoves = 2
SPECIFICATION TSpec
INVARIANTS NoForgottenMember NoGhostMember
