CONSTANTS
  Chats = {c1, c2}
  Users = {1, 2, 3}
  Authors = {a, b}
  NoAuthor = NoAuthor
SPECIFICATION RegistrySpec
INVARIANT MemoryIsTheTable
PROPERTY ImplementsTable
