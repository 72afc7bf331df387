CONSTANTS
  count = count
  chance = chance
  here = here
  Chats = {here}
  ChatType <- OneChat
  Users = {u1}
  Keys = {count, chance}
  KeyType <- MCKeyType
  Goroutines = {g1, g2}
  MaxChanges = 3
  Faults = {"read", "write", "telegram"}
SPECIFICATION FairSpec
INVARIANT OutdatedOnlyByRace
PROPERTIES ChangedByRight ChangesTakeEffect
