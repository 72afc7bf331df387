SPECIFICATION LoaderSpec
CONSTANTS
  Labels = {"a", "b", "db", "org", "internal"}
  References <- MCReferences
  Worlds <- MCWorlds
  MaxTitleRunes = 2
  MaxDescriptionRunes = 3
  MaxConcurrent = 2
  MaxRedirects = 3
  Budget = 5
  MaxImageBytes = 5
  MaxImagePixels = 8
CHECK_DEADLOCK FALSE
INVARIANTS RequestsAreAllowed ReadsWhatThePageSays
