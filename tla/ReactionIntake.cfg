CONSTANTS
  NumUpdates = 3
  Arrivals <- MCArrivals
  Capacity = 1
  MaxAttempts = 2
  Faults = {"request", "history", "repeat", "crash"}
  Chat = c1
  Target <- MCTarget
  WindowSize = 2
  Stored <- MCStored
  BufferFaults = {"load", "save", "crash"}
SPECIFICATION FairIntakeSpec
INVARIANTS ConfirmedWasHandled HandedOnceInOrder AttemptsAreLimited NoReactionTwice ReactionKnowsItsTarget
PROPERTIES SavedHistoryIsKept EveryUpdateHandled StopEnds
