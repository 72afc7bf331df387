SPECIFICATION FairSpec
CONSTANTS
  Updates <- MCUpdates
  Persons = {"igor"}
  Arrivals <- MCArrivals
  Chats <- MCChats
  ChatOf <- MCChatOf
  SenderOf <- MCSenderOf
  Faults = {"store", "telegram", "model", "sheet"}
  Lengths = {0, 1}
  PackStickers = 0
  Albums = {"album"}
  NoAlbum = "single"
  AlbumOf <- MCAlbumOf
CHECK_DEADLOCK FALSE
INVARIANTS HistoryTellsWhatWasSent AlbumAnsweredOnce OnlyGreetingsShrink ReportsAgree
PROPERTY EveryUpdateReturns
