SPECIFICATION FairSpec
CONSTANTS
  Message <- Requests
  MaxSession = 2
  MaxFrames = 2
  MaxSends = 2
INVARIANTS WritesAreSerial NothingLostOrRepeated SettledBetweenPolls
PROPERTIES ImplementsPageLink MessagesReachThePage ReplacedSessionsEnd
