SPECIFICATION FairSpec
CONSTANTS
  request = request
  Stream = Stream
  Cancellers <- MCCancellers
  Providers = 2
  MaxRetries = 1
  QueueSize = 1
  Histories <- MCHistories
  MaxContextMessages = 3
  MaxContextChars = 3
INVARIANTS
  ContextAlternates
PROPERTIES
  StreamsEnd
  
  NoReplay
