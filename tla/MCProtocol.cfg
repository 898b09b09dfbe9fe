SPECIFICATION FairSpec
CONSTANTS
  a = a  b = b  NL = NL  NUL = NUL  T = T
  Builds = {TRUE, FALSE}
  Capacity = 2
  Earlier <- MCEarlier
  SeekTexts <- MCSeekTexts
  Messages <- AllMessages
  LineSize = 2
  StreamSize = 4
  UintSize = 8
  MaxSessions = 3
  MaxTicks = 1
  PeersLeave = TRUE
  MaxAborts = 1
INVARIANTS TypeOK ReplyIsStore LineIsLast SeekReplyIsRest StoreIsWhatWasWritten Settled
PROPERTIES SessionEnds
