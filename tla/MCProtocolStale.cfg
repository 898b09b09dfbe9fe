SPECIFICATION Spec
CONSTANTS
  a = a  b = b  NL = NL  NUL = NUL  T = T
  Builds = {TRUE}
  Capacity = 2
  Earlier <- Empty
  SeekTexts <- MCSeekTexts
  Messages <- PlainMessages
  LineSize = 2
  StreamSize = 4
  UintSize = 8
  MaxSessions = 4
  MaxTicks = 0
  PeersLeave = FALSE
  MaxAborts = 1
INVARIANTS SeekIsFollowed
