SPECIFICATION FairSpec
CONSTANTS
  Reader = {r1}
  Key = {k1}
  NoKey = NoKey
  Content = {c1}
  Session = {s1}
  NoSession = NoSession
  MaxLen = 2
  Limit = 1
  Ttl = 1
  MaxSeq = 3
  MaxTime = 1
  MaxBoots = 2
  MaxLost = 1
INVARIANTS TypeOK ExactlyOnce
PROPERTIES EventsArrive
