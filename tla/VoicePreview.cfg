\* Two handlers that list one scope and sample two versions of one voice.
SPECIFICATION PreviewSpec
CONSTANTS
  Handler = {"h1", "h2"}
  Scope = {"public"}
  TTL = 1
  MaxTime = 2
  MaxVersions = 2
  MaxEntries = 1
INVARIANTS PreviewTypeOK NoGoingBack PaidOnceAtATime
PROPERTIES EveryCallEnds
