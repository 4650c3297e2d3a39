\* Two handlers, two jobs, two passes, and credentials that may change.
SPECIFICATION Spec
CONSTANTS
  Handler = {"h1", "h2"}
  Cred = {"byok", "cloud"}
  MaxJobs = 2
  MaxPasses = 2
  MaxCandidates = 2
  RETRY_ATTEMPTS = 2
INVARIANTS TypeOK OneGeneration PaysForItself PublishedWhole
PROPERTIES OverIsOver GenerationEnds
