SPECIFICATION Spec
CONSTANTS
  Session = {"a", "b"}
  Key = {k1}
  NoKey = NoKey
  MaxLive = 1
  Ttl = 1
  Grace = 2
  MaxShares = 2
  MaxTime = 2
  MaxCrashes = 1
  MaxFaults = 1
INVARIANTS TypeOK DeliveredOnce QuotaHeld SurvivesRestart
