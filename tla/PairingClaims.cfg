SPECIFICATION FairSpec
CONSTANTS
  server = server  cli = cli  t1 = t1  t2 = t2  t3 = t3
  Actor = {t1, t2}
  Server = {server}
  Proc = {server}
  ProcOf <- OneServer
  Pid = {p1}
  NoActor = NoActor
  NoPid = NoPid
  Ttl = 1
  MaxFailures = 2
  Lockout = 1
  MaxFailTotal = 3
  Grace = 0
  MaxTime = 1
  MaxIssues = 2
  MaxFaults = 0
  MaxCrashes = 0
INVARIANTS TypeOK LockExclusive AtMostOnce
PROPERTIES CallsAreTimely
