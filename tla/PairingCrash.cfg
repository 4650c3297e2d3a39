SPECIFICATION Spec
CONSTANTS
  server = server  cli = cli  t1 = t1  t2 = t2  t3 = t3
  Actor = {t1, t2}
  Server = {server}
  Proc = {server, cli}
  ProcOf <- ServerAndCli
  Pid = {p1, p2}
  NoActor = NoActor
  NoPid = NoPid
  Ttl = 1
  MaxFailures = 1
  Lockout = 1
  MaxFailTotal = 2
  Grace = 0
  MaxTime = 2
  MaxIssues = 2
  MaxFaults = 1
  MaxCrashes = 1
SYMMETRY PidSymmetry
INVARIANTS Accounted
PROPERTIES OneTime SoundSteps
